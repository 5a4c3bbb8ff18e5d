-------------------------- MODULE RoomBoardProofs --------------------------
(* What the board plane guarantees for any party and crowd, any controls   *)
(* and any number of moves, drops, restarts and hand-overs.                *)
EXTENDS RoomBoard, TLAPS

USE RoomBoardAssumption

-----------------------------------------------------------------------------
(* The invariant.                                                          *)

Kinds == {"move", "drop", "restart", "hand"}

\* What is still allowed, and that the next move has a value.
ScenesType ==
  /\ \E s \in Scenes : cast = s.cast
  /\ left \in [Kinds -> Value] /\ moves \in Value
  /\ moves + left["move"] <= MaxMoves

RoomType ==
  /\ anchor \in Party \cup {None} /\ live \subseteq Device /\ joined \subseteq live
  /\ board \in Board \cup {None} /\ disk \in Board \cup {None}
  /\ digest \in [Control -> Value] /\ rosterDue \in BOOLEAN
  /\ spoken \in BOOLEAN

\* The crowd sends requests only, and is never asked for a board; a device
\* without a socket has no frame on its way.
UpLinks(links, there) ==
  /\ links \in [Device -> Seq(UpFrame)]
  /\ \A d \in Device : links[d] # <<>> => d \in there
  /\ \A c \in Crowd : \A i \in 1 .. Len(links[c]) : links[c][i].t = "request"
DownLinks(links, there) ==
  /\ links \in [Device -> Seq(DownFrame)]
  /\ \A d \in Device : links[d] # <<>> => d \in there
  /\ \A c \in Crowd : \A i \in 1 .. Len(links[c]) : links[c][i].t # "republish"

ClientType ==
  /\ told \in [Device -> Party \cup {None}] /\ peers \in [Device -> SUBSET Party]
  /\ shown \in [Device -> Deps]
  /\ \A c \in Crowd : shown[c].enabled

DeckType ==
  /\ val \in [Device -> [Control -> Value]]
  /\ ready \in [Device -> BOOLEAN] /\ adopted \in [Device -> BOOLEAN]
  /\ load \in [Device -> Board \cup {None}] /\ last \in [Device -> Board \cup {None}]
  /\ \A d \in Device : /\ adopted[d] => ready[d]
                       /\ load[d] # None => ~ready[d]

HeardType ==
  /\ heard \in [Crowd -> [Control -> Value]]
  /\ \A c \in Crowd, k \in Control : heard[c][k] # 0 => c \in live
  /\ \A k \in Control : digest[k] # 0 => k \in Sweep

TypeInv == /\ ScenesType /\ RoomType /\ UpLinks(up, live) /\ DownLinks(down, live)
           /\ ClientType /\ DeckType /\ HeardType
BoardInv == TypeInv /\ CrowdHearsTheLast

LEMMA TypeFollows == TypeInv => TypeOK
<1> SUFFICES ASSUME TypeInv PROVE TypeOK OBVIOUS
<1>1. PICK s \in Scenes : cast = s.cast BY DEF TypeInv, ScenesType
<1>2. DOMAIN s.left = Kinds BY DEF Kinds
<1> QED
  BY <1>1, <1>2 DEF TypeInv, TypeOK, ScenesType, RoomType, UpLinks, DownLinks, ClientType,
     DeckType, HeardType

-----------------------------------------------------------------------------
(* What the frames on a link come to.                                      *)

Quiet(m) == m.t \in {"welcome", "role", "republish", "presence", "state"}

LEMMA QuietSays == \A m, k : Quiet(m) => ~Speaks(m, k)
BY DEF Quiet, Speaks

LEMMA AppendQuiet ==
  ASSUME NEW S, NEW s \in Seq(S), NEW m \in S, NEW k, ~Speaks(m, k), NEW x, NEW v,
         EndsOn(s, k, x, v)
  PROVE  EndsOn(Append(s, m), k, x, v)
<1> DEFINE t == Append(s, m)
<1>1. /\ Len(t) = Len(s) + 1 /\ Len(s) \in Nat /\ t[Len(s) + 1] = m
      /\ \A i \in 1 .. Len(s) : t[i] = s[i]
  OBVIOUS
<1> HIDE DEF t
<1>2. \A j \in 1 .. Len(t) : j \in 1 .. Len(s) \/ t[j] = m BY <1>1
<1>3. \A j \in 1 .. Len(s) : j \in 1 .. Len(t) BY <1>1
<1>4. EndsOn(t, k, x, v) BY <1>1, <1>2, <1>3 DEF EndsOn
<1> QED BY <1>4 DEF t

LEMMA AppendSays ==
  ASSUME NEW S, NEW s \in Seq(S), NEW m \in S, NEW k, Speaks(m, k), NEW x
  PROVE  EndsOn(Append(s, m), k, x, Says(m, k))
<1> DEFINE t == Append(s, m)
<1>1. Len(t) = Len(s) + 1 /\ Len(s) \in Nat /\ t[Len(s) + 1] = m OBVIOUS
<1> HIDE DEF t
<1>2. Len(s) + 1 \in 1 .. Len(t) /\ \A j \in 1 .. Len(t) : ~(j > Len(s) + 1) BY <1>1
<1>3. EndsOn(t, k, x, Says(m, k)) BY <1>1, <1>2 DEF EndsOn
<1> QED BY <1>3 DEF t

LEMMA TailEnds ==
  ASSUME NEW S, NEW s \in Seq(S), s # <<>>, NEW k, NEW x, NEW v, EndsOn(s, k, x, v)
  PROVE  /\ ~Speaks(Head(s), k) => EndsOn(Tail(s), k, x, v)
         /\ Speaks(Head(s), k) => EndsOn(Tail(s), k, Says(Head(s), k), v)
<1> DEFINE t == Tail(s)
           y == IF Speaks(Head(s), k) THEN Says(Head(s), k) ELSE x
<1>1. /\ Len(s) = Len(t) + 1 /\ Len(t) \in Nat /\ Head(s) = s[1]
      /\ \A i \in 1 .. Len(t) : t[i] = s[i + 1]
  OBVIOUS
<1> HIDE DEF t
<1>2. EndsOn(t, k, y, v)
  <2>1. \A j \in 1 .. Len(t) : j + 1 \in 1 .. Len(s) BY <1>1
  <2>2. \A i \in 1 .. Len(s) : i # 1 => i - 1 \in 1 .. Len(t) /\ s[i] = t[i - 1] BY <1>1
  <2>3. ASSUME NEW i \in 1 .. Len(s), Speaks(s[i], k), Says(s[i], k) = v,
               \A j \in 1 .. Len(s) : j > i => ~Speaks(s[j], k)
        PROVE  EndsOn(t, k, y, v)
    <3>1. CASE i = 1
      <4>1. y = v BY <1>1, <2>3, <3>1
      <4>2. \A j \in 1 .. Len(t) : ~Speaks(t[j], k)
        <5> SUFFICES ASSUME NEW j \in 1 .. Len(t) PROVE ~Speaks(t[j], k) OBVIOUS
        <5>1. j + 1 > i BY <3>1
        <5> QED BY <1>1, <2>1, <2>3, <5>1
      <4> QED BY <4>1, <4>2 DEF EndsOn
    <3>2. CASE i # 1
      <4>1. i - 1 \in 1 .. Len(t) /\ s[i] = t[i - 1] BY <2>2, <3>2
      <4>2. \A j \in 1 .. Len(t) : j > i - 1 => ~Speaks(t[j], k)
        <5> SUFFICES ASSUME NEW j \in 1 .. Len(t), j > i - 1 PROVE ~Speaks(t[j], k) OBVIOUS
        <5>1. j + 1 > i OBVIOUS
        <5> QED BY <1>1, <2>1, <2>3, <5>1
      <4> QED BY <2>3, <4>1, <4>2 DEF EndsOn
    <3> QED BY <3>1, <3>2
  <2>4. ASSUME x = v, \A i \in 1 .. Len(s) : ~Speaks(s[i], k)
        PROVE  EndsOn(t, k, y, v)
    <3>1. 1 \in 1 .. Len(s) BY <1>1
    <3>2. ~Speaks(Head(s), k) BY <1>1, <2>4, <3>1
    <3>3. \A j \in 1 .. Len(t) : ~Speaks(t[j], k) BY <1>1, <2>1, <2>4
    <3> QED BY <2>4, <3>2, <3>3 DEF EndsOn
  <2> QED BY <2>3, <2>4 DEF EndsOn
<1> QED BY <1>2 DEF t

\* Whatever a listener was to end on, it still is.
Carries(old, new) ==
  \A c \in Crowd, k \in Control : \A x, v :
     EndsOn(old[c], k, x, v) => EndsOn(new[c], k, x, v)

LEMMA SentIs ==
  ASSUME NEW links, NEW there, DownLinks(links, there), NEW S \in SUBSET there,
         NEW m \in DownFrame, m.t = "republish" => S \cap Crowd = {}
  PROVE  /\ DownLinks(Sent(links, S, m), there)
         /\ Quiet(m) => Carries(links, Sent(links, S, m))
<1> DEFINE new == Sent(links, S, m)
<1>1. /\ new \in [Device -> Seq(DownFrame)] /\ Crowd \subseteq Device
      /\ \A d \in Device : new[d] = IF d \in S THEN Append(links[d], m) ELSE links[d]
  <2>1. ASSUME NEW d \in Device
        PROVE  (IF d \in S THEN Append(links[d], m) ELSE links[d]) \in Seq(DownFrame)
    <3>1. links[d] \in Seq(DownFrame) BY DEF DownLinks
    <3>2. Append(links[d], m) \in Seq(DownFrame) BY <3>1
    <3> QED BY <3>1, <3>2
  <2> QED BY <2>1, Zenon DEF Sent, Device
<1> HIDE DEF new
<1>2. ASSUME NEW c \in Crowd, NEW i \in 1 .. Len(new[c]) PROVE new[c][i].t # "republish"
  <2>1. links[c] \in Seq(DownFrame) /\ Len(links[c]) \in Nat BY <1>1 DEF DownLinks
  <2>2. CASE c \in S
    <3>1. i \in 1 .. Len(links[c]) \/ i = Len(links[c]) + 1 BY <1>1, <2>1, <2>2
    <3>2. /\ \A n \in 1 .. Len(links[c]) : new[c][n] = links[c][n]
          /\ new[c][Len(links[c]) + 1] = m
      BY <1>1, <2>1, <2>2
    <3> QED BY <2>2, <3>1, <3>2 DEF DownLinks
  <2>3. CASE c \notin S BY <1>1, <2>3 DEF DownLinks
  <2> QED BY <2>2, <2>3
<1>3. DownLinks(new, there) BY <1>1, <1>2 DEF DownLinks
<1>4. ASSUME Quiet(m) PROVE Carries(links, new)
  <2> SUFFICES ASSUME NEW c \in Crowd, NEW k \in Control, NEW x, NEW v,
                      EndsOn(links[c], k, x, v)
               PROVE  EndsOn(new[c], k, x, v)
    BY DEF Carries
  <2>1. links[c] \in Seq(DownFrame) BY <1>1 DEF DownLinks
  <2>2. ~Speaks(m, k) BY <1>4, QuietSays
  <2>3. EndsOn(Append(links[c], m), k, x, v) BY <2>1, <2>2, AppendQuiet
  <2> QED BY <1>1, <2>3
<1> QED BY <1>3, <1>4 DEF new

LEMMA Down ==
  /\ \A a \in Party \cup {None}, S \in SUBSET Party :
        [t |-> "welcome", anchor |-> a, joined |-> S] \in DownFrame
  /\ \A a \in Party \cup {None} : [t |-> "role", anchor |-> a] \in DownFrame
  /\ [t |-> "republish"] \in DownFrame
  /\ \A S \in SUBSET Party : [t |-> "presence", joined |-> S] \in DownFrame
  /\ \A b \in Board : [t |-> "state", board |-> b] \in DownFrame
  /\ \A f \in [Control -> Value] : [t |-> "sweeps", value |-> f] \in DownFrame
BY DEF DownFrame

LEMMA DownIs ==
  ASSUME NEW m \in DownFrame
  PROVE  /\ m.t \in {"welcome", "role"} => m.anchor \in Party \cup {None}
         /\ m.t \in {"welcome", "presence"} => m.joined \in SUBSET Party
         /\ m.t = "state" => m.board \in Board
         /\ m.t = "intent" => m.control \in Control /\ m.value \in Value
         /\ m.t = "sweeps" => m.value \in [Control -> Value]
BY DEF DownFrame

LEMMA CaughtUpIs ==
  ASSUME NEW links, NEW there, DownLinks(links, there), NEW d \in there,
         board \in Board \cup {None}
  PROVE  DownLinks(CaughtUp(links, d), there) /\ Carries(links, CaughtUp(links, d))
<1> DEFINE m == [t |-> "state", board |-> board]
           S == {d}
<1>1. CASE board = None BY <1>1 DEF CaughtUp, Carries
<1>2. CASE board # None
  <2>1. m \in DownFrame /\ Quiet(m) /\ m.t # "republish" BY <1>2, Down DEF Quiet
  <2>2. CaughtUp(links, d) = Sent(links, S, m) BY <1>2 DEF CaughtUp
  <2>3. S \in SUBSET there OBVIOUS
  <2> HIDE DEF m, S
  <2> QED BY <2>1, <2>2, <2>3, SentIs
<1> QED BY <1>1, <1>2

LEMMA AskedIs ==
  ASSUME NEW links, NEW there, DownLinks(links, there), NEW d \in Party
  PROVE  /\ DownLinks(AskedAndTold(links, there, d), there)
         /\ Carries(links, AskedAndTold(links, there, d))
<1> DEFINE ask == [t |-> "republish"]
           tell == [t |-> "role", anchor |-> d]
           S == there \cap {d}
           asked == Sent(links, S, ask)
<1>1. /\ ask \in DownFrame /\ Quiet(ask) /\ tell \in DownFrame /\ Quiet(tell)
      /\ tell.t # "republish" /\ S \in SUBSET there /\ S \cap Crowd = {}
  BY Down DEF Quiet
<1>2. AskedAndTold(links, there, d) = Sent(asked, there, tell) BY DEF AskedAndTold
<1>3. there \in SUBSET there OBVIOUS
<1> HIDE DEF ask, tell, S
<1>4. DownLinks(asked, there) /\ Carries(links, asked) BY <1>1, SentIs
<1> HIDE DEF asked
<1>5. DownLinks(Sent(asked, there, tell), there) /\ Carries(asked, Sent(asked, there, tell))
  BY <1>1, <1>3, <1>4, SentIs
<1> QED BY <1>2, <1>4, <1>5 DEF Carries

\* A socket that dies takes its frames along.
LEMMA CutIs ==
  ASSUME NEW links, NEW there, DownLinks(links, there), NEW d \in Device
  PROVE  /\ DownLinks([links EXCEPT ![d] = <<>>], there \ {d})
         /\ \A c \in Crowd \ {d} : [links EXCEPT ![d] = <<>>][c] = links[c]
<1> DEFINE new == [links EXCEPT ![d] = <<>>]
<1>1. /\ new \in [Device -> Seq(DownFrame)] /\ new[d] = <<>>
      /\ \A e \in Device \ {d} : new[e] = links[e]
      /\ Crowd \subseteq Device
  BY DEF DownLinks, Device
<1> HIDE DEF new
<1>2. \A c \in Crowd : c # d \/ Len(new[c]) = 0 BY <1>1
<1>3. DownLinks(new, there \ {d})
  <2>1. \A e \in Device : new[e] # <<>> => e \in there \ {d} BY <1>1 DEF DownLinks
  <2>2. ASSUME NEW c \in Crowd, NEW i \in 1 .. Len(new[c]) PROVE new[c][i].t # "republish"
    <3>1. c # d BY <1>2
    <3>2. new[c] = links[c] BY <1>1, <3>1
    <3> QED BY <3>2 DEF DownLinks
  <2> QED BY <1>1, <2>1, <2>2 DEF DownLinks
<1>4. \A c \in Crowd \ {d} : new[c] = links[c] BY <1>1
<1> QED BY <1>3, <1>4 DEF new

\* Reading a frame.
LEMMA ReadIs ==
  ASSUME DownLinks(down, live), NEW d \in Device, down[d] # <<>>, Read(d)
  PROVE  /\ DownLinks(down', live) /\ Head(down[d]) \in DownFrame /\ d \in live
         /\ d \in Crowd => Head(down[d]).t # "republish"
         /\ down'[d] = Tail(down[d]) /\ \A e \in Device \ {d} : down'[e] = down[e]
<1>1. /\ down[d] \in Seq(DownFrame) /\ Crowd \subseteq Device
      /\ down \in [Device -> Seq(DownFrame)] /\ d \in live
  BY DEF DownLinks, Device
<1>2. /\ Tail(down[d]) \in Seq(DownFrame) /\ Head(down[d]) = down[d][1]
      /\ Len(down[d]) = Len(Tail(down[d])) + 1 /\ Len(Tail(down[d])) \in Nat
      /\ \A i \in 1 .. Len(Tail(down[d])) : Tail(down[d])[i] = down[d][i + 1]
      /\ Head(down[d]) \in DownFrame
  BY <1>1
<1>3. /\ down' \in [Device -> Seq(DownFrame)] /\ down'[d] = Tail(down[d])
      /\ \A e \in Device \ {d} : down'[e] = down[e]
  BY <1>1, <1>2 DEF Read
<1>4. ASSUME NEW c \in Crowd, NEW i \in 1 .. Len(down'[c]) PROVE down'[c][i].t # "republish"
  <2>1. CASE c # d BY <1>1, <1>3, <1>4, <2>1 DEF DownLinks
  <2>2. CASE c = d
    <3>0. i \in 1 .. Len(Tail(down[d])) /\ down'[c] = Tail(down[d]) BY <1>3, <2>2
    <3>1. i + 1 \in 1 .. Len(down[d]) /\ down'[c][i] = down[d][i + 1] BY <1>2, <3>0
    <3> QED BY <2>2, <3>1 DEF DownLinks
  <2> QED BY <2>1, <2>2
<1>5. 1 \in 1 .. Len(down[d]) BY <1>2
<1>6. DownLinks(down', live) BY <1>1, <1>3, <1>4 DEF DownLinks
<1> QED BY <1>1, <1>2, <1>3, <1>5, <1>6 DEF DownLinks

LEMMA Up ==
  /\ [t |-> "join"] \in UpFrame /\ [t |-> "request"] \in UpFrame
  /\ \A b \in Board : [t |-> "state", board |-> b] \in UpFrame
  /\ \A k \in Control, v \in Value : [t |-> "intent", control |-> k, value |-> v] \in UpFrame
BY DEF UpFrame

LEMMA UpIs ==
  ASSUME NEW m \in UpFrame
  PROVE  /\ m.t = "state" => m.board \in Board
         /\ m.t = "intent" => m.control \in Control /\ m.value \in Value /\ m \in DownFrame
BY DEF UpFrame, DownFrame

\* Sending frames, of which the crowd's are requests.
LEMMA SendIs ==
  ASSUME UpLinks(up, live), NEW d \in Device, NEW ms \in Seq(UpFrame),
         d \in Crowd => \A i \in 1 .. Len(ms) : ms[i].t = "request", Send(d, ms)
  PROVE  UpLinks(up', live)
<1>1. /\ up[d] \in Seq(UpFrame) /\ Crowd \subseteq Device
      /\ up \in [Device -> Seq(UpFrame)]
  BY DEF UpLinks, Device
<1>2. CASE d \notin live BY <1>2 DEF Send
<1>3. CASE d \in live
  <2> DEFINE s == up[d] \o ms
  <2>1. /\ s \in Seq(UpFrame) /\ Len(s) = Len(up[d]) + Len(ms)
        /\ Len(up[d]) \in Nat /\ Len(ms) \in Nat
        /\ \A i \in 1 .. Len(up[d]) : s[i] = up[d][i]
        /\ \A i \in 1 .. Len(ms) : s[Len(up[d]) + i] = ms[i]
    BY <1>1
  <2>2. up' = [up EXCEPT ![d] = s] BY <1>3 DEF Send
  <2> HIDE DEF s
  <2>3. /\ up' \in [Device -> Seq(UpFrame)] /\ up'[d] = s
        /\ \A e \in Device \ {d} : up'[e] = up[e]
    BY <1>1, <2>1, <2>2
  <2>4. \A e \in Device : up'[e] # <<>> => e \in live BY <1>3, <2>3 DEF UpLinks
  <2>5. ASSUME NEW c \in Crowd, NEW i \in 1 .. Len(up'[c]) PROVE up'[c][i].t = "request"
    <3>1. CASE c # d BY <1>1, <2>3, <3>1 DEF UpLinks
    <3>2. CASE c = d
      <4>1. i \in 1 .. Len(s) /\ up'[c] = s BY <2>3, <3>2
      <4>2. CASE i \in 1 .. Len(up[d]) BY <2>1, <3>2, <4>1, <4>2 DEF UpLinks
      <4>3. CASE i \notin 1 .. Len(up[d])
        <5>1. i - Len(up[d]) \in 1 .. Len(ms) /\ i = Len(up[d]) + (i - Len(up[d]))
          BY <2>1, <4>1, <4>3
        <5>2. s[i] = ms[i - Len(up[d])] BY <2>1, <5>1
        <5> QED BY <3>2, <4>1, <5>1, <5>2
      <4> QED BY <4>2, <4>3
    <3> QED BY <3>1, <3>2
  <2> QED BY <2>3, <2>4, <2>5 DEF UpLinks
<1> QED BY <1>2, <1>3

\* The room takes a frame.
LEMMA TakenIs ==
  ASSUME UpLinks(up, live), NEW d \in Device, up[d] # <<>>, Taken(d)
  PROVE  /\ UpLinks(up', live) /\ Head(up[d]) \in UpFrame /\ d \in live
         /\ Head(up[d]).t # "request" => d \in Party
<1>1. /\ up[d] \in Seq(UpFrame) /\ Crowd \subseteq Device
      /\ up \in [Device -> Seq(UpFrame)] /\ d \in live
  BY DEF UpLinks, Device
<1>2. /\ Tail(up[d]) \in Seq(UpFrame) /\ Head(up[d]) = up[d][1]
      /\ Len(up[d]) = Len(Tail(up[d])) + 1 /\ Len(Tail(up[d])) \in Nat
      /\ \A i \in 1 .. Len(Tail(up[d])) : Tail(up[d])[i] = up[d][i + 1]
      /\ Head(up[d]) \in UpFrame
  BY <1>1
<1>3. /\ up' \in [Device -> Seq(UpFrame)] /\ up'[d] = Tail(up[d])
      /\ \A e \in Device \ {d} : up'[e] = up[e]
  BY <1>1, <1>2 DEF Taken
<1>4. ASSUME NEW c \in Crowd, NEW i \in 1 .. Len(up'[c]) PROVE up'[c][i].t = "request"
  <2>1. CASE c # d BY <1>1, <1>3, <1>4, <2>1 DEF UpLinks
  <2>2. CASE c = d
    <3>1. i \in 1 .. Len(Tail(up[d])) /\ up'[c] = Tail(up[d]) BY <1>3, <2>2
    <3>2. i + 1 \in 1 .. Len(up[d]) /\ up'[c][i] = up[d][i + 1] BY <1>2, <3>1
    <3> QED BY <2>2, <3>2 DEF UpLinks
  <2> QED BY <2>1, <2>2
<1>5. 1 \in 1 .. Len(up[d]) BY <1>2
<1>6. UpLinks(up', live) BY <1>1, <1>3, <1>4 DEF UpLinks
<1> QED BY <1>1, <1>2, <1>5, <1>6 DEF UpLinks, Device

-----------------------------------------------------------------------------
(* What a listener was to end on.                                          *)

Unmoved(c) ==
  /\ c \in live /\ adopted[c] /\ heard'[c] = heard[c] /\ val'[c] = val[c]
  /\ \A k \in Control : \A x, v :
        EndsOn(down[c], k, x, v) => EndsOn(down'[c], k, x, v)

LEMMA HearsStill ==
  ASSUME CrowdHearsTheLast, digest' = digest,
         \A c \in Crowd : \A k \in Control :
            c \in live' /\ adopted'[c] /\ heard'[c][k] # 0 => Unmoved(c)
  PROVE  CrowdHearsTheLast'
<1> SUFFICES ASSUME NEW c \in Crowd, NEW k \in Control,
                    c \in live', adopted'[c], heard'[c][k] # 0
             PROVE  Drains(c, k, heard[c][k])'
  BY DEF CrowdHearsTheLast
<1>1. Unmoved(c) OBVIOUS
<1>2. Drains(c, k, heard[c][k]) BY <1>1 DEF CrowdHearsTheLast, Unmoved
<1> QED BY <1>1, <1>2 DEF Drains, Unmoved

\* A step that leaves the crowd's decks and what it heard alone.
LEMMA HearsOn ==
  ASSUME CrowdHearsTheLast, Carries(down, down'),
         UNCHANGED <<digest, live, adopted, heard, val>>
  PROVE  CrowdHearsTheLast'
<1>1. \A c \in Crowd : \A k \in Control :
         c \in live' /\ adopted'[c] /\ heard'[c][k] # 0 => Unmoved(c)
  BY DEF Unmoved, Carries
<1> QED BY <1>1, HearsStill

-----------------------------------------------------------------------------
(* Sockets.                                                                *)

LEMMA LeftIs ==
  ASSUME ScenesType, cast' = cast, moves' = moves, NEW e \in {"drop", "restart", "hand"}, Happens(e)
  PROVE  ScenesType'
<1>1. /\ left' = [left EXCEPT ![e] = @ - 1] /\ left[e] > 0 /\ left \in [Kinds -> Value]
      /\ e \in Kinds /\ "move" \in Kinds /\ e # "move"
  BY DEF Happens, ScenesType, Kinds
<1>2. left[e] - 1 \in Value BY <1>1 DEF Value
<1>3. left' \in [Kinds -> Value] /\ left'["move"] = left["move"] BY <1>1, <1>2
<1> QED BY <1>3 DEF ScenesType

LEMMA ConnectKeeps ==
  ASSUME BoardInv, cast' = cast, NEW d \in Device, Connect(d)
  PROVE  BoardInv'
<1> USE DEF BoardInv, TypeInv
<1> DEFINE hello == [t |-> "welcome", anchor |-> anchor,
                     joined |-> IF d \in Crowd THEN {} ELSE joined \cap Party]
           S == {d}
           greeted == Sent(down, S, hello)
<1>1. hello \in DownFrame /\ Quiet(hello) /\ hello.t # "republish"
  BY Down DEF RoomType, Quiet
<1>2. down' = greeted \/ down' = CaughtUp(greeted, d) BY DEF Connect
<1>3. DownLinks(down, live') /\ S \in SUBSET live' BY DEF DownLinks, Connect
<1> HIDE DEF hello, S
<1>4. DownLinks(greeted, live') /\ Carries(down, greeted) BY <1>1, <1>3, SentIs
<1> HIDE DEF greeted
<1>5. d \in live' BY DEF Connect
<1>6. DownLinks(down', live') /\ Carries(down, down')
  <2>1. board \in Board \cup {None} BY DEF RoomType
  <2>2. DownLinks(CaughtUp(greeted, d), live') /\ Carries(greeted, CaughtUp(greeted, d))
    BY <1>4, <1>5, <2>1, CaughtUpIs
  <2> QED BY <1>2, <1>4, <2>2 DEF Carries
<1>7. ScenesType' BY DEF ScenesType, Connect
<1>8. RoomType' BY DEF RoomType, Connect
<1>9. UpLinks(up, live)' BY DEF UpLinks, Connect
<1>10. ClientType' /\ DeckType' BY DEF ClientType, DeckType, Connect, client, deck
<1>11. HeardType' BY DEF HeardType, Connect
<1>12. CrowdHearsTheLast'
  <2>1. UNCHANGED <<digest, heard, val, adopted>> BY DEF Connect, deck
  <2>2. ASSUME NEW c \in Crowd, NEW k \in Control, heard'[c][k] # 0, adopted'[c]
        PROVE  Unmoved(c)
    BY <1>6, <2>1, <2>2 DEF HeardType, Unmoved, Carries
  <2> QED BY <2>1, <2>2, HearsStill
<1> QED BY <1>6, <1>7, <1>8, <1>9, <1>10, <1>11, <1>12

LEMMA DropKeeps ==
  ASSUME BoardInv, cast' = cast, NEW d \in Device, Drop(d)
  PROVE  BoardInv'
<1> USE DEF BoardInv, TypeInv
<1> DEFINE there == live \ {d}
           next == (joined \cap Party) \ {d}
           links == [down EXCEPT ![d] = <<>>]
<1>1. DownLinks(links, there) /\ \A c \in Crowd \ {d} : links[c] = down[c]
  BY CutIs
<1>2. \/ down' = links /\ UNCHANGED <<anchor, spoken>>
      \/ \E n \in next : GiveClock(links, there, n)
  BY DEF Drop
<1> HIDE DEF links
<1>3. /\ DownLinks(down', there) /\ Carries(links, down')
      /\ anchor' \in Party \cup {None} /\ spoken' \in BOOLEAN
  <2>1. CASE down' = links /\ UNCHANGED <<anchor, spoken>>
    BY <1>1, <2>1 DEF Carries, RoomType
  <2>2. ASSUME NEW n \in next, GiveClock(links, there, n)
        PROVE  /\ DownLinks(down', there) /\ Carries(links, down')
               /\ anchor' \in Party \cup {None} /\ spoken' \in BOOLEAN
    <3>1. n \in Party OBVIOUS
    <3> QED BY <1>1, <2>2, <3>1, AskedIs DEF GiveClock
  <2> QED BY <1>2, <2>1, <2>2
<1>4. live' = there /\ joined' = joined \ {d} BY DEF Drop
<1>5. ScenesType' BY LeftIs DEF Drop
<1>6. RoomType' BY <1>3, <1>4 DEF RoomType, Drop
<1>7. UpLinks(up, live)'
  <2>1. /\ up' \in [Device -> Seq(UpFrame)] /\ up'[d] = <<>> /\ Crowd \subseteq Device
        /\ \A e \in Device \ {d} : up'[e] = up[e]
    BY DEF UpLinks, Drop, Device
  <2>2. \A e \in Device : up'[e] # <<>> => e \in live' BY <1>4, <2>1 DEF UpLinks
  <2>3. ASSUME NEW c \in Crowd, NEW i \in 1 .. Len(up'[c]) PROVE up'[c][i].t = "request"
    <3>1. CASE c = d
      <4>1. Len(up'[c]) = 0 BY <2>1, <3>1
      <4> QED BY <2>3, <4>1
    <3>2. CASE c # d
      <4>1. up'[c] = up[c] BY <2>1, <3>2
      <4> QED BY <4>1 DEF UpLinks
    <3> QED BY <3>1, <3>2
  <2> QED BY <2>1, <2>2, <2>3 DEF UpLinks
<1>8. ClientType' /\ DeckType' BY DEF ClientType, DeckType, Drop, client, deck
<1>9. /\ heard' \in [Crowd -> [Control -> Value]] /\ digest' = digest
      /\ \A c \in Crowd : \A k \in Control : heard'[c][k] # 0 => c # d /\ heard'[c] = heard[c]
  BY DEF Drop, Forgotten, HeardType, Value
<1>10. HeardType' BY <1>4, <1>9 DEF HeardType
<1>11. CrowdHearsTheLast'
  <2>1. UNCHANGED <<val, adopted>> BY DEF Drop, deck
  <2>2. ASSUME NEW c \in Crowd, NEW k \in Control, heard'[c][k] # 0, adopted'[c], c \in live'
        PROVE  Unmoved(c)
    BY <1>1, <1>3, <1>4, <1>9, <2>1, <2>2 DEF Unmoved, Carries
  <2> QED BY <1>9, <2>2, HearsStill
<1> QED BY <1>3, <1>4, <1>5, <1>6, <1>7, <1>8, <1>10, <1>11

LEMMA RestartKeeps ==
  ASSUME BoardInv, cast' = cast, Restart
  PROVE  BoardInv'
<1> USE DEF BoardInv, TypeInv
<1>1. ScenesType' BY LeftIs DEF Restart
<1>2. RoomType'
  <2>1. 0 \in Value BY DEF Value
  <2>2. digest' \in [Control -> Value] BY <2>1 DEF Restart
  <2> QED BY <2>2 DEF RoomType, Restart
<1>3. UpLinks(up, live)' /\ DownLinks(down, live)'
  <2>1. up' = [d \in Device |-> <<>>] /\ down' = [d \in Device |-> <<>>] BY DEF Restart
  <2>2. Crowd \subseteq Device BY DEF Device
  <2>3. \A c \in Crowd : Len(up'[c]) = 0 /\ Len(down'[c]) = 0 BY <2>1, <2>2
  <2> QED BY <2>1, <2>3 DEF UpLinks, DownLinks
<1>4. ClientType' /\ DeckType' BY DEF ClientType, DeckType, Restart, client, deck
<1>5. \A c \in Crowd, k \in Control : heard'[c][k] = 0 BY DEF Restart, Forgotten
<1>6. HeardType' BY <1>5 DEF HeardType, Restart, Forgotten, Value
<1>7. CrowdHearsTheLast' BY <1>5 DEF CrowdHearsTheLast
<1> QED BY <1>1, <1>2, <1>3, <1>4, <1>6, <1>7

LEMMA HandKeeps ==
  ASSUME BoardInv, cast' = cast, NEW d \in Party, Hand(d)
  PROVE  BoardInv'
<1> USE DEF BoardInv, TypeInv
<1>1. DownLinks(down', live) /\ Carries(down, down') /\ anchor' = d /\ spoken' = FALSE
  BY AskedIs DEF Hand, GiveClock
<1>2. ScenesType' BY LeftIs DEF Hand
<1>3. RoomType' BY <1>1 DEF RoomType, Hand
<1>4. UpLinks(up, live)' /\ DownLinks(down, live)' BY <1>1 DEF UpLinks, Hand
<1>5. ClientType' /\ DeckType' BY DEF ClientType, DeckType, Hand, client, deck
<1>6. HeardType' BY DEF HeardType, Hand
<1>7. CrowdHearsTheLast' BY <1>1, HearsOn DEF Hand, deck
<1> QED BY <1>2, <1>3, <1>4, <1>5, <1>6, <1>7

-----------------------------------------------------------------------------
(* What the room does with a frame.                                        *)

\* The frames go from the room to the clients; nothing else of the board plane
\* but the seats, the clock and the boards changes.
LEMMA RoomKeeps ==
  ASSUME BoardInv, UNCHANGED <<cast, live, digest, client, deck, heard, moves, left>>,
         RoomType', UpLinks(up, live)', DownLinks(down, live)', Carries(down, down')
  PROVE  BoardInv'
<1> USE DEF BoardInv, TypeInv
<1>1. ScenesType' BY DEF ScenesType
<1>2. ClientType' /\ DeckType' BY DEF ClientType, DeckType, client, deck
<1>3. HeardType' BY DEF HeardType
<1>4. CrowdHearsTheLast' BY HearsOn DEF deck
<1> QED BY <1>1, <1>2, <1>3, <1>4

LEMMA ReceiveKeeps ==
  ASSUME BoardInv, cast' = cast, NEW d \in Device, OnJoin(d) \/ OnRequest(d) \/ OnState(d)
  PROVE  BoardInv'
<1> USE DEF BoardInv, TypeInv
<1>1. up[d] # <<>> /\ Taken(d) /\ live' = live
  BY DEF OnJoin, OnRequest, OnState, Incoming, room
<1>2. /\ UpLinks(up', live) /\ Head(up[d]) \in UpFrame /\ d \in live
      /\ Head(up[d]).t # "request" => d \in Party
  BY <1>1, TakenIs
<1>3. board \in Board \cup {None} BY DEF RoomType
<1>4. DownLinks(CaughtUp(down, d), live) /\ Carries(down, CaughtUp(down, d))
  BY <1>2, <1>3, CaughtUpIs
<1>5. CASE OnJoin(d)
  <2>1. d \in Party BY <1>2, <1>5 DEF OnJoin, Incoming
  <2>2. /\ DownLinks(AskedAndTold(CaughtUp(down, d), live, d), live)
        /\ Carries(CaughtUp(down, d), AskedAndTold(CaughtUp(down, d), live, d))
    BY <1>4, <2>1, AskedIs
  <2>3. /\ DownLinks(down', live) /\ Carries(down, down')
        /\ anchor' \in {anchor, d} /\ spoken' \in {spoken, FALSE}
    BY <1>4, <1>5, <2>2 DEF OnJoin, GiveClock, Carries
  <2>4. RoomType' BY <1>2, <1>5, <2>1, <2>3 DEF RoomType, OnJoin
  <2> QED BY <1>1, <1>2, <1>5, <2>3, <2>4, RoomKeeps DEF OnJoin
<1>6. CASE OnRequest(d)
  BY <1>1, <1>2, <1>4, <1>6, RoomKeeps DEF OnRequest, room, RoomType
<1>7. CASE OnState(d)
  <2> DEFINE new == Head(up[d]).board
             m == [t |-> "state", board |-> new]
  <2>1. new \in Board BY <1>2, <1>7, UpIs DEF OnState, Incoming
  <2>2. m \in DownFrame /\ Quiet(m) /\ m.t # "republish" BY <2>1, Down DEF Quiet
  <2> HIDE DEF m
  <2>3. DownLinks(Sent(down, live \ {d}, m), live) /\ Carries(down, Sent(down, live \ {d}, m))
    <3>1. live \ {d} \in SUBSET live OBVIOUS
    <3> QED BY <2>2, <3>1, SentIs
  <2>4. /\ board' \in {board, new} /\ disk' \in {disk, new}
        /\ down' \in {down, Sent(down, live \ {d}, m)} /\ spoken' \in BOOLEAN
    BY <1>7 DEF OnState, m, RoomType
  <2>5. DownLinks(down', live) /\ Carries(down, down') BY <2>3, <2>4 DEF Carries
  <2>6. RoomType' BY <1>7, <2>1, <2>4 DEF RoomType, OnState
  <2> QED BY <1>1, <1>2, <1>7, <2>5, <2>6, RoomKeeps DEF OnState
<1> QED BY <1>5, <1>6, <1>7

LEMMA FlushPresenceKeeps ==
  ASSUME BoardInv, cast' = cast, FlushPresence
  PROVE  BoardInv'
<1> USE DEF BoardInv, TypeInv
<1> DEFINE m == [t |-> "presence", joined |-> joined \cap Party]
           S == live \cap Party
<1>1. /\ m \in DownFrame /\ Quiet(m) /\ m.t # "republish" /\ S \in SUBSET live
      /\ down' = Sent(down, S, m)
  BY Down DEF Quiet, FlushPresence
<1> HIDE DEF m, S
<1>2. DownLinks(down', live) /\ Carries(down, down') BY <1>1, SentIs
<1>3. RoomType' BY DEF RoomType, FlushPresence
<1>4. UpLinks(up, live)' /\ DownLinks(down, live)' BY <1>2 DEF UpLinks, FlushPresence
<1> QED BY <1>2, <1>3, <1>4, RoomKeeps DEF FlushPresence

\* What was coalesced goes out: a listener was to end on it anyway.
LEMMA FlushDigestKeeps ==
  ASSUME BoardInv, cast' = cast, FlushDigest
  PROVE  BoardInv'
<1> USE DEF BoardInv, TypeInv
<1> DEFINE m == [t |-> "sweeps", value |-> digest]
           S == live \cap Crowd
<1>1. /\ m \in DownFrame /\ m.t # "republish" /\ S \in SUBSET live
      /\ down' = Sent(down, S, m)
      /\ \A k : Speaks(m, k) <=> digest[k] # 0
      /\ \A k : Says(m, k) = digest[k]
  BY Down DEF FlushDigest, RoomType, Speaks, Says
<1> HIDE DEF m
<1>2. DownLinks(down', live) BY <1>1, SentIs
<1>3. digest' \in [Control -> Value] /\ \A k \in Control : digest'[k] = 0
  BY DEF FlushDigest, Value
<1>4. RoomType' BY <1>3 DEF RoomType, FlushDigest
<1>5. UpLinks(up, live)' /\ DownLinks(down, live)' BY <1>2 DEF UpLinks, FlushDigest
<1>6. ScenesType' BY DEF ScenesType, FlushDigest
<1>7. ClientType' /\ DeckType' BY DEF ClientType, DeckType, FlushDigest, client, deck
<1>8. HeardType' BY <1>3 DEF HeardType, FlushDigest
<1>9. CrowdHearsTheLast'
  <2> SUFFICES ASSUME NEW c \in Crowd, NEW k \in Control,
                      c \in live, adopted[c], heard[c][k] # 0
               PROVE  Drains(c, k, heard[c][k])'
    BY DEF CrowdHearsTheLast, FlushDigest, deck
  <2>1. Drains(c, k, heard[c][k]) BY DEF CrowdHearsTheLast
  <2>2. down[c] \in Seq(DownFrame) /\ down'[c] = Append(down[c], m)
    BY <1>1 DEF DownLinks, Sent, Device
  <2>3. EndsOn(Append(down[c], m), k, val[c][k], heard[c][k])
    <3>1. CASE digest[k] = 0
      <4>1. EndsOn(down[c], k, val[c][k], heard[c][k]) BY <2>1, <3>1 DEF Drains
      <4> QED BY <1>1, <2>2, <3>1, <4>1, AppendQuiet
    <3>2. CASE digest[k] # 0
      <4>1. digest[k] = heard[c][k] BY <2>1, <3>2 DEF Drains
      <4>2. EndsOn(Append(down[c], m), k, val[c][k], Says(m, k))
        BY <1>1, <2>2, <3>2, AppendSays
      <4> QED BY <1>1, <4>1, <4>2
    <3> QED BY <3>1, <3>2
  <2> QED BY <1>3, <2>2, <2>3 DEF Drains, FlushDigest, deck
<1> QED BY <1>4, <1>5, <1>6, <1>7, <1>8, <1>9

LEMMA IntentKeeps ==
  ASSUME BoardInv, cast' = cast, NEW d \in Device, OnIntent(d)
  PROVE  BoardInv'
<1> USE DEF BoardInv, TypeInv
<1> DEFINE m == Head(up[d])
           k == m.control
           S == (live \ {d}) \cap (IF k \in Sweep THEN Party ELSE Device)
<1>0. up[d] # <<>> /\ Taken(d) /\ m.t = "intent" BY DEF OnIntent, Incoming
<1>1. /\ UpLinks(up', live) /\ d \in live /\ d \in Party
      /\ k \in Control /\ m.value \in Value /\ m \in DownFrame
  BY <1>0, TakenIs, UpIs
<1>2. S \in SUBSET live OBVIOUS
<1>3. \/ /\ down' = Sent(down, S, m)
         /\ digest' = IF k \in Sweep THEN Queued(k, m.value) ELSE digest
         /\ heard' = [c \in Crowd |->
               IF c \in live THEN [heard[c] EXCEPT ![k] = m.value] ELSE heard[c]]
      \/ UNCHANGED <<down, digest, heard>>
  BY DEF OnIntent
<1> HIDE DEF m
<1>s. DownLinks(Sent(down, S, m), live) BY <1>0, <1>1, <1>2, SentIs
<1>4. DownLinks(down', live) BY <1>3, <1>s
<1>5. /\ digest' \in [Control -> Value]
      /\ \A j \in Control : digest'[j] # 0 => j \in Sweep
      /\ \A j \in Control : j # k => digest'[j] = digest[j]
      /\ down' = down \/ k \notin Sweep \/ digest'[k] = m.value
  BY <1>1, <1>3 DEF RoomType, HeardType, Queued, DigestKey
<1>6. RoomType' BY <1>5 DEF RoomType, OnIntent
<1>7. UpLinks(up, live)' /\ DownLinks(down, live)' BY <1>1, <1>4 DEF OnIntent
<1>8. ScenesType' BY DEF ScenesType, OnIntent
<1>9. ClientType' /\ DeckType' BY DEF ClientType, DeckType, OnIntent, client, deck
<1>10. HeardType' BY <1>1, <1>3, <1>5 DEF HeardType, OnIntent
<1>11. CASE UNCHANGED <<down, digest, heard>>
  <2>1. Carries(down, down') BY <1>11 DEF Carries
  <2>2. CrowdHearsTheLast' BY <1>11, <2>1, HearsOn DEF OnIntent, deck
  <2> QED BY <1>6, <1>7, <1>8, <1>9, <1>10, <2>2
<1>12. ASSUME down' = Sent(down, S, m),
              digest' = IF k \in Sweep THEN Queued(k, m.value) ELSE digest,
              heard' = [c \in Crowd |->
                IF c \in live THEN [heard[c] EXCEPT ![k] = m.value] ELSE heard[c]]
       PROVE  CrowdHearsTheLast'
  <2>0. /\ UNCHANGED <<val, live, adopted>>
        /\ \A j : Speaks(m, j) <=> k = j
        /\ Says(m, k) = m.value
    BY <1>0 DEF OnIntent, deck, Speaks, Says
  <2> SUFFICES ASSUME NEW c \in Crowd, NEW j \in Control,
                      c \in live, adopted[c], heard'[c][j] # 0
               PROVE  Drains(c, j, heard[c][j])'
    BY <2>0 DEF CrowdHearsTheLast
  <2>1. /\ down[c] \in Seq(DownFrame) /\ c \in Device /\ c # d /\ c \notin Party
        /\ heard'[c] = [heard[c] EXCEPT ![k] = m.value]
        /\ heard[c] \in [Control -> Value]
    BY <1>1, <1>12 DEF DownLinks, Device, HeardType
  <2>2. down'[c] = IF k \in Sweep THEN down[c] ELSE Append(down[c], m)
    BY <1>12, <2>1 DEF Sent
  <2>3. CASE j = k /\ k \in Sweep
    <3>1. heard'[c][j] = m.value /\ digest'[j] = m.value
      BY <1>1, <1>12, <2>1, <2>3 DEF Queued
    <3> QED BY <3>1 DEF Drains
  <2>4. CASE j = k /\ k \notin Sweep
    <3>1. heard'[c][j] = m.value /\ digest'[j] = 0
      BY <1>1, <1>12, <2>1, <2>4 DEF HeardType
    <3>2. EndsOn(Append(down[c], m), k, val[c][k], m.value)
      BY <1>1, <2>0, <2>1, AppendSays
    <3> QED BY <2>0, <2>2, <2>4, <3>1, <3>2 DEF Drains
  <2>5. CASE j # k
    <3>1. heard'[c][j] = heard[c][j] /\ digest'[j] = digest[j] BY <1>5, <2>1, <2>5
    <3>2. Drains(c, j, heard[c][j]) BY <3>1 DEF CrowdHearsTheLast
    <3>3. EndsOn(down[c], j, val[c][j], heard[c][j]) => EndsOn(down'[c], j, val[c][j], heard[c][j])
      <4>1. CASE k \in Sweep BY <2>2, <4>1
      <4>2. CASE k \notin Sweep
        <5>1. ~Speaks(m, j) /\ m \in DownFrame BY <1>1, <2>0, <2>5
        <5>2. ASSUME EndsOn(down[c], j, val[c][j], heard[c][j])
              PROVE  EndsOn(Append(down[c], m), j, val[c][j], heard[c][j])
          BY <2>1, <5>1, <5>2, AppendQuiet
        <5> QED BY <2>2, <4>2, <5>2
      <4> QED BY <4>1, <4>2
    <3> QED BY <2>0, <3>1, <3>2, <3>3 DEF Drains
  <2> QED BY <2>3, <2>4, <2>5
<1> QED BY <1>3, <1>6, <1>7, <1>8, <1>9, <1>10, <1>11, <1>12

-----------------------------------------------------------------------------
(* The clients.                                                            *)

LEMMA SnapshotIs ==
  ASSUME DeckType, NEW d \in Party
  PROVE  Snapshot(d) \in Board
<1>1. d \in Device /\ val[d] \in [Control -> Value] /\ ready[d] \in BOOLEAN
  BY DEF Device, DeckType
<1> QED BY <1>1 DEF Snapshot, Board

\* Frames and what a client was told change, decks do not.
LEMMA ClientKeeps ==
  ASSUME BoardInv, UNCHANGED <<cast, room, deck, heard, moves, left, spoken>>,
         UpLinks(up, live)', DownLinks(down, live)', Carries(down, down'),
         ClientType'
  PROVE  BoardInv'
<1> USE DEF BoardInv, TypeInv
<1>1. ScenesType' BY DEF ScenesType
<1>2. RoomType' BY DEF RoomType, room
<1>3. DeckType' BY DEF DeckType, deck
<1>4. HeardType' BY DEF HeardType, room
<1>5. CrowdHearsTheLast' BY HearsOn DEF deck, room
<1> QED BY <1>1, <1>2, <1>3, <1>4, <1>5

\* Reading a frame that says nothing of a control.
LEMMA ReadCarries ==
  ASSUME DownLinks(down, live), NEW d \in Device, down[d] # <<>>, Read(d),
         \A k \in Control : ~Speaks(Head(down[d]), k)
  PROVE  Carries(down, down')
<1>1. down'[d] = Tail(down[d]) /\ \A e \in Device \ {d} : down'[e] = down[e]
  BY ReadIs
<1> SUFFICES ASSUME NEW c \in Crowd, NEW k \in Control, NEW x, NEW v, EndsOn(down[c], k, x, v)
             PROVE  EndsOn(down'[c], k, x, v)
  BY DEF Carries
<1>2. c \in Device /\ down[c] \in Seq(DownFrame) BY DEF Device, DownLinks
<1>3. CASE c = d BY <1>1, <1>2, <1>3, TailEnds
<1>4. CASE c # d BY <1>1, <1>2, <1>4
<1> QED BY <1>3, <1>4

LEMMA ToldKeeps ==
  ASSUME BoardInv, cast' = cast, NEW d \in Device,
         OnWelcome(d) \/ OnRole(d) \/ OnPresence(d) \/ OnRepublish(d)
  PROVE  BoardInv'
<1> USE DEF BoardInv, TypeInv
<1> DEFINE m == Head(down[d])
<1>1. /\ down[d] # <<>> /\ Read(d) /\ m.t \in {"welcome", "role", "presence", "republish"}
      /\ UNCHANGED <<room, deck, heard, moves, left, spoken, shown>>
  BY DEF OnWelcome, OnRole, OnPresence, OnRepublish, Arriving, client
<1>2. /\ DownLinks(down', live) /\ m \in DownFrame /\ d \in live
      /\ d \in Crowd => m.t # "republish"
  BY <1>1, ReadIs
<1>3. Carries(down, down')
  <2>1. \A k \in Control : ~Speaks(m, k) BY <1>1 DEF Speaks
  <2> QED BY <1>1, <2>1, ReadCarries
<1>4. ClientType'
  <2>1. /\ m.t \in {"welcome", "role"} => m.anchor \in Party \cup {None}
        /\ m.t \in {"welcome", "presence"} => m.joined \in SUBSET Party
    BY <1>2, DownIs
  <2>2. /\ told' \in {told, [told EXCEPT ![d] = m.anchor]}
        /\ told' # told => m.t \in {"welcome", "role"}
        /\ peers' \in {peers, [peers EXCEPT ![d] = m.joined]}
        /\ peers' # peers => m.t \in {"welcome", "presence"}
    BY DEF OnWelcome, OnRole, OnPresence, OnRepublish, Arriving, client
  <2> HIDE DEF m
  <2>3. told' \in [Device -> Party \cup {None}] BY <2>1, <2>2 DEF ClientType
  <2>4. peers' \in [Device -> SUBSET Party] BY <2>1, <2>2 DEF ClientType
  <2> QED BY <1>1, <2>3, <2>4 DEF ClientType
<1>5. UpLinks(up', live)
  <2>1. CASE OnWelcome(d)
    <3> DEFINE ask == IF m.anchor \notin {None, d} THEN <<[t |-> "request"]>> ELSE <<>>
               ms == (IF d \in Party THEN <<[t |-> "join"]>> ELSE <<>>) \o ask
    <3>1. Send(d, ms) BY <2>1 DEF OnWelcome
    <3>2. ask \in Seq(UpFrame) /\ \A i \in 1 .. Len(ask) : ask[i].t = "request" BY Up
    <3> HIDE DEF ask
    <3>3. ms \in Seq(UpFrame) BY <3>2, Up
    <3>4. d \in Crowd => \A i \in 1 .. Len(ms) : ms[i].t = "request" BY <3>2
    <3> HIDE DEF ms
    <3> QED BY <3>1, <3>3, <3>4, SendIs
  <2>2. CASE OnRepublish(d)
    <3> DEFINE m2 == [t |-> "state", board |-> Snapshot(d)]
               ms == <<m2>>
    <3>1. Send(d, ms) /\ d \notin Crowd BY <1>2, <2>2 DEF OnRepublish, Arriving
    <3>2. m2 \in UpFrame BY <3>1, SnapshotIs, Up DEF Device
    <3> HIDE DEF m2
    <3>3. ms \in Seq(UpFrame) BY <3>2
    <3> HIDE DEF ms
    <3> QED BY <3>1, <3>3, SendIs
  <2>3. CASE OnRole(d) \/ OnPresence(d)
    <3>1. up' = up BY <2>3 DEF OnRole, OnPresence
    <3> QED BY <3>1
  <2> QED BY <2>1, <2>2, <2>3
<1>6. UpLinks(up, live)' /\ DownLinks(down, live)' BY <1>1, <1>2, <1>5 DEF room
<1> QED BY <1>1, <1>3, <1>4, <1>6, ClientKeeps

\* Reading a frame that speaks, and doing what it says.
LEMMA AppliedHears ==
  ASSUME CrowdHearsTheLast, DownLinks(down, live), NEW d \in Device, down[d] # <<>>, Read(d),
         UNCHANGED <<digest, live, adopted, heard>>,
         \A c \in Crowd : c # d => val'[c] = val[c],
         d \in Crowd => \A k \in Control :
           val'[d][k] = IF Speaks(Head(down[d]), k) THEN Says(Head(down[d]), k) ELSE val[d][k]
  PROVE  CrowdHearsTheLast'
<1>1. down'[d] = Tail(down[d]) /\ \A e \in Device \ {d} : down'[e] = down[e]
  BY ReadIs
<1> SUFFICES ASSUME NEW c \in Crowd, NEW k \in Control, c \in live, adopted[c], heard[c][k] # 0
             PROVE  Drains(c, k, heard[c][k])'
  BY DEF CrowdHearsTheLast
<1>2. c \in Device /\ down[c] \in Seq(DownFrame) BY DEF Device, DownLinks
<1>3. Drains(c, k, heard[c][k]) BY DEF CrowdHearsTheLast
<1>4. EndsOn(down[c], k, val[c][k], heard[c][k])
        => EndsOn(down'[c], k, val'[c][k], heard[c][k])
  <2>1. CASE c = d
    <3>1. CASE Speaks(Head(down[d]), k)
      <4>1. val'[c][k] = Says(Head(down[c]), k) /\ Speaks(Head(down[c]), k) /\ down'[c] = Tail(down[c])
        BY <1>1, <2>1, <3>1
      <4> QED BY <1>2, <2>1, <4>1, TailEnds
    <3>2. CASE ~Speaks(Head(down[d]), k)
      <4>1. val'[c][k] = val[c][k] /\ ~Speaks(Head(down[c]), k) /\ down'[c] = Tail(down[c])
        BY <1>1, <2>1, <3>2
      <4> QED BY <1>2, <2>1, <4>1, TailEnds
    <3> QED BY <3>1, <3>2
  <2>2. CASE c # d BY <1>1, <1>2, <2>2
  <2> QED BY <2>1, <2>2
<1> QED BY <1>3, <1>4 DEF Drains

LEMMA MovedKeeps ==
  ASSUME BoardInv, cast' = cast, NEW d \in Device, OnMove(d) \/ OnSweeps(d)
  PROVE  BoardInv'
<1> USE DEF BoardInv, TypeInv
<1> DEFINE m == Head(down[d])
<1>1. /\ down[d] # <<>> /\ Read(d) /\ m.t \in {"intent", "sweeps"}
      /\ UNCHANGED <<room, up, client, ready, load, last, adopted, spoken, heard, moves, left>>
      /\ m.t = "intent" =>
           val' = IF shown[d].enabled THEN [val EXCEPT ![d][m.control] = m.value] ELSE val
      /\ m.t = "sweeps" =>
           val' = [val EXCEPT ![d] = [k \in Control |-> IF m.value[k] # 0 THEN m.value[k] ELSE val[d][k]]]
  BY DEF OnMove, OnSweeps, Arriving
<1>2. DownLinks(down', live) /\ m \in DownFrame /\ d \in live BY <1>1, ReadIs
<1>3. /\ m.t = "intent" => m.control \in Control /\ m.value \in Value
      /\ m.t = "sweeps" => m.value \in [Control -> Value]
  BY <1>2, DownIs
<1>4. val[d] \in [Control -> Value] /\ val \in [Device -> [Control -> Value]] BY DEF DeckType
<1> HIDE DEF m
<1>5. /\ val' \in [Device -> [Control -> Value]]
      /\ \A e \in Device : e # d => val'[e] = val[e]
      /\ d \in Crowd => \A k \in Control :
           val'[d][k] = IF Speaks(m, k) THEN Says(m, k) ELSE val[d][k]
  <2>1. CASE m.t = "intent"
    <3>1. CASE shown[d].enabled
      <4> DEFINE f == [val[d] EXCEPT ![m.control] = m.value]
      <4>1. /\ f \in [Control -> Value]
            /\ \A k \in Control : f[k] = IF k = m.control THEN m.value ELSE val[d][k]
        BY <1>3, <1>4, <2>1
      <4>2. val' = [val EXCEPT ![d] = f] BY <1>1, <1>4, <2>1, <3>1
      <4> HIDE DEF f
      <4>3. val' \in [Device -> [Control -> Value]] /\ val'[d] = f
            /\ \A e \in Device : e # d => val'[e] = val[e]
        BY <1>4, <4>1, <4>2
      <4> QED BY <2>1, <4>1, <4>3 DEF Speaks, Says
    <3>2. CASE ~shown[d].enabled
      <4>1. d \notin Crowd BY <3>2 DEF ClientType
      <4> QED BY <1>1, <1>4, <2>1, <3>2, <4>1
    <3> QED BY <3>1, <3>2
  <2>2. CASE m.t = "sweeps"
    <3> DEFINE f == [k \in Control |-> IF m.value[k] # 0 THEN m.value[k] ELSE val[d][k]]
    <3>1. f \in [Control -> Value] BY <1>3, <1>4, <2>2
    <3>2. val' = [val EXCEPT ![d] = f] BY <1>1, <2>2
    <3>3. \A k \in Control : f[k] = IF m.value[k] # 0 THEN m.value[k] ELSE val[d][k] OBVIOUS
    <3> HIDE DEF f
    <3>4. val' \in [Device -> [Control -> Value]] /\ val'[d] = f
          /\ \A e \in Device : e # d => val'[e] = val[e]
      BY <1>4, <3>1, <3>2
    <3> QED BY <2>2, <3>3, <3>4 DEF Speaks, Says
  <2> QED BY <1>1, <2>1, <2>2
<1>6. CrowdHearsTheLast'
  <2>1. \A c \in Crowd : c # d => val'[c] = val[c] BY <1>5 DEF Device
  <2>2. UNCHANGED <<digest, live, adopted, heard>> BY <1>1 DEF room
  <2> QED BY <1>1, <1>5, <2>1, <2>2, AppliedHears DEF m
<1>7. ScenesType' BY <1>1 DEF ScenesType
<1>8. RoomType' BY <1>1 DEF RoomType, room
<1>9. UpLinks(up, live)' /\ DownLinks(down, live)' BY <1>1, <1>2 DEF room
<1>10. ClientType' BY <1>1 DEF ClientType, client
<1>11. DeckType' BY <1>1, <1>5 DEF DeckType
<1>12. HeardType' BY <1>1 DEF HeardType, room
<1> QED BY <1>6, <1>7, <1>8, <1>9, <1>10, <1>11, <1>12

\* The decks change: what a listener heard counts for as long as its deck is
\* not aligned anew.
LEMMA DecksKeep ==
  ASSUME BoardInv, NEW d \in Device, UNCHANGED <<cast, room, spoken>>,
         ScenesType', UpLinks(up, live)', DownLinks(down, live)', Carries(down, down'),
         ClientType', DeckType',
         heard' = heard \/ (d \in Crowd /\ heard' = Forgotten({d})),
         \A c \in Crowd : c # d => val'[c] = val[c] /\ adopted'[c] = adopted[c],
         d \in Crowd =>
           \/ ~adopted'[d] \/ (adopted[d] /\ val'[d] = val[d]) \/ heard' = Forgotten({d})
  PROVE  BoardInv'
<1> USE DEF BoardInv, TypeInv
<1>1. RoomType' BY DEF RoomType, room
<1>2. /\ heard' \in [Crowd -> [Control -> Value]]
      /\ \A c \in Crowd, k \in Control : heard'[c][k] # 0 => heard'[c] = heard[c]
      /\ heard' = Forgotten({d}) => \A c \in Crowd, k \in Control : heard'[c][k] # 0 => c # d
  BY DEF Forgotten, HeardType, Value
<1>3. HeardType' BY <1>2 DEF HeardType, room
<1>4. ASSUME NEW c \in Crowd, NEW k \in Control, c \in live', adopted'[c], heard'[c][k] # 0
      PROVE  Unmoved(c)
  <2>1. val'[c] = val[c] /\ adopted[c] BY <1>2, <1>4
  <2> QED BY <1>2, <1>4, <2>1 DEF Unmoved, Carries, room
<1>5. CrowdHearsTheLast' BY <1>4, HearsStill DEF room
<1> QED BY <1>1, <1>3, <1>5

LEMMA LandKeeps ==
  ASSUME BoardInv, cast' = cast, NEW d \in Device, Land(d)
  PROVE  BoardInv'
<1> USE DEF BoardInv, TypeInv
<1>1. /\ ScenesType' /\ UNCHANGED <<room, spoken, heard>> /\ Carries(down, down')
      /\ UpLinks(up, live)' /\ DownLinks(down, live)'
  BY DEF Land, ScenesType, Carries, UpLinks, DownLinks, room
<1>2. ClientType' BY DEF Land, ClientType, client
<1>3. load[d] \in Board /\ ~ready[d] /\ ~adopted[d] BY DEF Land, DeckType
<1>4. load[d].val \in [Control -> Value] BY <1>3 DEF Board
<1>5. DeckType' BY <1>3, <1>4 DEF Land, DeckType
<1>6. \A c \in Crowd : c # d => val'[c] = val[c] /\ adopted'[c] = adopted[c]
  BY DEF Land, DeckType, Device
<1>7. ~adopted'[d] BY <1>3 DEF Land
<1> QED BY <1>1, <1>2, <1>5, <1>6, <1>7, DecksKeep

LEMMA OnBoardKeeps ==
  ASSUME BoardInv, cast' = cast, NEW d \in Device, OnBoard(d)
  PROVE  BoardInv'
<1> USE DEF BoardInv, TypeInv
<1> DEFINE new == Head(down[d]).board
           follows == shown[d].enabled /\ ~shown[d].anchor
           loads == follows /\ new.deck /\ ~ready[d] /\ load[d] = None
           aligns == follows /\ new.deck /\ ready[d] /\ shown[d].deck /\ ~adopted[d]
<1>1. /\ down[d] # <<>> /\ Read(d) /\ Head(down[d]).t = "state"
      /\ UNCHANGED <<room, up, client, ready, spoken, moves, left>>
  BY DEF OnBoard, Arriving
<1>2. DownLinks(down', live) /\ new \in Board BY <1>1, ReadIs, DownIs
<1>3. Carries(down, down')
  <2>1. \A k \in Control : ~Speaks(Head(down[d]), k) BY <1>1 DEF Speaks
  <2> QED BY <1>1, <2>1, ReadCarries
<1>4. /\ last' \in {last, [last EXCEPT ![d] = new]}
      /\ load' = IF loads THEN [load EXCEPT ![d] = new] ELSE load
      /\ IF aligns THEN Adopts(d, new) ELSE UNCHANGED <<val, adopted>>
      /\ heard' = IF aligns /\ d \in Crowd THEN Forgotten({d}) ELSE heard
  BY DEF OnBoard
<1> HIDE DEF new
<1>5. new.val \in [Control -> Value] BY <1>2 DEF Board
<1>6. /\ val' \in [Device -> [Control -> Value]] /\ adopted' \in [Device -> BOOLEAN]
      /\ \A e \in Device : adopted'[e] => ready[e]
      /\ \A e \in Device : e # d => val'[e] = val[e] /\ adopted'[e] = adopted[e]
  <2>1. CASE aligns BY <1>4, <1>5, <2>1 DEF Adopts, DeckType
  <2>2. CASE ~aligns BY <1>4, <2>2 DEF DeckType
  <2> QED BY <2>1, <2>2
<1>7. DeckType' BY <1>1, <1>2, <1>4, <1>6 DEF DeckType
<1>8. ScenesType' BY <1>1 DEF ScenesType
<1>9. ClientType' BY <1>1 DEF ClientType, client
<1>10. UpLinks(up, live)' /\ DownLinks(down, live)' BY <1>1, <1>2 DEF room
<1>11. \A c \in Crowd : c # d => val'[c] = val[c] /\ adopted'[c] = adopted[c]
  BY <1>6 DEF Device
<1>12. heard' = heard \/ (d \in Crowd /\ heard' = Forgotten({d})) BY <1>4
<1>13. d \in Crowd =>
         \/ ~adopted'[d] \/ (adopted[d] /\ val'[d] = val[d]) \/ heard' = Forgotten({d})
  BY <1>4
<1> QED BY <1>1, <1>3, <1>7, <1>8, <1>9, <1>10, <1>11, <1>12, <1>13, DecksKeep

LEMMA MoveKeeps ==
  ASSUME BoardInv, cast' = cast, NEW d \in Device, NEW k \in Control, Move(d, k)
  PROVE  BoardInv'
<1> USE DEF BoardInv, TypeInv
<1> DEFINE m == [t |-> "intent", control |-> k, value |-> moves']
           ms == <<m>>
<1>1. /\ moves' = moves + 1 /\ left' = [left EXCEPT !["move"] = @ - 1] /\ left["move"] > 0
      /\ d \in Party /\ Send(d, ms)
      /\ val' = [val EXCEPT ![d][k] = moves']
      /\ UNCHANGED <<room, down, client, ready, load, last, adopted, spoken, heard>>
  BY DEF Move, Happens
<1>2. ScenesType' /\ moves' \in Value
  <2>1. /\ "move" \in Kinds /\ left["move"] \in 0 .. MaxMoves /\ moves \in 0 .. MaxMoves
        /\ moves + left["move"] <= MaxMoves
    BY DEF ScenesType, Kinds, Value
  <2>2. /\ left["move"] - 1 \in Value /\ moves' \in Value
        /\ moves' + (left["move"] - 1) <= MaxMoves
    BY <1>1, <2>1 DEF Value
  <2>3. left' \in [Kinds -> Value] /\ left'["move"] = left["move"] - 1
    BY <1>1, <2>1, <2>2 DEF ScenesType
  <2> QED BY <2>2, <2>3 DEF ScenesType
<1>3. UpLinks(up', live)
  <2>1. m \in UpFrame BY <1>2, Up
  <2> HIDE DEF m
  <2>2. ms \in Seq(UpFrame) BY <2>1
  <2>3. d \notin Crowd BY <1>1
  <2> HIDE DEF ms
  <2> QED BY <1>1, <2>2, <2>3, SendIs
<1>4. UpLinks(up, live)' /\ DownLinks(down, live)' /\ Carries(down, down')
  BY <1>1, <1>3 DEF room, Carries
<1>5. ClientType' BY <1>1 DEF ClientType, client
<1>6. val' \in [Device -> [Control -> Value]] /\ \A e \in Device : e # d => val'[e] = val[e]
  BY <1>1, <1>2 DEF DeckType
<1>7. DeckType' BY <1>1, <1>6 DEF DeckType
<1>8. \A c \in Crowd : c # d => val'[c] = val[c] /\ adopted'[c] = adopted[c]
  BY <1>1, <1>6 DEF Device
<1>9. d \notin Crowd BY <1>1
<1> QED BY <1>1, <1>2, <1>4, <1>5, <1>7, <1>8, <1>9, DecksKeep

LEMMA RenderKeeps ==
  ASSUME BoardInv, cast' = cast, NEW d \in Device, Render(d)
  PROVE  BoardInv'
<1> USE DEF BoardInv, TypeInv
<1> DEFINE now == Asking(d)
           m == [t |-> "state", board |-> Snapshot(d)]
           pub == IF Publishes(d, now) THEN <<m>> ELSE <<>>
           ask == IF AsksForBoard(d, now) THEN <<[t |-> "request"]>> ELSE <<>>
           ms == pub \o ask
           aligns == Reconciles(d, now) /\ last[d].deck
<1>1. /\ shown' = [shown EXCEPT ![d] = now] /\ Send(d, ms)
      /\ IF Leaves(d, now)
         THEN /\ adopted' = [adopted EXCEPT ![d] = FALSE]
              /\ last' = [last EXCEPT ![d] = None]
              /\ UNCHANGED val
         ELSE /\ IF aligns THEN Adopts(d, last[d]) ELSE UNCHANGED <<val, adopted>>
              /\ UNCHANGED last
      /\ heard' = IF d \in Crowd /\ adopted'[d] /\ ~adopted[d] THEN Forgotten({d}) ELSE heard
      /\ UNCHANGED <<room, down, told, peers, ready, load, spoken, moves, left>>
  BY DEF Render
<1>2. /\ now \in Deps
      /\ d \in Crowd => now.enabled
      /\ now.deck = ready[d] /\ now.anchor = (told[d] = d)
  BY DEF ClientType, DeckType, Asking, Deps
<1>3. Publishes(d, now) => d \in Party
  BY <1>2 DEF Publishes, ClientType, Device
<1> HIDE DEF now
<1>4. ClientType' BY <1>1, <1>2 DEF ClientType, Device
<1>5. UpLinks(up', live)
  <2>1. d \in Party => m \in UpFrame BY SnapshotIs, Up
  <2> HIDE DEF m
  <2>2. pub \in Seq(UpFrame) /\ (d \in Crowd => pub = <<>>) BY <1>3, <2>1
  <2>3. ask \in Seq(UpFrame) /\ \A i \in 1 .. Len(ask) : ask[i].t = "request" BY Up
  <2> HIDE DEF pub, ask
  <2>4. ms \in Seq(UpFrame) BY <2>2, <2>3
  <2>5. d \in Crowd => \A i \in 1 .. Len(ms) : ms[i].t = "request" BY <2>2, <2>3
  <2> HIDE DEF ms
  <2> QED BY <1>1, <2>4, <2>5, SendIs
<1>6. aligns => ready[d] /\ last[d].val \in [Control -> Value]
  BY <1>2 DEF Reconciles, DeckType, Board
<1> HIDE DEF aligns
<1>7. /\ val' \in [Device -> [Control -> Value]] /\ adopted' \in [Device -> BOOLEAN]
      /\ last' \in [Device -> Board \cup {None}]
      /\ \A e \in Device : adopted'[e] => ready[e]
      /\ \A e \in Device : e # d => val'[e] = val[e] /\ adopted'[e] = adopted[e]
  <2>1. CASE Leaves(d, now) BY <1>1, <2>1 DEF DeckType
  <2>2. CASE ~Leaves(d, now) /\ aligns BY <1>1, <1>6, <2>2 DEF DeckType, Adopts
  <2>3. CASE ~Leaves(d, now) /\ ~aligns BY <1>1, <2>3 DEF DeckType
  <2> QED BY <2>1, <2>2, <2>3
<1>8. DeckType' BY <1>1, <1>7 DEF DeckType
<1>9. ScenesType' BY <1>1 DEF ScenesType
<1>10. UpLinks(up, live)' /\ DownLinks(down, live)' /\ Carries(down, down')
  BY <1>1, <1>5 DEF room, Carries
<1>11. \A c \in Crowd : c # d => val'[c] = val[c] /\ adopted'[c] = adopted[c]
  BY <1>7 DEF Device
<1>12. heard' = heard \/ (d \in Crowd /\ heard' = Forgotten({d})) BY <1>1
<1>13. d \in Crowd =>
         \/ ~adopted'[d] \/ (adopted[d] /\ val'[d] = val[d]) \/ heard' = Forgotten({d})
  <2> SUFFICES ASSUME d \in Crowd, adopted'[d], adopted[d] PROVE val'[d] = val[d] BY <1>1
  <2>1. ~Leaves(d, now) BY <1>2 DEF Leaves
  <2>2. ~aligns BY DEF aligns, Reconciles
  <2> QED BY <1>1, <2>1, <2>2
<1> QED BY <1>1, <1>4, <1>8, <1>9, <1>10, <1>11, <1>12, <1>13, DecksKeep

-----------------------------------------------------------------------------
(* The theorems.                                                           *)

LEMMA BoardStart == Init => BoardInv
<1> SUFFICES ASSUME Init PROVE BoardInv OBVIOUS
<1>1. PICK s \in Scenes : cast = s.cast /\ left = s.left /\ Open(s.cast \ s.late) BY DEF Init
<1> DEFINE There == s.cast \ s.late
<1>2. There \subseteq Device /\ Starter \in There /\ left \in [Kinds -> Value]
  BY <1>1 DEF Device, Kinds, Value
<1> HIDE DEF There
<1>3. Open(There) BY <1>1 DEF There
<1>4. 0 \in Value /\ Opening \in Board
  <2>1. 0 \in Value BY DEF Value
  <2> QED BY <2>1 DEF Opening, Board
<1>5. ScenesType
  <2>1. left["move"] \in 0 .. MaxMoves /\ moves = 0 BY <1>2, <1>3 DEF Kinds, Value, Open
  <2> QED BY <1>1, <1>2, <1>4, <2>1 DEF ScenesType
<1>6. RoomType
  <2>1. digest = [k \in Control |-> 0] BY <1>3 DEF Open
  <2>2. digest \in [Control -> Value] BY <1>4, <2>1
  <2> QED BY <1>2, <1>3, <1>4, <2>2 DEF RoomType, Open
<1>7. UpLinks(up, live) /\ DownLinks(down, live)
  <2>1. up = [d \in Device |-> <<>>] /\ down = [d \in Device |-> <<>>] BY <1>3 DEF Open
  <2>2. Crowd \subseteq Device BY DEF Device
  <2>3. \A c \in Crowd : Len(up[c]) = 0 /\ Len(down[c]) = 0 BY <2>1, <2>2
  <2> QED BY <2>1, <2>3 DEF UpLinks, DownLinks
<1>8. told \in [Device -> Party \cup {None}] /\ peers \in [Device -> SUBSET Party]
  <2>1. There \ Crowd \subseteq Party BY <1>2 DEF Device
  <2> QED BY <1>2, <1>3, <2>1 DEF Open
<1>9. ready \in [Device -> BOOLEAN] /\ adopted \in [Device -> BOOLEAN]
  BY <1>3 DEF Open
<1>10. ClientType
  <2>0. \A d \in Device : peers[d] \in SUBSET Party /\ ready[d] \in BOOLEAN
    BY <1>8, <1>9
  <2>1. \A d \in Device : Asking(d) \in Deps /\ (d \in Crowd => Asking(d).enabled)
    <3> SUFFICES ASSUME NEW d \in Device
                 PROVE  Asking(d) \in Deps /\ (d \in Crowd => Asking(d).enabled)
      OBVIOUS
    <3>1. Asking(d).enabled <=> d \in Crowd \cup peers[d] BY DEF Asking
    <3>2. Asking(d) \in Deps BY <2>0 DEF Asking, Deps
    <3> QED BY <3>1, <3>2
  <2>2. shown = [d \in Device |-> Asking(d)] BY <1>3 DEF Open
  <2> QED BY <1>8, <2>1, <2>2 DEF ClientType, Device
<1>11. DeckType
  <2>1. val \in [Device -> [Control -> Value]]
    <3>1. val = [d \in Device |-> [k \in Control |-> 0]] BY <1>3 DEF Open
    <3>2. [k \in Control |-> 0] \in [Control -> Value] BY <1>4
    <3> QED BY <3>1, <3>2
  <2>2. /\ load \in [Device -> Board \cup {None}] /\ last \in [Device -> Board \cup {None}]
        /\ \A d \in Device : load[d] = None
    BY <1>3, <1>4 DEF Open
  <2>3. \A d \in Device : adopted[d] => ready[d] BY <1>3 DEF Open
  <2> QED BY <1>9, <2>1, <2>2, <2>3 DEF DeckType
<1>12. heard = [c \in Crowd |-> [k \in Control |-> 0]] /\ digest = [k \in Control |-> 0]
  BY <1>3 DEF Open
<1>13. HeardType /\ CrowdHearsTheLast
  <2>1. [k \in Control |-> 0] \in [Control -> Value] BY <1>4
  <2>2. heard \in [Crowd -> [Control -> Value]] BY <1>12, <2>1
  <2>3. \A c \in Crowd, k \in Control : heard[c][k] = 0 BY <1>12
  <2>4. \A k \in Control : digest[k] = 0 BY <1>12
  <2> QED BY <2>2, <2>3, <2>4 DEF HeardType, CrowdHearsTheLast
<1> QED BY <1>5, <1>6, <1>7, <1>10, <1>11, <1>13 DEF BoardInv, TypeInv

LEMMA BoardStep == BoardInv /\ [Next]_<<cast, vars>> => BoardInv'
<1> SUFFICES ASSUME BoardInv, [Next]_<<cast, vars>> PROVE BoardInv' OBVIOUS
<1>1. ASSUME Step, cast' = cast PROVE BoardInv'
  <2>1. ASSUME NEW d \in Device, Connect(d) \/ Drop(d) PROVE BoardInv'
    BY <1>1, <2>1, ConnectKeeps, DropKeeps
  <2>2. ASSUME NEW d \in Device, Receive(d) PROVE BoardInv'
    BY <1>1, <2>2, ReceiveKeeps, IntentKeeps DEF Receive
  <2>3. ASSUME NEW d \in Device, Arrives(d) PROVE BoardInv'
    BY <1>1, <2>3, ToldKeeps, OnBoardKeeps, MovedKeeps DEF Arrives
  <2>4. ASSUME NEW d \in Device, Render(d) \/ Land(d) PROVE BoardInv'
    BY <1>1, <2>4, RenderKeeps, LandKeeps
  <2>5. ASSUME NEW d \in Party, Hand(d) PROVE BoardInv' BY <1>1, <2>5, HandKeeps
  <2>6. ASSUME NEW d \in Party, NEW k \in Control, Move(d, k) PROVE BoardInv'
    BY <1>1, <2>6, MoveKeeps DEF Device
  <2>7. CASE FlushDigest BY <1>1, <2>7, FlushDigestKeeps
  <2>8. CASE FlushPresence BY <1>1, <2>8, FlushPresenceKeeps
  <2>9. CASE Restart BY <1>1, <2>9, RestartKeeps
  <2> QED BY <1>1, <2>1, <2>2, <2>3, <2>4, <2>5, <2>6, <2>7, <2>8, <2>9 DEF Step
<1>2. ASSUME UNCHANGED <<cast, vars>> PROVE BoardInv'
  <2>1. Carries(down, down') BY <1>2 DEF vars, Carries
  <2>2. ClientType' BY <1>2 DEF BoardInv, TypeInv, ClientType, vars, client
  <2>3. UpLinks(up, live)' /\ DownLinks(down, live)'
    BY <1>2 DEF BoardInv, TypeInv, vars, room
  <2> QED BY <1>2, <2>1, <2>2, <2>3, ClientKeeps DEF vars
<1> QED BY <1>1, <1>2 DEF Next

LEMMA BoardAlways == Spec => []BoardInv
BY BoardStart, BoardStep, PTL DEF Spec

\* Every frame on the wire is one the protocol has, whoever joined, dropped,
\* took the clock or was evicted meanwhile; a seat is a live socket's.
THEOREM BoardTypeCorrect == Spec => []TypeOK
<1>1. BoardInv => TypeOK BY TypeFollows DEF BoardInv
<1> QED BY <1>1, BoardAlways, PTL

\* What reaches a listener through two channels, the wire and the digest,
\* leaves it on the last value that was sent, for any number of moves.
THEOREM ListenersEndOnTheLast == Spec => []CrowdHearsTheLast
<1>1. BoardInv => CrowdHearsTheLast BY DEF BoardInv
<1> QED BY <1>1, BoardAlways, PTL
=============================================================================
