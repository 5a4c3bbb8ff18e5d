------------------------- MODULE StemPipelineProofs -------------------------
(* What the stem pipeline guarantees for any decks, tracks and job slots,  *)
(* any number of users' moves, faults and tab crashes.                     *)
EXTENDS StemPipeline, FiniteSetTheorems, TLAPS

USE StemAssumption

-----------------------------------------------------------------------------
(* The invariant.                                                          *)

JobType ==
    /\ jobs \in [JobIds -> Job \cup {FreeJob}]
    /\ inflight \in [Tracks -> JobIds \cup {None}]
    /\ stemJobs \in [Tracks -> JobIds \cup {None}]
    /\ gpu \in Seq(JobIds) /\ reanalyzed \subseteq Tracks

DeckType ==
    /\ track \in [Decks -> Tracks \cup {None}] /\ shown \in [Decks -> Tracks \cup {None}]
    /\ loading \in [Decks -> Tracks \cup {None}]
    /\ stems \in [Decks -> Tracks \cup {None}]
    /\ guard \in [Decks -> (Tracks \X Models) \cup {<<>>}]
    /\ loadedKey \in [Decks -> Tracks \cup {None}]

CallType == calls \subseteq Call /\ reqGuard \in [Decks -> Tracks \cup {None}]

RestType ==
    /\ model \in Models /\ holds \in Nat
    /\ worker \in {"none", "loading", "up", "dead"}
    /\ session \in {"none", "ready", "broken"}
    /\ saving \subseteq Tracks \X {"local", "share", "upload"}
    /\ disk \subseteq Tracks /\ r2 \subseteq Tracks
    /\ authority \in BOOLEAN /\ armed \in BOOLEAN /\ blocked \in BOOLEAN
    /\ spent \in Nat

LEMMA TypeParts == TypeOK <=> JobType /\ DeckType /\ CallType /\ RestType
BY DEF TypeOK, JobType, DeckType, CallType, RestType

\* Unless a user forced another one, the job of a track that is not over is
\* the one a later caller finds.
JobsAreShared ==
    \A v \in Tracks \ reanalyzed : \A j \in ActiveJobs(v) : inflight[v] = j

\* A load whose derive is not stale is the last one its deck began.
LoadsKnowTheirDeck ==
    \A c \in calls : c.by = "load" =>
        /\ c.deck \in Decks
        /\ ~c.stale => loading[c.deck] = None /\ track[c.deck] = c.vid

JobsInv == JobType /\ SharedJobsRun /\ JobsAreShared /\ OneHeavyJob
StemInv == JobsInv /\ DeckType /\ CallType /\ RestType /\ LoadsKnowTheirDeck

-----------------------------------------------------------------------------
(* What a step does to the jobs.                                           *)

LEMMA JobPatch ==
    ASSUME NEW b \in Job, NEW p \in Active \cup Settled
    PROVE  /\ [b EXCEPT !.phase = p] \in Job
           /\ [b EXCEPT !.phase = p].phase = p
           /\ [b EXCEPT !.phase = p].vid = b.vid
BY DEF Job

LEMMA FreeIsFree ==
    FreeJob.phase = "free" /\ FreeJob.phase \notin Active \cup Settled
BY DEF FreeJob, Active, Settled

\* The phase of one job changes.
LEMMA PhaseIs ==
    ASSUME JobType, NEW j \in JobIds, jobs[j].phase \in Active,
           NEW p \in Active \cup Settled,
           jobs' = [jobs EXCEPT ![j].phase = p]
    PROVE  /\ jobs' \in [JobIds -> Job \cup {FreeJob}]
           /\ jobs'[j].phase = p /\ jobs'[j].vid = jobs[j].vid
           /\ \A k \in JobIds \ {j} : jobs'[k] = jobs[k]
           /\ jobs[j].vid \in Tracks
<1>1. jobs[j] \in Job BY FreeIsFree DEF JobType
<1>2. jobs' = [jobs EXCEPT ![j] = [jobs[j] EXCEPT !.phase = p]] BY DEF JobType
<1>3. [jobs[j] EXCEPT !.phase = p] \in Job BY <1>1, JobPatch
<1>4. jobs[j].vid \in Tracks BY <1>1 DEF Job
<1> QED BY <1>1, <1>2, <1>3, <1>4, JobPatch DEF JobType

\* The chain as the set of jobs in it: adding at the end, letting the head go.
LEMMA ChainGrows ==
    ASSUME gpu \in Seq(JobIds), NEW j \in JobIds, gpu' = Append(gpu, j)
    PROVE  /\ gpu' \in Seq(JobIds) /\ Len(gpu') = Len(gpu) + 1
           /\ gpu'[Len(gpu) + 1] = j
           /\ \A i \in 1 .. Len(gpu) : gpu'[i] = gpu[i]
           /\ gpu # <<>> => Head(gpu') = Head(gpu)
OBVIOUS

LEMMA ChainShrinks ==
    ASSUME gpu \in Seq(JobIds), gpu # <<>>, gpu' = Tail(gpu)
    PROVE  /\ gpu' \in Seq(JobIds) /\ Len(gpu) = Len(gpu') + 1
           /\ \A i \in 1 .. Len(gpu') : gpu'[i] = gpu[i + 1]
           /\ Head(gpu) = gpu[1]
OBVIOUS

LEMMA JobsIdle ==
    ASSUME JobsInv, UNCHANGED jobVars
    PROVE  JobsInv'
BY DEF JobsInv, JobType, SharedJobsRun, JobsAreShared, ActiveJobs, OneHeavyJob, jobVars

\* A job that is neither in the chain nor bound for it moves on.
LEMMA DownloadKeeps ==
    ASSUME JobsInv, NEW j \in JobIds, jobs[j].phase = "probe",
           jobs' = [jobs EXCEPT ![j].phase = "download"],
           UNCHANGED <<gpu, inflight, stemJobs, reanalyzed>>
    PROVE  JobsInv'
<1>1. jobs[j].phase \in Active /\ "download" \in Active \cup Settled BY DEF Active
<1>2. /\ jobs' \in [JobIds -> Job \cup {FreeJob}]
      /\ jobs'[j].phase = "download" /\ jobs'[j].vid = jobs[j].vid
      /\ \A k \in JobIds \ {j} : jobs'[k] = jobs[k]
  BY <1>1, PhaseIs DEF JobsInv
<1>3. JobType' BY <1>2 DEF JobsInv, JobType
<1>4. SharedJobsRun' BY <1>2 DEF JobsInv, JobType, SharedJobsRun, Active
<1>5. JobsAreShared' BY <1>1, <1>2 DEF JobsInv, JobsAreShared, ActiveJobs
<1>6. OneHeavyJob' BY <1>2 DEF JobsInv, OneHeavyJob
<1> QED BY <1>3, <1>4, <1>5, <1>6 DEF JobsInv

\* A job that has passed its gates goes to the end of the chain.
LEMMA QueueKeeps ==
    ASSUME JobsInv, NEW j \in JobIds, jobs[j].phase \in {"probe", "download"},
           jobs' = [jobs EXCEPT ![j].phase = "queued"], gpu' = Append(gpu, j),
           UNCHANGED <<inflight, stemJobs, reanalyzed>>
    PROVE  JobsInv'
<1>1. jobs[j].phase \in Active /\ "queued" \in Active \cup Settled BY DEF Active
<1>2. /\ jobs' \in [JobIds -> Job \cup {FreeJob}]
      /\ jobs'[j].phase = "queued" /\ jobs'[j].vid = jobs[j].vid
      /\ \A k \in JobIds \ {j} : jobs'[k] = jobs[k]
  BY <1>1, PhaseIs DEF JobsInv
<1>3. /\ gpu' \in Seq(JobIds) /\ Len(gpu') = Len(gpu) + 1 /\ Len(gpu) \in Nat
      /\ gpu'[Len(gpu) + 1] = j
      /\ \A i \in 1 .. Len(gpu) : gpu'[i] = gpu[i]
      /\ gpu # <<>> => Head(gpu') = Head(gpu)
  BY ChainGrows DEF JobsInv, JobType
<1>4. JobType' BY <1>2, <1>3 DEF JobsInv, JobType
<1>5. SharedJobsRun' BY <1>2 DEF JobsInv, JobType, SharedJobsRun, Active
<1>6. JobsAreShared' BY <1>1, <1>2 DEF JobsInv, JobsAreShared, ActiveJobs
<1>7. OneHeavyJob'
  <2>1. \A i \in 1 .. Len(gpu) : gpu[i] # j BY DEF JobsInv, OneHeavyJob
  <2>2. \A k \in JobIds : jobs'[k].phase = "running" => k = Head(gpu')
    <3> SUFFICES ASSUME NEW k \in JobIds, jobs'[k].phase = "running" PROVE k = Head(gpu')
      OBVIOUS
    <3>1. jobs[k].phase = "running" /\ k = Head(gpu) BY <1>2 DEF JobsInv, OneHeavyJob
    <3>2. gpu # <<>> BY <3>1 DEF JobsInv, OneHeavyJob
    <3> QED BY <1>3, <3>1, <3>2
  <2>3. \A k \in JobIds : jobs'[k].phase \in {"queued", "running"} <=>
                         \E i \in 1..Len(gpu') : gpu'[i] = k
    <3>1. ASSUME NEW k \in JobIds, k # j
          PROVE  (\E i \in 1..Len(gpu') : gpu'[i] = k) <=> \E i \in 1..Len(gpu) : gpu[i] = k
      BY <1>3, <3>1
    <3> QED BY <1>2, <1>3, <3>1 DEF JobsInv, OneHeavyJob
  <2>4. \A i, k \in 1..Len(gpu') : gpu'[i] = gpu'[k] => i = k
    BY <1>3, <2>1 DEF JobsInv, OneHeavyJob
  <2> QED BY <2>2, <2>3, <2>4 DEF OneHeavyJob
<1> QED BY <1>4, <1>5, <1>6, <1>7 DEF JobsInv

LEMMA StartKeeps ==
    ASSUME JobsInv, GpuStart
    PROVE  JobsInv'
<1> DEFINE j == Head(gpu)
<1>0. gpu # <<>> /\ j \in JobIds /\ j = gpu[1] /\ Len(gpu) \in Nat \ {0}
  BY DEF GpuStart, JobsInv, JobType
<1>1. jobs[j].phase \in Active /\ "running" \in Active \cup Settled BY DEF Active, GpuStart
<1>2. /\ jobs' \in [JobIds -> Job \cup {FreeJob}]
      /\ jobs'[j].phase = "running" /\ jobs'[j].vid = jobs[j].vid
      /\ \A k \in JobIds \ {j} : jobs'[k] = jobs[k]
  BY <1>0, <1>1, PhaseIs DEF JobsInv, GpuStart
<1>3. UNCHANGED <<gpu, inflight, stemJobs, reanalyzed>> BY DEF GpuStart
<1>4. JobType' BY <1>2, <1>3 DEF JobsInv, JobType
<1>5. SharedJobsRun' BY <1>2, <1>3 DEF JobsInv, JobType, SharedJobsRun, Active
<1>6. JobsAreShared' BY <1>1, <1>2, <1>3 DEF JobsInv, JobsAreShared, ActiveJobs
<1>7. OneHeavyJob' BY <1>0, <1>2, <1>3 DEF JobsInv, OneHeavyJob, GpuStart
<1> QED BY <1>4, <1>5, <1>6, <1>7 DEF JobsInv

\* A job that does not wait for the GPU ends: it leaves both maps and, if it
\* ran, the chain.
LEMMA SettleKeeps ==
    ASSUME JobsInv, NEW j \in JobIds, jobs[j].phase \in {"probe", "download", "running"},
           NEW how \in Settled, Settle(j, how)
    PROVE  JobsInv'
<1> DEFINE runs == jobs[j].phase = "running"
<1>1. jobs[j].phase \in Active /\ how \in Active \cup Settled /\ how \notin Active
  BY DEF Active, Settled
<1>2. /\ jobs' \in [JobIds -> Job \cup {FreeJob}]
      /\ jobs'[j].phase = how /\ jobs'[j].vid = jobs[j].vid
      /\ \A k \in JobIds \ {j} : jobs'[k] = jobs[k]
      /\ jobs[j].vid \in Tracks
  BY <1>1, PhaseIs DEF JobsInv, Settle
<1>3. /\ inflight' \in [Tracks -> JobIds \cup {None}]
      /\ stemJobs' \in [Tracks -> JobIds \cup {None}]
      /\ \A v \in Tracks : inflight'[v] = IF inflight[v] = j THEN None ELSE inflight[v]
      /\ \A v \in Tracks : stemJobs'[v] = IF stemJobs[v] = j THEN None ELSE stemJobs[v]
      /\ reanalyzed' = reanalyzed
  BY DEF JobsInv, JobType, Settle
<1>4. ASSUME runs PROVE gpu' \in Seq(JobIds) /\ OneHeavyJob'
  <2>1. gpu # <<>> /\ Head(gpu) = j BY <1>4 DEF JobsInv, OneHeavyJob
  <2>2. gpu' = Tail(gpu) BY <2>1 DEF Settle, Released
  <2>3. /\ gpu' \in Seq(JobIds) /\ Len(gpu) = Len(gpu') + 1
        /\ \A i \in 1 .. Len(gpu') : gpu'[i] = gpu[i + 1]
        /\ gpu[1] = j
    BY <2>1, <2>2, ChainShrinks DEF JobsInv, JobType
  <2>4. OneHeavyJob'
    <3>1. \A k \in JobIds \ {j} : jobs'[k].phase # "running"
      BY <1>2, <2>1 DEF JobsInv, OneHeavyJob
    <3>2. ASSUME NEW k \in JobIds, k # j
          PROVE  (\E i \in 1..Len(gpu') : gpu'[i] = k) <=> \E i \in 1..Len(gpu) : gpu[i] = k
      <4>1. ASSUME NEW i \in 1..Len(gpu), gpu[i] = k PROVE \E n \in 1..Len(gpu') : gpu'[n] = k
        <5>1. i # 1 BY <2>3, <3>2, <4>1
        <5>2. i - 1 \in 1..Len(gpu') /\ gpu'[i - 1] = gpu[i] BY <2>3, <5>1
        <5> QED BY <4>1, <5>2
      <4>2. ASSUME NEW i \in 1..Len(gpu'), gpu'[i] = k PROVE \E n \in 1..Len(gpu) : gpu[n] = k
        <5>1. i + 1 \in 1..Len(gpu) /\ gpu[i + 1] = k BY <2>3, <4>2
        <5> QED BY <5>1
      <4> QED BY <4>1, <4>2
    <3>3. \A i \in 1..Len(gpu') : gpu'[i] # j
      <4> SUFFICES ASSUME NEW i \in 1..Len(gpu'), gpu[i + 1] = j PROVE FALSE BY <2>3
      <4>1. 1 \in 1..Len(gpu) /\ i + 1 \in 1..Len(gpu) /\ i + 1 # 1 BY <2>3
      <4> QED BY <2>3, <4>1 DEF JobsInv, OneHeavyJob
    <3>4. jobs'[j].phase \notin {"queued", "running"} BY <1>2 DEF Settled
    <3>5. \A k \in JobIds : jobs'[k].phase \in {"queued", "running"} <=>
                           \E i \in 1..Len(gpu') : gpu'[i] = k
      BY <1>2, <3>2, <3>3, <3>4 DEF JobsInv, OneHeavyJob
    <3>6. \A i, k \in 1..Len(gpu') : gpu'[i] = gpu'[k] => i = k
      <4> SUFFICES ASSUME NEW i \in 1..Len(gpu'), NEW k \in 1..Len(gpu'), gpu'[i] = gpu'[k]
                   PROVE i = k
        OBVIOUS
      <4>1. i + 1 \in 1..Len(gpu) /\ k + 1 \in 1..Len(gpu) /\ gpu[i + 1] = gpu[k + 1]
        BY <2>3
      <4>2. i + 1 = k + 1 BY <4>1 DEF JobsInv, OneHeavyJob
      <4> QED BY <4>2
    <3> QED BY <3>1, <3>4, <3>5, <3>6 DEF OneHeavyJob
  <2> QED BY <2>3, <2>4
<1>5. ASSUME ~runs PROVE gpu' \in Seq(JobIds) /\ OneHeavyJob'
  <2>1. \A i \in 1..Len(gpu) : gpu[i] # j BY <1>5 DEF JobsInv, OneHeavyJob
  <2>2. gpu # <<>> => Head(gpu) = gpu[1] /\ 1 \in 1..Len(gpu) BY DEF JobsInv, JobType
  <2>3. gpu' = gpu BY <2>1, <2>2 DEF Settle, Released
  <2>4. OneHeavyJob'
    BY <1>2, <1>5, <2>1, <2>3 DEF JobsInv, OneHeavyJob, Settled
  <2> QED BY <2>3, <2>4 DEF JobsInv, JobType
<1>6. gpu' \in Seq(JobIds) /\ OneHeavyJob' BY <1>4, <1>5
<1>7. JobType' BY <1>2, <1>3, <1>6 DEF JobsInv, JobType
<1>8. SharedJobsRun' BY <1>2, <1>3 DEF JobsInv, SharedJobsRun
<1>9. JobsAreShared' BY <1>1, <1>2, <1>3 DEF JobsInv, JobsAreShared, ActiveJobs
<1> QED BY <1>6, <1>7, <1>8, <1>9 DEF JobsInv

LEMMA GateKeeps ==
    ASSUME JobsInv, NEW j \in JobIds, jobs[j].phase \in {"probe", "download"}, JobGate(j)
    PROVE  JobsInv'
<1>1. "failed" \in Settled BY DEF Settled
<1>2. CASE Settle(j, "failed") BY <1>1, <1>2, SettleKeeps
<1>3. CASE /\ jobs' = [jobs EXCEPT ![j].phase = "queued"] /\ gpu' = Append(gpu, j)
           /\ UNCHANGED <<inflight, stemJobs, reanalyzed>>
  BY <1>3, QueueKeeps
<1> QED BY <1>2, <1>3 DEF JobGate

\* A caller joins the job of its track or begins one.
LEMMA AskKeeps ==
    ASSUME JobsInv, NEW c, c.vid \in Tracks, NEW cc, NEW forced \in BOOLEAN,
           Ask(c, cc, forced)
    PROVE  /\ JobsInv'
           /\ \E j \in JobIds : calls' = (calls \ {c}) \cup {[cc EXCEPT !.pc = "await", !.job = j]}
<1> DEFINE v == c.vid
           joins == ~forced /\ inflight[v] # None
           j == IF joins THEN inflight[v] ELSE Slot
           new == [phase |-> IF forced THEN "queued" ELSE "probe", vid |-> v, forced |-> forced]
           begins == /\ ~joins /\ jobs[j].phase = "free"
                     /\ jobs' = [jobs EXCEPT ![j] = new]
                     /\ gpu' = IF forced THEN Append(gpu, j) ELSE gpu
                     /\ inflight' = [inflight EXCEPT ![v] = j]
<1>1. /\ j \in JobIds
      /\ begins \/ (joins /\ UNCHANGED <<jobs, gpu, inflight>>)
      /\ stemJobs' = [stemJobs EXCEPT ![v] = j] \/ stemJobs' = stemJobs
      /\ reanalyzed' = IF forced THEN reanalyzed \cup {v} ELSE reanalyzed
      /\ calls' = (calls \ {c}) \cup {[cc EXCEPT !.pc = "await", !.job = j]}
  <2>1. (\E k \in JobIds : jobs[k].phase = "free") =>
          Slot \in JobIds /\ jobs[Slot].phase = "free"
    BY DEF Slot
  <2>2. joins => j \in JobIds BY DEF JobsInv, JobType
  <2> QED BY <2>1, <2>2, Zenon DEF Ask, Become
<1> HIDE DEF j
<1>2. ASSUME joins, UNCHANGED <<jobs, gpu, inflight>> PROVE JobsInv'
  <2>1. j = inflight[v] /\ ~forced BY <1>2 DEF j
  <2>2. jobs[j].phase \in Active /\ jobs[j].vid = v BY <1>2, <2>1 DEF JobsInv, SharedJobsRun
  <2>3. stemJobs' \in [Tracks -> JobIds \cup {None}] BY <1>1 DEF JobsInv, JobType
  <2>4. JobType' BY <1>1, <1>2, <2>1, <2>3 DEF JobsInv, JobType
  <2>5. SharedJobsRun' BY <1>1, <1>2, <2>2 DEF JobsInv, SharedJobsRun, JobType
  <2>6. JobsAreShared' BY <1>1, <1>2, <2>1 DEF JobsInv, JobsAreShared, ActiveJobs
  <2>7. OneHeavyJob' BY <1>2 DEF JobsInv, OneHeavyJob
  <2> QED BY <2>4, <2>5, <2>6, <2>7 DEF JobsInv
<1>3. ASSUME begins PROVE JobsInv'
  <2>1. /\ new \in Job /\ new.phase \in {"queued", "probe"} /\ new.vid = v
        /\ new.phase \in Active /\ (new.phase = "queued" <=> forced)
    BY DEF Job, Active
  <2> HIDE DEF new
  <2>2. /\ jobs' \in [JobIds -> Job \cup {FreeJob}] /\ jobs'[j] = new
        /\ \A k \in JobIds \ {j} : jobs'[k] = jobs[k]
    BY <1>1, <1>3, <2>1 DEF JobsInv, JobType
  <2>3. /\ inflight' \in [Tracks -> JobIds \cup {None}]
        /\ \A u \in Tracks : inflight'[u] = IF u = v THEN j ELSE inflight[u]
        /\ stemJobs' \in [Tracks -> JobIds \cup {None}]
        /\ \A u \in Tracks : stemJobs'[u] = stemJobs[u] \/ (u = v /\ stemJobs'[u] = j)
    BY <1>1, <1>3 DEF JobsInv, JobType
  <2>4. /\ jobs[j].phase = "free" /\ "free" \notin Active
        /\ \A i \in 1..Len(gpu) : gpu[i] # j
    BY <1>1, <1>3 DEF JobsInv, OneHeavyJob, Active
  <2>5. /\ Append(gpu, j) \in Seq(JobIds) /\ gpu \in Seq(JobIds)
        /\ Len(Append(gpu, j)) = Len(gpu) + 1 /\ Len(gpu) \in Nat
        /\ Append(gpu, j)[Len(gpu) + 1] = j
        /\ \A i \in 1 .. Len(gpu) : Append(gpu, j)[i] = gpu[i]
        /\ gpu # <<>> => Head(Append(gpu, j)) = Head(gpu)
    BY <1>1 DEF JobsInv, JobType
  <2>6. JobType' BY <1>1, <1>3, <2>2, <2>3, <2>5 DEF JobsInv, JobType
  <2>7. SharedJobsRun' BY <2>1, <2>2, <2>3, <2>4 DEF JobsInv, SharedJobsRun
  <2>8. JobsAreShared'
    <3> SUFFICES ASSUME NEW u \in Tracks \ reanalyzed', NEW k \in JobIds,
                        jobs'[k].phase \in Active, jobs'[k].vid = u
                 PROVE  inflight'[u] = k
      BY DEF JobsAreShared, ActiveJobs
    <3>0. u \notin reanalyzed /\ (forced => u # v) BY <1>1
    <3>1. CASE k = j BY <2>1, <2>2, <2>3, <3>1
    <3>2. CASE k # j
      <4>1. jobs[k].phase \in Active /\ jobs[k].vid = u BY <2>2, <3>2
      <4>2. inflight[u] = k BY <3>0, <4>1 DEF JobsInv, JobsAreShared, ActiveJobs
      <4>3. CASE u = v
        <5>1. inflight[v] = None BY <1>3, <3>0, <4>3
        <5> QED BY <4>2, <4>3, <5>1
      <4>4. CASE u # v BY <2>3, <4>2, <4>4
      <4> QED BY <4>3, <4>4
    <3> QED BY <3>1, <3>2
  <2>9. OneHeavyJob'
    <3>1. CASE forced
      <4>1. gpu' = Append(gpu, j) BY <1>3, <3>1
      <4>2. \A k \in JobIds : jobs'[k].phase = "running" => k = Head(gpu')
        <5> SUFFICES ASSUME NEW k \in JobIds, jobs'[k].phase = "running" PROVE k = Head(gpu')
          OBVIOUS
        <5>1. k # j BY <2>1, <2>2
        <5>2. jobs[k].phase = "running" BY <2>2, <5>1
        <5>3. k = Head(gpu) /\ gpu # <<>> BY <5>2 DEF JobsInv, OneHeavyJob
        <5> QED BY <2>5, <4>1, <5>3
      <4>3. \A k \in JobIds : jobs'[k].phase \in {"queued", "running"} <=>
                             \E i \in 1..Len(gpu') : gpu'[i] = k
        <5>1. ASSUME NEW k \in JobIds, k # j
              PROVE  (\E i \in 1..Len(gpu') : gpu'[i] = k) <=> \E i \in 1..Len(gpu) : gpu[i] = k
          BY <2>5, <4>1, <5>1
        <5> QED BY <2>1, <2>2, <2>5, <3>1, <4>1, <5>1 DEF JobsInv, OneHeavyJob
      <4>4. \A i, k \in 1..Len(gpu') : gpu'[i] = gpu'[k] => i = k
        BY <2>4, <2>5, <4>1 DEF JobsInv, OneHeavyJob
      <4> QED BY <4>2, <4>3, <4>4 DEF OneHeavyJob
    <3>2. CASE ~forced
      <4>1. gpu' = gpu /\ jobs'[j].phase = "probe" BY <1>3, <2>1, <2>2, <3>2
      <4> QED BY <2>2, <2>4, <4>1 DEF JobsInv, OneHeavyJob
    <3> QED BY <3>1, <3>2
  <2> QED BY <2>6, <2>7, <2>8, <2>9 DEF JobsInv
<1> QED BY <1>1, <1>2, <1>3

\* A promise nobody awaits any more: its slot is free again.
LEMMA FinishKeeps ==
    ASSUME JobsInv, NEW c, Ended(c), Finish(c)
    PROVE  JobsInv' /\ calls' = calls \ {c}
<1>1. jobs' = jobs \/ jobs' = [jobs EXCEPT ![c.job] = FreeJob] BY DEF Finish
<1>2. /\ UNCHANGED <<gpu, inflight, stemJobs, reanalyzed>> /\ calls' = calls \ {c}
  BY DEF Finish, End
<1>3. /\ jobs' \in [JobIds -> Job \cup {FreeJob}]
      /\ \A k \in JobIds : jobs'[k] = jobs[k] \/ (k = c.job /\ jobs'[k] = FreeJob)
  BY <1>1 DEF JobsInv, JobType
<1>4. /\ jobs[c.job].phase \in Settled /\ Settled \cap Active = {}
      /\ FreeJob.phase \notin Active /\ {"queued", "running"} \subseteq Active
  BY DEF Ended, FreeJob, Active, Settled
<1>5. JobType' BY <1>2, <1>3 DEF JobsInv, JobType
<1>6. SharedJobsRun' BY <1>2, <1>3, <1>4 DEF JobsInv, SharedJobsRun, JobType
<1>7. JobsAreShared' BY <1>2, <1>3, <1>4 DEF JobsInv, JobsAreShared, ActiveJobs
<1>8. OneHeavyJob'
  <2>1. \A k \in JobIds : /\ jobs'[k].phase = "running" <=> jobs[k].phase = "running"
                          /\ jobs'[k].phase = "queued" <=> jobs[k].phase = "queued"
    BY <1>3, <1>4
  <2> QED BY <1>2, <2>1 DEF JobsInv, OneHeavyJob
<1> QED BY <1>2, <1>5, <1>6, <1>7, <1>8 DEF JobsInv

-----------------------------------------------------------------------------
(* What a step does to the calls.                                          *)

\* A call that goes on is still the call of its user, deck and track.
Follows(k, c) == k.by = c.by /\ k.deck = c.deck /\ k.vid = c.vid /\ k.stale = c.stale

CallsFollow ==
    /\ calls' \subseteq Call
    /\ \A k \in calls' : k.by # "load" \/ \E c \in calls : Follows(k, c)

LEMMA CallsFollowKnow ==
    ASSUME LoadsKnowTheirDeck, CallsFollow, UNCHANGED <<loading, track>>
    PROVE  LoadsKnowTheirDeck'
BY DEF LoadsKnowTheirDeck, CallsFollow, Follows

LEMMA SpawnIs ==
    ASSUME NEW d \in Decks \cup {None}, NEW v \in Tracks,
           NEW by \in {"load", "setting", "reanalyze", "request", "warm"}
    PROVE  /\ Spawn(d, v, by) \in Call /\ Spawn(d, v, by).by = by
           /\ Spawn(d, v, by).deck = d /\ Spawn(d, v, by).vid = v
BY DEF Spawn, Call

LEMMA CallPatch ==
    ASSUME NEW c \in Call,
           NEW pc \in {"idle", "local", "manifest", "decode", "await"}
    PROVE  [c EXCEPT !.pc = pc] \in Call /\ Follows([c EXCEPT !.pc = pc], c)
BY DEF Call, Follows

LEMMA AwaitPatch ==
    ASSUME NEW c \in Call, NEW j \in JobIds
    PROVE  /\ [c EXCEPT !.pc = "await", !.job = j] \in Call
           /\ Follows([c EXCEPT !.pc = "await", !.job = j], c)
BY DEF Call, Follows

LEMMA GuardPatch ==
    ASSUME NEW c \in Call, NEW b \in BOOLEAN
    PROVE  /\ [c EXCEPT !.guards = b] \in Call
           /\ Follows([c EXCEPT !.guards = b], c)
BY DEF Call, Follows

LEMMA CancelIs ==
    ASSUME CallType, NEW by, NEW ds, NEW k \in Cancel(calls, by, ds)
    PROVE  /\ k \in Call
           /\ \E c \in calls : /\ k.by = c.by /\ k.deck = c.deck /\ k.vid = c.vid
                               /\ \/ k.stale
                                  \/ k = c /\ ~(c.by = by /\ c.deck \in ds)
<1>1. PICK c \in calls : k = IF c.by = by /\ c.deck \in ds THEN [c EXCEPT !.stale = TRUE] ELSE c
  BY DEF Cancel
<1>2. c \in Call BY DEF CallType
<1>3. [c EXCEPT !.stale = TRUE] \in Call
  BY <1>2 DEF Call
<1>4. k \in Call BY <1>1, <1>2, <1>3
<1>5. k.by = c.by /\ k.deck = c.deck /\ k.vid = c.vid /\ (k.stale \/ k = c) BY <1>1, <1>2 DEF Call
<1>6. c.by = by /\ c.deck \in ds => k.stale BY <1>1, <1>2 DEF Call
<1> QED BY <1>4, <1>5, <1>6

LEMMA EndFollows ==
    ASSUME CallType, NEW c, End(c)
    PROVE  CallsFollow
BY DEF CallType, End, CallsFollow, Follows

LEMMA BecomeFollows ==
    ASSUME CallType, NEW c \in calls, NEW k \in Call, Follows(k, c),
           calls' = (calls \ {c}) \cup {k}
    PROVE  CallsFollow
BY DEF CallType, CallsFollow, Follows

LEMMA GotoFollows ==
    ASSUME CallType, NEW c \in calls, NEW pc \in {"idle", "local", "manifest", "decode", "await"},
           End(c) \/ Goto(c, pc)
    PROVE  CallsFollow
<1>1. c \in Call BY DEF CallType
<1>2. [c EXCEPT !.pc = pc] \in Call /\ Follows([c EXCEPT !.pc = pc], c) BY <1>1, CallPatch
<1>3. CASE End(c) BY <1>3, EndFollows
<1>4. CASE Goto(c, pc) BY <1>2, <1>4, BecomeFollows DEF Goto, Become
<1> QED BY <1>3, <1>4

-----------------------------------------------------------------------------
(* The decks' users.                                                       *)

LEMMA UserKeeps ==
    ASSUME StemInv, NEW d \in Decks, NEW v \in Tracks,
           LoadStart(d, v) \/ LoadLands(d) \/ LoadFails(d)
    PROVE  StemInv'
<1> USE DEF StemInv, RestType, guardVars, workVars, cacheVars, callVars
<1>1. JobsInv' BY JobsIdle DEF LoadStart, LoadLands, LoadFails
<1>2. CASE LoadStart(d, v)
  <2>1. DeckType' BY <1>2 DEF LoadStart, DeckType
  <2>2. CallType' BY <1>2, CancelIs DEF LoadStart, CallType
  <2>3. RestType' BY <1>2 DEF LoadStart, Happens
  <2>4. LoadsKnowTheirDeck'
    <3> SUFFICES ASSUME NEW k \in Cancel(calls, "load", {d}), k.by = "load"
                 PROVE  /\ k.deck \in Decks
                        /\ ~k.stale => loading'[k.deck] = None /\ track'[k.deck] = k.vid
      BY <1>2 DEF LoadStart, LoadsKnowTheirDeck
    <3> DEFINE ds == {d}
    <3> HIDE DEF ds
    <3>0. k \in Cancel(calls, "load", ds) BY DEF ds
    <3>1. PICK c \in calls : /\ k.by = c.by /\ k.deck = c.deck /\ k.vid = c.vid
                             /\ k.stale \/ (k = c /\ ~(c.by = "load" /\ c.deck \in ds))
      BY <3>0, CancelIs
    <3>2. c.by = "load" BY <3>1
    <3> QED BY <1>2, <3>1, <3>2 DEF LoadStart, LoadsKnowTheirDeck, DeckType, ds
  <2> QED BY <1>1, <2>1, <2>2, <2>3, <2>4
<1>3. CASE LoadLands(d)
  <2>0. loading[d] \in Tracks BY <1>3 DEF LoadLands, DeckType
  <2>1. DeckType' BY <1>3, <2>0 DEF LoadLands, DeckType
  <2>s. /\ Spawn(d, loading[d], "load") \in Call
        /\ Spawn(d, loading[d], "load").by = "load"
        /\ Spawn(d, loading[d], "load").deck = d
        /\ Spawn(d, loading[d], "load").vid = loading[d]
    BY <2>0, SpawnIs
  <2>2. calls' = calls \/ calls' = calls \cup {Spawn(d, loading[d], "load")}
    BY <1>3 DEF LoadLands
  <2>3. CallType' BY <1>3, <2>s, <2>2 DEF LoadLands, CallType
  <2>4. RestType' BY <1>3 DEF LoadLands
  <2>5. LoadsKnowTheirDeck'
    <3> SUFFICES ASSUME NEW k \in calls', k.by = "load"
                 PROVE  /\ k.deck \in Decks
                        /\ ~k.stale => loading'[k.deck] = None /\ track'[k.deck] = k.vid
      BY DEF LoadsKnowTheirDeck
    <3>1. loading' = [loading EXCEPT ![d] = None] /\ track' = [track EXCEPT ![d] = loading[d]]
      BY <1>3 DEF LoadLands
    <3>2. CASE k \in calls
      <4>1. k.deck \in Decks /\ (~k.stale => k.deck # d)
        BY <1>3, <3>2 DEF LoadLands, LoadsKnowTheirDeck
      <4> QED BY <3>1, <3>2, <4>1 DEF LoadsKnowTheirDeck, DeckType
    <3>3. CASE k = Spawn(d, loading[d], "load")
      BY <2>s, <3>1, <3>3 DEF DeckType
    <3> QED BY <2>2, <3>2, <3>3
  <2> QED BY <1>1, <2>1, <2>3, <2>4, <2>5
<1>4. CASE LoadFails(d)
  <2>1. DeckType' /\ CallType' /\ RestType' BY <1>4 DEF LoadFails, DeckType, CallType, Happens
  <2>2. LoadsKnowTheirDeck' BY <1>4 DEF LoadFails, DeckType, LoadsKnowTheirDeck
  <2> QED BY <1>1, <2>1, <2>2
<1> QED BY <1>2, <1>3, <1>4

LEMMA SettingKeeps ==
    ASSUME StemInv, NEW m \in Models, SettingChanges(m)
    PROVE  StemInv'
<1> USE DEF StemInv, RestType, guardVars, workVars, cacheVars
<1> DEFINE on == {d \in Decks : shown[d] # None}
           born == IF m = "off" THEN {} ELSE {Spawn(d, shown[d], "setting") : d \in on}
<1>1. JobsInv' BY JobsIdle DEF SettingChanges
<1>2. \A d \in on : shown[d] \in Tracks BY DEF DeckType
<1>3. DeckType' BY <1>2 DEF SettingChanges, DeckType
<1>4. RestType' BY DEF SettingChanges, Happens
<1>5. calls' = Cancel(calls, "setting", Decks) \cup born BY DEF SettingChanges
<1>6. \A k \in born : k \in Call /\ k.by = "setting" BY <1>2, SpawnIs
<1> HIDE DEF born
<1>7. CallType' BY <1>5, <1>6, CancelIs DEF SettingChanges, CallType
<1>8. LoadsKnowTheirDeck'
  <2> SUFFICES ASSUME NEW k \in Cancel(calls, "setting", Decks), k.by = "load"
               PROVE  /\ k.deck \in Decks
                      /\ ~k.stale => loading[k.deck] = None /\ track[k.deck] = k.vid
    BY <1>5, <1>6 DEF SettingChanges, LoadsKnowTheirDeck
  <2> QED BY CancelIs DEF LoadsKnowTheirDeck
<1> QED BY <1>1, <1>3, <1>4, <1>7, <1>8

LEMMA RenderKeeps ==
    ASSUME StemInv, Render
    PROVE  StemInv'
<1> USE DEF StemInv, Render
<1>1. JobsInv' BY JobsIdle
<1>2. DeckType' BY DEF DeckType
<1>3. RestType' BY DEF RestType, workVars, cacheVars, guardVars
<1>4. CallType' /\ LoadsKnowTheirDeck' BY DEF callVars, CallType, LoadsKnowTheirDeck
<1> QED BY <1>1, <1>2, <1>3, <1>4

-----------------------------------------------------------------------------
(* The calls.                                                              *)

\* A deck's stems change, and nothing else about it.
LEMMA DeckKeeps ==
    ASSUME DeckType, NEW d, NEW v \in Tracks,
           ToMix(d) \/ Apply(d, v) \/ UNCHANGED deckVars
    PROVE  DeckType' /\ UNCHANGED <<loading, track>>
BY DEF DeckType, ToMix, Apply, deckVars

LEMMA CallTypeKeeps ==
    ASSUME CallsFollow, reqGuard' = reqGuard, CallType
    PROVE  CallType'
BY DEF CallsFollow, CallType

\* Assembles a step of a call: the jobs, the decks, the calls and the rest.
LEMMA CallDone ==
    ASSUME StemInv, JobsInv', DeckType', UNCHANGED <<loading, track>>, CallsFollow,
           reqGuard' \in [Decks -> Tracks \cup {None}], RestType'
    PROVE  StemInv'
<1>1. LoadsKnowTheirDeck' BY CallsFollowKnow DEF StemInv
<1>2. CallType' BY DEF CallsFollow, CallType
<1> QED BY <1>1, <1>2 DEF StemInv

LEMMA DisarmType ==
    ASSUME RestType, NEW c \in Call, Disarm(c)
    PROVE  armed' \in BOOLEAN /\ blocked' = blocked
BY DEF RestType, Disarm, Call

LEMMA DeriveKeeps ==
    ASSUME StemInv, NEW c \in calls,
           DeriveIdle(c) \/ DeriveLocal(c) \/ DeriveManifest(c) \/ DeriveSettles(c)
    PROVE  StemInv'
<1>0. /\ c \in Call /\ CallType /\ DeckType /\ RestType /\ JobsInv
      /\ reqGuard \in [Decks -> Tracks \cup {None}]
  BY DEF StemInv, CallType
<1>v. c.vid \in Tracks /\ c.guards \in BOOLEAN BY <1>0 DEF Call
<1>1. CASE DeriveIdle(c)
  <2>1. End(c) \/ Goto(c, "local") BY <1>1 DEF DeriveIdle
  <2>2. CallsFollow BY <1>0, <2>1, GotoFollows
  <2>3. JobsInv' BY <1>0, <1>1, JobsIdle DEF DeriveIdle
  <2>4. DeckType' /\ UNCHANGED <<loading, track>> /\ reqGuard' = reqGuard
    BY <1>0, <1>1 DEF DeriveIdle, deckVars, DeckType
  <2>5. RestType' BY <1>0, <1>1 DEF DeriveIdle, RestType, workVars, cacheVars, guardVars
  <2> QED BY <1>0, <2>2, <2>3, <2>4, <2>5, CallDone
<1>2. CASE DeriveLocal(c)
  <2>1. End(c) \/ Goto(c, "manifest") BY <1>2 DEF DeriveLocal
  <2>2. CallsFollow BY <1>0, <2>1, GotoFollows
  <2>3. JobsInv' BY <1>0, <1>2, JobsIdle DEF DeriveLocal
  <2>4. Apply(c.deck, c.vid) \/ UNCHANGED deckVars BY <1>2 DEF DeriveLocal
  <2>5. DeckType' /\ UNCHANGED <<loading, track>> BY <1>0, <1>v, <2>4, DeckKeeps
  <2>6. RestType' /\ reqGuard' = reqGuard
    BY <1>0, <1>2 DEF DeriveLocal, RestType, workVars, cacheVars, guardVars, Happens
  <2> QED BY <1>0, <2>2, <2>3, <2>5, <2>6, CallDone
<1>3. CASE DeriveManifest(c)
  <2>0. PICK cached \in BOOLEAN :
          /\ spent' \in {spent, spent + 1}
          /\ \/ /\ End(c) /\ UNCHANGED <<jobVars, armed>>
                /\ UNCHANGED deckVars \/ ToMix(c.deck)
             \/ /\ armed' = (armed \/ ~cached) /\ UNCHANGED deckVars
                /\ \/ /\ stemJobs[c.vid] # None
                      /\ Become(c, [[c EXCEPT !.guards = ~cached]
                                      EXCEPT !.pc = "await", !.job = stemJobs[c.vid]])
                      /\ UNCHANGED jobVars
                   \/ Ask(c, [c EXCEPT !.guards = ~cached], FALSE)
    BY <1>3, Zenon DEF DeriveManifest, Happens
  <2> DEFINE g == [c EXCEPT !.guards = ~cached]
  <2>1. g \in Call /\ Follows(g, c) BY <1>0, GuardPatch
  <2> HIDE DEF g
  <2>2. \A j \in JobIds : LET n == [g EXCEPT !.pc = "await", !.job = j]
                          IN  n \in Call /\ Follows(n, c)
    BY <2>1, AwaitPatch DEF Follows
  <2>3. JobsInv' /\ CallsFollow
    <3>1. CASE End(c) /\ UNCHANGED jobVars
      BY <1>0, <3>1, EndFollows, JobsIdle
    <3>2. CASE stemJobs[c.vid] # None /\ UNCHANGED jobVars
               /\ Become(c, [g EXCEPT !.pc = "await", !.job = stemJobs[c.vid]])
      <4>1. stemJobs[c.vid] \in JobIds BY <1>0, <1>v, <3>2 DEF JobsInv, JobType
      <4>2. CallsFollow BY <1>0, <2>2, <3>2, <4>1, BecomeFollows DEF Become
      <4> QED BY <1>0, <3>2, <4>2, JobsIdle
    <3>3. CASE Ask(c, g, FALSE)
      <4>1. JobsInv' /\ \E j \in JobIds : calls' = (calls \ {c}) \cup {[g EXCEPT !.pc = "await", !.job = j]}
        BY <1>0, <1>v, <3>3, AskKeeps
      <4> QED BY <1>0, <2>2, <4>1, BecomeFollows
    <3> QED BY <2>0, <3>1, <3>2, <3>3 DEF g
  <2>4. DeckType' /\ UNCHANGED <<loading, track>>
    BY <1>0, <1>v, <2>0, DeckKeeps
  <2>5. armed' \in BOOLEAN BY <1>0, <2>0 DEF RestType
  <2>6. RestType' /\ reqGuard' = reqGuard
    <3>1. UNCHANGED <<model, reqGuard, holds, workVars, cacheVars, authority, blocked>>
      BY <1>3 DEF DeriveManifest
    <3> QED BY <1>0, <2>0, <2>5, <3>1 DEF RestType, workVars, cacheVars
  <2> QED BY <1>0, <2>3, <2>4, <2>6, CallDone
<1>4. CASE DeriveSettles(c)
  <2>1. JobsInv' /\ End(c) BY <1>0, <1>4, FinishKeeps DEF DeriveSettles, Finish
  <2>2. CallsFollow BY <1>0, <2>1, EndFollows
  <2>3. DeckType' /\ UNCHANGED <<loading, track>>
    BY <1>0, <1>v, <1>4, DeckKeeps DEF DeriveSettles
  <2>4. armed' \in BOOLEAN /\ blocked' = blocked BY <1>0, <1>4, DisarmType DEF DeriveSettles
  <2>5. RestType' /\ reqGuard' = reqGuard
    BY <1>0, <1>4, <2>4 DEF DeriveSettles, RestType, workVars, cacheVars
  <2> QED BY <1>0, <2>1, <2>2, <2>3, <2>5, CallDone
<1> QED BY <1>1, <1>2, <1>3, <1>4

LEMMA OtherCallsKeep ==
    ASSUME StemInv, NEW c \in calls,
           ForceSettles(c) \/ WarmManifest(c) \/ WarmDecode(c) \/ WarmSettles(c)
    PROVE  StemInv'
<1>0. /\ c \in Call /\ CallType /\ DeckType /\ RestType /\ JobsInv
      /\ reqGuard \in [Decks -> Tracks \cup {None}]
  BY DEF StemInv, CallType
<1>v. c.vid \in Tracks /\ c.guards \in BOOLEAN BY <1>0 DEF Call
<1>1. CASE ForceSettles(c)
  <2>1. JobsInv' /\ End(c) BY <1>0, <1>1, FinishKeeps DEF ForceSettles, Finish
  <2>2. CallsFollow BY <1>0, <2>1, EndFollows
  <2>3. DeckType' /\ UNCHANGED <<loading, track>>
    BY <1>0, <1>v, <1>1 DEF ForceSettles, DeckType
  <2>4. reqGuard' \in [Decks -> Tracks \cup {None}] BY <1>0, <1>1 DEF ForceSettles
  <2>5. armed' \in BOOLEAN /\ blocked' = blocked BY <1>0, <1>1, DisarmType DEF ForceSettles
  <2>6. RestType' BY <1>0, <1>1, <2>5 DEF ForceSettles, RestType, workVars, cacheVars
  <2> QED BY <2>1, <2>2, <2>3, <2>4, <2>6, CallDone
<1>2. CASE WarmManifest(c)
  <2>1. End(c) \/ Goto(c, "decode") BY <1>2 DEF WarmManifest
  <2>2. CallsFollow BY <1>0, <2>1, GotoFollows
  <2>3. JobsInv' BY <1>0, <1>2, JobsIdle DEF WarmManifest
  <2>4. DeckType' /\ UNCHANGED <<loading, track>> /\ reqGuard' = reqGuard
    BY <1>0, <1>2 DEF WarmManifest, deckVars, DeckType
  <2>5. RestType' BY <1>0, <1>2 DEF WarmManifest, RestType, workVars, cacheVars, guardVars
  <2> QED BY <1>0, <2>2, <2>3, <2>4, <2>5, CallDone
<1>3. CASE WarmDecode(c)
  <2>1. JobsInv' /\ CallsFollow
    <3>1. CASE End(c) /\ UNCHANGED jobVars BY <1>0, <3>1, EndFollows, JobsIdle
    <3>2. CASE Ask(c, c, FALSE)
      <4>1. JobsInv' /\ \E j \in JobIds : calls' = (calls \ {c}) \cup {[c EXCEPT !.pc = "await", !.job = j]}
        BY <1>0, <1>v, <3>2, AskKeeps
      <4>2. \A j \in JobIds : /\ [c EXCEPT !.pc = "await", !.job = j] \in Call
                              /\ Follows([c EXCEPT !.pc = "await", !.job = j], c)
        BY <1>0, AwaitPatch
      <4> QED BY <1>0, <4>1, <4>2, BecomeFollows
    <3> QED BY <1>3, <3>1, <3>2 DEF WarmDecode
  <2>2. DeckType' /\ UNCHANGED <<loading, track>> /\ reqGuard' = reqGuard
    BY <1>0, <1>3 DEF WarmDecode, deckVars, DeckType
  <2>3. RestType'
    <3>1. spent' \in {spent, spent + 1} BY <1>3, Zenon DEF WarmDecode, Happens
    <3>2. UNCHANGED <<model, holds, workVars, cacheVars, authority, guardVars>>
      BY <1>3 DEF WarmDecode
    <3> QED BY <1>0, <3>1, <3>2 DEF RestType, workVars, cacheVars, guardVars
  <2> QED BY <1>0, <2>1, <2>2, <2>3, CallDone
<1>4. CASE WarmSettles(c)
  <2>1. JobsInv' /\ End(c) BY <1>0, <1>4, FinishKeeps DEF WarmSettles, Finish
  <2>2. CallsFollow BY <1>0, <2>1, EndFollows
  <2>3. DeckType' /\ UNCHANGED <<loading, track>> /\ reqGuard' = reqGuard
    BY <1>0, <1>4 DEF WarmSettles, deckVars, DeckType
  <2>4. RestType' BY <1>0, <1>4 DEF WarmSettles, RestType, workVars, cacheVars, guardVars
  <2> QED BY <1>0, <2>1, <2>2, <2>3, <2>4, CallDone
<1> QED BY <1>1, <1>2, <1>3, <1>4

LEMMA ForcedFollows ==
    ASSUME CallType, NEW c \in Call, c.by # "load", NEW j \in JobIds,
           calls' = (calls \ {c}) \cup {[c EXCEPT !.pc = "await", !.job = j]}
    PROVE  CallsFollow
<1> DEFINE k == [c EXCEPT !.pc = "await", !.job = j]
<1>1. k \in Call /\ k.by = c.by /\ calls' = (calls \ {c}) \cup {k}
  BY AwaitPatch DEF Follows
<1> HIDE DEF k
<1> QED BY <1>1 DEF CallsFollow, CallType, Follows

LEMMA ForceBegins ==
    ASSUME StemInv, NEW d \in Decks, NEW by \in {"reanalyze", "request"}, ForceSeparate(d, by),
           spent' = spent + 1,
           reqGuard' = reqGuard \/ reqGuard' = [reqGuard EXCEPT ![d] = shown[d]]
    PROVE  StemInv'
<1> DEFINE s == Spawn(d, shown[d], by)
           c == [s EXCEPT !.guards = TRUE]
<1>0. CallType /\ DeckType /\ RestType /\ JobsInv BY DEF StemInv
<1>1. shown[d] \in Tracks BY <1>0 DEF ForceSeparate, DeckType
<1>2. s \in Call /\ s.by = by /\ s.vid = shown[d] BY <1>1, SpawnIs
<1>3. /\ armed' = TRUE /\ Ask(c, c, by = "reanalyze")
      /\ UNCHANGED <<deckVars, model, holds, workVars, cacheVars, authority, blocked>>
  BY <1>0, Zenon DEF ForceSeparate
<1> HIDE DEF s
<1>4. c \in Call /\ c.by = by /\ c.vid = shown[d] BY <1>2, GuardPatch DEF Follows
<1> HIDE DEF c
<1>5. Ask(c, c, TRUE) \/ Ask(c, c, FALSE)
  <2>1. CASE by = "reanalyze"
    <3>1. (by = "reanalyze") = TRUE BY <2>1
    <3> QED BY <1>3, <3>1, Zenon
  <2>2. CASE by # "reanalyze"
    <3>1. (by = "reanalyze") = FALSE BY <2>2
    <3> QED BY <1>3, <3>1, Zenon
  <2> QED BY <2>1, <2>2
<1>6. /\ JobsInv'
      /\ \E j \in JobIds : calls' = (calls \ {c}) \cup {[c EXCEPT !.pc = "await", !.job = j]}
  <2>1. c.vid \in Tracks BY <1>1, <1>4
  <2>2. CASE Ask(c, c, TRUE) BY <1>0, <2>1, <2>2, AskKeeps
  <2>3. CASE Ask(c, c, FALSE) BY <1>0, <2>1, <2>3, AskKeeps
  <2> QED BY <1>5, <2>2, <2>3
<1>7. CallsFollow BY <1>0, <1>4, <1>6, ForcedFollows
<1>8. DeckType' /\ UNCHANGED <<loading, track>> BY <1>0, <1>3 DEF deckVars, DeckType
<1>9. reqGuard' \in [Decks -> Tracks \cup {None}] BY <1>0, <1>1 DEF CallType
<1>10. RestType' BY <1>0, <1>3 DEF RestType, workVars, cacheVars
<1> QED BY <1>6, <1>7, <1>8, <1>9, <1>10, CallDone

LEMMA ForceKeeps ==
    ASSUME StemInv, NEW d \in Decks, Reanalyze(d) \/ Request(d)
    PROVE  StemInv'
<1>1. CASE Reanalyze(d)
  <2>1. ForceSeparate(d, "reanalyze") /\ spent' = spent + 1 /\ reqGuard' = reqGuard
    BY <1>1 DEF Reanalyze, Happens
  <2> QED BY <2>1, ForceBegins
<1>2. CASE Request(d)
  <2>1. /\ ForceSeparate(d, "request") /\ spent' = spent + 1
        /\ reqGuard' = [reqGuard EXCEPT ![d] = shown[d]]
    BY <1>2 DEF Request, Happens
  <2> QED BY <2>1, ForceBegins
<1> QED BY <1>1, <1>2

\* Steps that leave the decks and the calls alone.
LEMMA RestDone ==
    ASSUME StemInv, JobsInv', UNCHANGED <<deckVars, callVars>>, RestType'
    PROVE  StemInv'
BY DEF StemInv, DeckType, CallType, LoadsKnowTheirDeck, deckVars, callVars

LEMMA WarmStartKeeps ==
    ASSUME StemInv, NEW v \in Tracks, WarmStart(v)
    PROVE  StemInv'
<1> DEFINE s == Spawn(None, v, "warm")
           n == [s EXCEPT !.pc = "manifest"]
<1>0. CallType /\ DeckType /\ RestType /\ JobsInv BY DEF StemInv
<1>1. s \in Call /\ s.by = "warm" BY SpawnIs
<1>2. calls' = calls \cup {n} BY DEF WarmStart
<1> HIDE DEF s
<1>3. n \in Call /\ n.by = "warm" BY <1>1, CallPatch DEF Follows
<1> HIDE DEF n
<1>4. CallsFollow BY <1>0, <1>2, <1>3 DEF CallsFollow, CallType, Follows
<1>5. JobsInv' BY <1>0, JobsIdle DEF WarmStart
<1>6. DeckType' /\ UNCHANGED <<loading, track>> /\ reqGuard' \in [Decks -> Tracks \cup {None}]
  BY <1>0 DEF WarmStart, deckVars, DeckType, CallType
<1>7. RestType' BY <1>0 DEF WarmStart, RestType, workVars, cacheVars, guardVars, Happens
<1> QED BY <1>4, <1>5, <1>6, <1>7, CallDone

-----------------------------------------------------------------------------
(* The jobs and the worker.                                                *)

LEMMA JobStepKeeps ==
    ASSUME StemInv, NEW j \in JobIds, JobStep(j)
    PROVE  StemInv'
<1>0. RestType /\ JobsInv BY DEF StemInv
<1>1. UNCHANGED <<deckVars, callVars>>
  BY DEF JobStep, JobProbe, JobDownload, WorkerDies, ModelLoads, ModelFails,
         SeparationDone, SeparationFails
<1>2. JobsInv'
  <2>0. "ok" \in Settled /\ "failed" \in Settled BY DEF Settled
  <2>1. CASE JobProbe(j)
    <3>1. \/ /\ jobs' = [jobs EXCEPT ![j].phase = "download"]
             /\ UNCHANGED <<gpu, inflight, stemJobs, reanalyzed>>
          \/ JobGate(j)
      BY <2>1, Zenon DEF JobProbe
    <3>2. jobs[j].phase = "probe" BY <2>1 DEF JobProbe
    <3> QED BY <1>0, <3>1, <3>2, DownloadKeeps, GateKeeps
  <2>2. CASE JobDownload(j)
    <3>1. Settle(j, "ok") \/ JobGate(j) BY <2>2, Zenon DEF JobDownload
    <3>2. jobs[j].phase = "download" BY <2>2 DEF JobDownload
    <3> QED BY <1>0, <2>0, <3>1, <3>2, SettleKeeps, GateKeeps
  <2>3. CASE ModelLoads(j) BY <1>0, <2>3, JobsIdle DEF ModelLoads
  <2>4. CASE WorkerDies(j) \/ ModelFails(j) \/ SeparationDone(j) \/ SeparationFails(j)
    <3>1. jobs[j].phase = "running" /\ (Settle(j, "ok") \/ Settle(j, "failed"))
      BY <2>4 DEF WorkerDies, ModelFails, SeparationDone, SeparationFails, Running
    <3> QED BY <1>0, <2>0, <3>1, SettleKeeps
  <2> QED BY <2>1, <2>2, <2>3, <2>4 DEF JobStep
<1>3. RestType'
  <2>1. spent' \in {spent, spent + 1}
    BY Zenon DEF JobStep, JobProbe, JobDownload, WorkerDies, ModelLoads, ModelFails,
       SeparationDone, SeparationFails, Happens
  <2>2. /\ worker' \in {worker, "dead"} /\ session' \in {session, "ready", "broken"}
        /\ UNCHANGED <<model, holds, disk, r2, authority, armed, blocked>>
    BY DEF JobStep, JobProbe, JobDownload, WorkerDies, ModelLoads, ModelFails,
       SeparationDone, SeparationFails, workVars, cacheVars, guardVars
  <2>3. saving' \in {saving, saving \cup {<<jobs[j].vid, "local">>},
                     saving \cup {<<jobs[j].vid, "share">>}}
    BY DEF JobStep, JobProbe, JobDownload, WorkerDies, ModelLoads, ModelFails,
       SeparationDone, SeparationFails, cacheVars
  <2>4. saving' # saving => jobs[j].phase \in Active
    BY DEF JobStep, JobProbe, JobDownload, WorkerDies, ModelLoads, ModelFails,
       SeparationDone, SeparationFails, cacheVars, Running, Active
  <2>5. saving' # saving => jobs[j].vid \in Tracks
    BY <1>0, <2>4, FreeIsFree DEF JobsInv, JobType, Job
  <2>6. saving' \subseteq Tracks \X {"local", "share", "upload"}
    BY <1>0, <2>3, <2>5 DEF RestType
  <2> QED BY <1>0, <2>1, <2>2, <2>6 DEF RestType
<1> QED BY <1>1, <1>2, <1>3, RestDone

LEMMA WorkerKeeps ==
    ASSUME StemInv, GpuStart \/ WorkerLoads
    PROVE  StemInv'
<1>0. RestType /\ JobsInv BY DEF StemInv
<1>1. JobsInv' BY <1>0, StartKeeps, JobsIdle DEF WorkerLoads
<1>2. UNCHANGED <<deckVars, callVars>> BY DEF GpuStart, WorkerLoads
<1>3. RestType' BY <1>0 DEF GpuStart, WorkerLoads, RestType, workVars, cacheVars, guardVars
<1> QED BY <1>1, <1>2, <1>3, RestDone

-----------------------------------------------------------------------------
(* The surroundings.                                                       *)

LEMMA PersistKeeps ==
    ASSUME StemInv, NEW p \in saving, Persist(p[1], p[2])
    PROVE  StemInv'
<1>0. RestType /\ JobsInv BY DEF StemInv
<1>1. JobsInv' /\ UNCHANGED <<deckVars, callVars>> BY <1>0, JobsIdle DEF Persist
<1>2. p[1] \in Tracks BY <1>0 DEF RestType
<1>3. spent' \in {spent, spent + 1} BY Zenon DEF Persist, Happens
<1>4. disk' \in {disk, disk \cup {p[1]}} /\ r2' \in {r2, r2 \cup {p[1]}} BY DEF Persist
<1>5. saving' \subseteq saving \cup {<<p[1], "upload">>} BY DEF Persist
<1>6. UNCHANGED <<model, holds, workVars, authority, guardVars>> BY DEF Persist
<1>7. RestType' BY <1>0, <1>2, <1>3, <1>4, <1>5, <1>6 DEF RestType, workVars, guardVars
<1> QED BY <1>1, <1>7, RestDone

LEMMA SurroundingsKeep ==
    ASSUME StemInv,
           \/ \E v \in Tracks : OthersShare(v)
           \/ Hold \/ Release \/ AnchorMoves \/ Unblock
    PROVE  StemInv'
<1>0. RestType /\ JobsInv BY DEF StemInv
<1>1. JobsInv' /\ UNCHANGED <<deckVars, callVars>>
  BY <1>0, JobsIdle DEF OthersShare, Hold, Release, AnchorMoves, Unblock
<1>2. /\ authority' \in BOOLEAN /\ armed' \in BOOLEAN /\ blocked' \in BOOLEAN
  BY <1>0 DEF RestType, OthersShare, Hold, Release, AnchorMoves, Unblock, guardVars
<1>3. RestType'
  BY <1>0, <1>2 DEF RestType, OthersShare, Hold, Release, AnchorMoves, Unblock,
     guardVars, workVars, cacheVars, Happens
<1> QED BY <1>1, <1>3, RestDone

LEMMA Blank ==
    ASSUME reanalyzed \subseteq Tracks, UNCHANGED reanalyzed,
           jobs' = [j \in JobIds |-> FreeJob], gpu' = <<>>,
           inflight' = [v \in Tracks |-> None], stemJobs' = [v \in Tracks |-> None]
    PROVE  JobsInv'
<1>1. \A j \in JobIds : jobs'[j] = FreeJob OBVIOUS
<1>2. FreeJob.phase \notin Active /\ FreeJob.phase \notin {"queued", "running"}
  BY DEF FreeJob, Active
<1> HIDE DEF FreeJob
<1>3. JobType' BY DEF JobType
<1>4. SharedJobsRun' BY DEF SharedJobsRun
<1>5. JobsAreShared' BY <1>1, <1>2 DEF JobsAreShared, ActiveJobs
<1>6. OneHeavyJob' BY <1>1, <1>2 DEF OneHeavyJob
<1> QED BY <1>3, <1>4, <1>5, <1>6 DEF JobsInv

LEMMA CrashKeeps ==
    ASSUME StemInv, TabCrash
    PROVE  StemInv'
<1>0. RestType /\ JobsInv BY DEF StemInv
<1>1. JobsInv' BY <1>0, Blank DEF TabCrash, JobsInv, JobType
<1>2. DeckType' /\ CallType' /\ LoadsKnowTheirDeck'
  BY DEF TabCrash, DeckType, CallType, LoadsKnowTheirDeck
<1>3. armed' \in BOOLEAN /\ blocked' \in BOOLEAN BY <1>0 DEF TabCrash, RestType
<1>4. RestType' BY <1>0, <1>3 DEF TabCrash, RestType, Happens
<1> QED BY <1>1, <1>2, <1>4 DEF StemInv

-----------------------------------------------------------------------------
(* The theorems.                                                           *)

LEMMA StemStart == Init => StemInv
<1> SUFFICES ASSUME Init PROVE StemInv OBVIOUS
<1>1. \A j \in JobIds : jobs[j] = FreeJob BY DEF Init
<1>2. FreeJob.phase \notin Active /\ FreeJob.phase \notin {"queued", "running"}
  BY DEF FreeJob, Active
<1> HIDE DEF FreeJob
<1>3. JobType BY DEF Init, JobType
<1>4. SharedJobsRun BY DEF Init, SharedJobsRun
<1>5. JobsAreShared BY <1>1, <1>2 DEF JobsAreShared, ActiveJobs
<1>6. OneHeavyJob BY <1>1, <1>2 DEF Init, OneHeavyJob
<1>7. DeckType /\ CallType /\ LoadsKnowTheirDeck
  BY DEF Init, DeckType, CallType, LoadsKnowTheirDeck
<1>8. RestType BY DEF Init, RestType, Models
<1> QED BY <1>3, <1>4, <1>5, <1>6, <1>7, <1>8 DEF StemInv, JobsInv

LEMMA StemStep == StemInv /\ [Next]_vars => StemInv'
<1> SUFFICES ASSUME StemInv, [Next]_vars PROVE StemInv' OBVIOUS
<1>1. ASSUME NEW d \in Decks, NEW v \in Tracks, LoadStart(d, v) PROVE StemInv'
  BY <1>1, UserKeeps
<1>2. ASSUME NEW d \in Decks, LoadLands(d) \/ LoadFails(d) PROVE StemInv'
  <2>1. loading[d] \in Tracks
    BY <1>2 DEF StemInv, DeckType, LoadLands, LoadFails
  <2> QED BY <1>2, <2>1, UserKeeps
<1>3. ASSUME NEW d \in Decks, Reanalyze(d) \/ Request(d) PROVE StemInv'
  BY <1>3, ForceKeeps
<1>4. ASSUME NEW m \in Models, SettingChanges(m) PROVE StemInv' BY <1>4, SettingKeeps
<1>5. ASSUME NEW v \in Tracks, WarmStart(v) PROVE StemInv' BY <1>5, WarmStartKeeps
<1>6. ASSUME NEW c \in calls, CallStep(c) PROVE StemInv'
  BY <1>6, DeriveKeeps, OtherCallsKeep DEF CallStep
<1>7. ASSUME NEW j \in JobIds, JobStep(j) PROVE StemInv' BY <1>7, JobStepKeeps
<1>8. CASE GpuStart \/ WorkerLoads BY <1>8, WorkerKeeps
<1>9. ASSUME NEW p \in saving, Persist(p[1], p[2]) PROVE StemInv' BY <1>9, PersistKeeps
<1>10. CASE \/ \E v \in Tracks : OthersShare(v)
            \/ Hold \/ Release \/ AnchorMoves \/ Unblock
  BY <1>10, SurroundingsKeep
<1>11. CASE TabCrash BY <1>11, CrashKeeps
<1>12. CASE UNCHANGED vars
  <2>1. JobsInv' BY <1>12, JobsIdle DEF vars, StemInv
  <2>2. RestType' BY <1>12 DEF vars, StemInv, RestType, workVars, cacheVars, guardVars
  <2> QED BY <1>12, <2>1, <2>2, RestDone DEF vars
<1>13. CASE Render BY <1>13, RenderKeeps
<1> QED
  BY <1>1, <1>2, <1>3, <1>4, <1>5, <1>6, <1>7, <1>8, <1>9, <1>10, <1>11, <1>12, <1>13 DEF Next

LEMMA StemAlways == Spec => []StemInv
BY StemStart, StemStep, PTL DEF Spec

\* Every variable keeps its shape: in particular the count of the holds on the
\* quiet window never falls below zero.
THEOREM StemTypeCorrect == Spec => []TypeOK
<1>1. StemInv => TypeOK BY TypeParts DEF StemInv, JobsInv
<1> QED BY <1>1, StemAlways, PTL

\* Whatever was asked for, forced, failed or crashed: a promise that a caller
\* can find in a map is one that is still to settle, for its own track.
THEOREM SharedJobsAreAlive == Spec => []SharedJobsRun
<1>1. StemInv => SharedJobsRun BY DEF StemInv, JobsInv
<1> QED BY <1>1, StemAlways, PTL

\* However many decks, requests and warm-ups want a track, one job serves them.
THEOREM OneJobServesATrack == Spec => []OneJobPerTrack
<1>1. StemInv => OneJobPerTrack
  <2> SUFFICES ASSUME StemInv, NEW v \in Tracks \ reanalyzed
               PROVE  Cardinality(ActiveJobs(v)) <= 1
    BY DEF OneJobPerTrack
  <2>1. \A j, k \in ActiveJobs(v) : j = k
    BY Zenon DEF StemInv, JobsInv, JobsAreShared
  <2>2. CASE ActiveJobs(v) = {} BY <2>2, FS_EmptySet
  <2>3. ASSUME NEW j \in ActiveJobs(v) PROVE Cardinality(ActiveJobs(v)) <= 1
    <3>1. ActiveJobs(v) = {j} BY <2>1, <2>3
    <3>2. Cardinality({j}) = 1 BY FS_Singleton
    <3>3. Cardinality(ActiveJobs(v)) = 1 BY <3>1, <3>2, Zenon
    <3> QED BY <3>3
  <2> QED BY <2>2, <2>3
<1> QED BY <1>1, StemAlways, PTL

\* Never two separations on the GPU, and no job is lost from the chain or in it
\* twice, through failures, crashes and holds.
THEOREM TheGpuRunsOneJob == Spec => []OneHeavyJob
<1>1. StemInv => OneHeavyJob BY DEF StemInv, JobsInv
<1> QED BY <1>1, StemAlways, PTL

\* A deck that moved on while its stems were on their way does not get them, unless
\* a change of the setting asked, or the set was forced and the screen is behind.
THEOREM SetsFindTheirDeck == Spec => SetsLandOnTheirTrack
<1> DEFINE Lands(d) == \/ stems'[d] = track[d]
                       \/ \E c \in calls \ calls' :
                            /\ c.deck = d
                            /\ \/ c.by = "setting"
                               \/ c.by \in {"reanalyze", "request"} /\ stems'[d] = shown[d]
           Right == \A d \in Decks : stems'[d] \notin {None, stems[d]} => Lands(d)
<1>1. StemInv /\ [Next]_vars => [Right]_vars
  <2> SUFFICES ASSUME StemInv, Next, NEW d \in Decks, stems'[d] \notin {None, stems[d]}
               PROVE  Lands(d)
    OBVIOUS
  <2> HIDE DEF Lands
  <2>0. stems \in [Decks -> Tracks \cup {None}] /\ calls \subseteq Call
    BY DEF StemInv, DeckType, CallType
  <2>1. \E c \in calls : DeriveLocal(c) \/ DeriveSettles(c) \/ ForceSettles(c)
    <3>1. ASSUME stems' = stems PROVE FALSE BY <3>1
    <3>3. ASSUME NEW i \in Decks, LoadLands(i) \/ LoadFails(i) \/ Reanalyze(i) \/ Request(i)
                                 \/ (\E v \in Tracks : LoadStart(i, v))
          PROVE  FALSE
      BY <2>0, <3>3 DEF LoadStart, LoadLands, LoadFails, Reanalyze, Request, ForceSeparate, deckVars
    <3>4. ASSUME NEW m \in Models, SettingChanges(m) PROVE FALSE
      BY <2>0, <3>4 DEF SettingChanges
    <3>5. ASSUME NEW c \in calls, CallStep(c),
                 ~(DeriveLocal(c) \/ DeriveSettles(c) \/ ForceSettles(c))
          PROVE  FALSE
      <4>1. UNCHANGED deckVars \/ ToMix(c.deck)
        BY <3>5 DEF CallStep, DeriveIdle, DeriveManifest, WarmManifest, WarmDecode, WarmSettles
      <4> QED BY <2>0, <4>1 DEF deckVars, ToMix
    <3>6. ASSUME NEW j \in JobIds, JobStep(j) PROVE FALSE
      BY <3>1, <3>6 DEF JobStep, JobProbe, JobDownload, WorkerDies, ModelLoads, ModelFails,
         SeparationDone, SeparationFails, deckVars
    <3>7. CASE TabCrash BY <2>0, <3>7 DEF TabCrash
    <3>8. CASE \/ \E v \in Tracks : WarmStart(v) \/ OthersShare(v)
               \/ GpuStart \/ WorkerLoads \/ Render \/ \E p \in saving : Persist(p[1], p[2])
               \/ Hold \/ Release \/ AnchorMoves \/ Unblock
      BY <3>1, <3>8 DEF WarmStart, OthersShare, GpuStart, Render, WorkerLoads, Persist, Hold, Release,
         AnchorMoves, Unblock, deckVars
    <3> QED BY <3>3, <3>4, <3>5, <3>6, <3>7, <3>8 DEF Next
  <2>2. PICK c \in calls : DeriveLocal(c) \/ DeriveSettles(c) \/ ForceSettles(c) BY <2>1
  <2>3. CASE ForceSettles(c)
    <3>1. c.by \in {"reanalyze", "request"} /\ End(c) BY <2>3 DEF ForceSettles, Finish
    <3>2. d = c.deck /\ stems'[d] = c.vid /\ shown[d] = c.vid
      BY <2>0, <2>3 DEF ForceSettles
    <3> QED BY <3>1, <3>2 DEF End, Lands
  <2>4. CASE DeriveLocal(c) \/ DeriveSettles(c)
    <3>1. ~c.stale /\ Apply(c.deck, c.vid) /\ End(c) /\ IsDerive(c)
      BY <2>0, <2>4 DEF DeriveLocal, DeriveSettles, ToMix, deckVars, Finish
    <3>2. d = c.deck /\ stems'[d] = c.vid BY <2>0, <3>1 DEF Apply
    <3>3. CASE c.by = "load"
      BY <3>1, <3>2, <3>3 DEF StemInv, LoadsKnowTheirDeck, Lands
    <3>4. CASE c.by = "setting"
      BY <3>1, <3>2, <3>4 DEF End, Lands
    <3> QED BY <3>1, <3>3, <3>4 DEF IsDerive
  <2> QED BY <2>2, <2>3, <2>4
<1> QED BY <1>1, StemAlways, PTL DEF Spec, SetsLandOnTheirTrack
=============================================================================
