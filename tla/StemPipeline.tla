---------------------------- MODULE StemPipeline ----------------------------
(***************************************************************************)
(* How a deck gets its stems on a desktop: loadTrackToDeck and deriveStems *)
(* (App.tsx, App/useStemPipeline.ts), the shared job of loadStems          *)
(* (htl/stems/index.ts), the GPU queue with its quiet window               *)
(* (htl/stems/gpuQueue.ts), the separation worker and the model session it *)
(* caches (separate.ts, separator.worker.ts), and the crash guard          *)
(* (models.ts).                                                            *)
(*                                                                         *)
(* Every `await` of the code is a boundary between two actions.  A call of *)
(* deriveStems, forceSeparate or warmStems is a record in calls; a         *)
(* promise of loadStems is a record in jobs.  One neural model exists, so  *)
(* a cache key `videoId:modelId` is the track.                             *)
(***************************************************************************)
EXTENDS Integers, Sequences, FiniteSets

CONSTANTS Decks, Tracks, None,
          JobIds,   \* slots for the promises in flight
          Kinds,    \* which of the Events may happen,
          Total     \* and how many in all

Events == {"load", "setting", "reanalyze", "request", "warm", "hold",
           "anchor", "share", "fault", "crash"}

ASSUME StemAssumption ==
    /\ None \notin Tracks \cup JobIds
    /\ Kinds \subseteq Events /\ Total \in Nat

VARIABLES
    track,      \* deck -> the track whose buffer it holds
    shown,      \* deck -> latest.current.loaded[id], as of the last render
    loading,    \* deck -> the track its newest load is fetching
    stems,      \* deck -> the track whose stem set it plays, None for the mix
    guard,      \* deck -> deriveGuard: the (track, model) last derived
    loadedKey,  \* deck -> stemLoadedKey
    model,      \* settings.stemModel
    calls,      \* running deriveStems / forceSeparate / warmStems calls
    reqGuard,   \* deck -> reqSepGuard: the track of the newest request
    jobs,       \* promises of loadStems
    inflight,   \* track -> its entry in loadStems' inflight map
    stemJobs,   \* track -> its entry in App's stemJobs map
    gpu,        \* the promise chain of gpuRun, oldest first
    holds,      \* holds on the quiet window
    worker,     \* the separation worker
    session,    \* the model session the worker caches
    saving,     \* persistStems / saveStemsLocal still writing
    disk, r2,   \* tracks with a complete stem set, local and shared
    authority,  \* maySeparate()
    armed, blocked,  \* the crash guard: its flag in localStorage, its verdict
    spent,      \* how many of the Events have happened
    reanalyzed  \* tracks a user has forced a job for (history)

deckVars  == <<track, shown, loading, stems, guard, loadedKey>>
jobVars   == <<jobs, inflight, stemJobs, gpu, reanalyzed>>
workVars  == <<worker, session>>
cacheVars == <<saving, disk, r2>>
guardVars == <<armed, blocked>>
callVars  == <<calls, reqGuard>>
vars == <<deckVars, model, callVars, jobVars, holds, workVars, cacheVars,
          authority, guardVars, spent>>

Models == {"off", "htdemucs"}
Active == {"probe", "download", "queued", "running"}
Settled == {"ok", "failed"}
FreeJob == [phase |-> "free", vid |-> None, forced |-> FALSE]

Job == [phase : Active \cup Settled, vid : Tracks, forced : BOOLEAN]
Call == [pc : {"idle", "local", "manifest", "decode", "await"},
         by : {"load", "setting", "reanalyze", "request", "warm"},
         deck : Decks \cup {None}, vid : Tracks, job : JobIds \cup {None},
         stale : BOOLEAN, guards : BOOLEAN]

TypeOK ==
    /\ track \in [Decks -> Tracks \cup {None}] /\ shown \in [Decks -> Tracks \cup {None}]
    /\ loading \in [Decks -> Tracks \cup {None}]
    /\ stems \in [Decks -> Tracks \cup {None}]
    /\ guard \in [Decks -> (Tracks \X Models) \cup {<<>>}]
    /\ loadedKey \in [Decks -> Tracks \cup {None}]
    /\ model \in Models
    /\ calls \subseteq Call /\ reqGuard \in [Decks -> Tracks \cup {None}]
    /\ jobs \in [JobIds -> Job \cup {FreeJob}]
    /\ inflight \in [Tracks -> JobIds \cup {None}]
    /\ stemJobs \in [Tracks -> JobIds \cup {None}]
    /\ gpu \in Seq(JobIds)
    /\ holds \in Nat
    /\ worker \in {"none", "loading", "up", "dead"}
    /\ session \in {"none", "ready", "broken"}
    /\ saving \subseteq Tracks \X {"local", "share", "upload"}
    /\ disk \subseteq Tracks /\ r2 \subseteq Tracks
    /\ authority \in BOOLEAN /\ armed \in BOOLEAN /\ blocked \in BOOLEAN
    /\ spent \in Nat /\ reanalyzed \subseteq Tracks

Init ==
    /\ track = [d \in Decks |-> None] /\ shown = track
    /\ loading = [d \in Decks |-> None]
    /\ stems = [d \in Decks |-> None] /\ guard = [d \in Decks |-> <<>>]
    /\ loadedKey = [d \in Decks |-> None]
    /\ model = "htdemucs"
    /\ calls = {} /\ reqGuard = [d \in Decks |-> None]
    /\ jobs = [j \in JobIds |-> FreeJob]
    /\ inflight = [v \in Tracks |-> None] /\ stemJobs = [v \in Tracks |-> None]
    /\ gpu = <<>> /\ holds = 0
    /\ worker = "none" /\ session = "none"
    /\ saving = {} /\ disk = {} /\ r2 = {}
    /\ authority = TRUE /\ armed = FALSE /\ blocked = FALSE
    /\ spent = 0 /\ reanalyzed = {}

Happens(e) == e \in Kinds /\ spent < Total /\ spent' = spent + 1

-----------------------------------------------------------------------------
(* Calls.  A load and a setting change run the synchronous prefix of       *)
(* deriveStems themselves: the guard, and the plain mix for model "off".   *)

Spawn(d, v, by) == [pc |-> "idle", by |-> by, deck |-> d, vid |-> v,
                    job |-> None, stale |-> FALSE, guards |-> FALSE]
Cancel(cs, by, ds) ==          \* the calls whose stale() turns true
    {IF c.by = by /\ c.deck \in ds THEN [c EXCEPT !.stale = TRUE] ELSE c : c \in cs}
End(c) == calls' = calls \ {c}
Become(c, cc) == calls' = (calls \ {c}) \cup {cc}
Goto(c, pc) == Become(c, [c EXCEPT !.pc = pc])

\* loadTrackToDeck up to its first await: the newest load owns the deck
LoadStart(d, v) ==
    /\ Happens("load")
    /\ loading' = [loading EXCEPT ![d] = v]
    /\ stems' = [stems EXCEPT ![d] = None]
    /\ guard' = [guard EXCEPT ![d] = <<>>]
    /\ loadedKey' = [loadedKey EXCEPT ![d] = None]
    /\ calls' = Cancel(calls, "load", {d})
    /\ UNCHANGED <<track, shown, model, reqGuard, jobVars, holds, workVars, cacheVars,
                   authority, guardVars>>

\* ... its landing: setBuffer drops the stems, then deriveStems(id, vid, ...);
\* setLoaded shows with the next render
LoadLands(d) ==
    /\ loading[d] # None
    /\ LET v == loading[d]
       IN  /\ track' = [track EXCEPT ![d] = v]
           /\ guard' = [guard EXCEPT ![d] = <<v, model>>]
           /\ calls' = IF guard[d] = <<v, model>> \/ model = "off" THEN calls
                       ELSE calls \cup {Spawn(d, v, "load")}
    /\ stems' = [stems EXCEPT ![d] = None]
    /\ loading' = [loading EXCEPT ![d] = None]
    /\ UNCHANGED <<shown, loadedKey, model, reqGuard, jobVars, holds, workVars, cacheVars,
                   authority, guardVars, spent>>

Render ==
    /\ shown # track /\ shown' = track
    /\ UNCHANGED <<track, loading, stems, guard, loadedKey, model, callVars, jobVars, holds,
                   workVars, cacheVars, authority, guardVars, spent>>

LoadFails(d) ==
    /\ loading[d] # None /\ Happens("fault")
    /\ loading' = [loading EXCEPT ![d] = None]
    /\ UNCHANGED <<track, shown, stems, guard, loadedKey, model, callVars, jobVars,
                   holds, workVars, cacheVars, authority, guardVars>>

\* The effect on [stemModel, autoEnhance]: its own earlier calls are
\* cancelled and every deck that shows a track is derived again.
SettingChanges(m) ==
    /\ Happens("setting") /\ model' = m
    /\ LET on == {d \in Decks : shown[d] # None}
       IN  /\ guard' = [d \in Decks |-> IF d \in on THEN <<shown[d], m>> ELSE guard[d]]
           /\ stems' = [d \in Decks |-> IF d \in on /\ m = "off" THEN None ELSE stems[d]]
           /\ calls' = Cancel(calls, "setting", Decks) \cup
                       IF m = "off" THEN {} ELSE {Spawn(d, shown[d], "setting") : d \in on}
    /\ UNCHANGED <<reqGuard, track, shown, loading, loadedKey, jobVars, holds, workVars,
                   cacheVars, authority, guardVars>>

-----------------------------------------------------------------------------
(* loadStems.  Ask is its synchronous part for the caller c, which goes    *)
(* on as cc and awaits the promise: the job in flight, or a new one.  A     *)
(* forced job skips the cache, and its caller has passed the gates.  A     *)
(* derive and a warm also enter the promise in stemJobs.                   *)

Runs == ~blocked                       \* modelSupport(model) = "runs"
Slot == CHOOSE j \in JobIds : jobs[j].phase = "free"

\* Mutant: only App's own map is shared, a request starts its own job.
AskAlone(c, cc, forced) ==
    LET j == Slot
    IN  /\ \E k \in JobIds : jobs[k].phase = "free"
        /\ jobs' = [jobs EXCEPT ![j] = [phase |-> IF forced THEN "queued" ELSE "probe",
                                        vid |-> c.vid, forced |-> forced]]
        /\ gpu' = IF forced THEN Append(gpu, j) ELSE gpu
        /\ inflight' = [inflight EXCEPT ![c.vid] = j]
        /\ stemJobs' = IF c.by \in {"load", "setting", "warm"}
                       THEN [stemJobs EXCEPT ![c.vid] = j] ELSE stemJobs
        /\ reanalyzed' = IF forced THEN reanalyzed \cup {c.vid} ELSE reanalyzed
        /\ Become(c, [cc EXCEPT !.pc = "await", !.job = j])
Ask(c, cc, forced) ==
    LET v == c.vid
        joins == ~forced /\ inflight[v] # None
        j == IF joins THEN inflight[v] ELSE Slot
    IN  /\ \/ joins /\ UNCHANGED <<jobs, gpu, inflight>>
           \/ /\ ~joins /\ \E k \in JobIds : jobs[k].phase = "free"
              /\ jobs' = [jobs EXCEPT ![j] = [phase |-> IF forced THEN "queued" ELSE "probe",
                                              vid |-> v, forced |-> forced]]
              /\ gpu' = IF forced THEN Append(gpu, j) ELSE gpu
              /\ inflight' = [inflight EXCEPT ![v] = j]
        /\ stemJobs' = IF c.by \in {"load", "setting", "warm"}
                       THEN [stemJobs EXCEPT ![v] = j] ELSE stemJobs
        /\ reanalyzed' = IF forced THEN reanalyzed \cup {v} ELSE reanalyzed
        /\ Become(c, [cc EXCEPT !.pc = "await", !.job = j])

\* what j's end leaves of the chain
Released(j) == IF gpu # <<>> /\ Head(gpu) = j THEN Tail(gpu) ELSE gpu

\* Mutants: a failed job stays in the map of loadStems; a failed job never
\* lets the next one of the chain start.
SettleOk(j, how) ==
    /\ jobs' = [jobs EXCEPT ![j].phase = how]
    /\ gpu' = Released(j)
    /\ inflight' = [v \in Tracks |-> IF inflight[v] = j /\ how = "ok" THEN None ELSE inflight[v]]
    /\ stemJobs' = [v \in Tracks |-> IF stemJobs[v] = j THEN None ELSE stemJobs[v]]
    /\ UNCHANGED reanalyzed
SettleWedged(j, how) ==
    /\ jobs' = [jobs EXCEPT ![j].phase = how]
    /\ gpu' = IF how = "ok" THEN Released(j) ELSE gpu
    /\ inflight' = [v \in Tracks |-> IF inflight[v] = j THEN None ELSE inflight[v]]
    /\ stemJobs' = [v \in Tracks |-> IF stemJobs[v] = j THEN None ELSE stemJobs[v]]
    /\ UNCHANGED reanalyzed

\* Settling a promise clears both maps, each only if the entry is its own; the
\* job that runs is the head of the chain, which goes on to the next.
Settle(j, how) ==
    /\ jobs' = [jobs EXCEPT ![j].phase = how]
    /\ gpu' = Released(j)
    /\ inflight' = [v \in Tracks |-> IF inflight[v] = j THEN None ELSE inflight[v]]
    /\ stemJobs' = [v \in Tracks |-> IF stemJobs[v] = j THEN None ELSE stemJobs[v]]
    /\ UNCHANGED reanalyzed

\* the gates before a separation: authority, then the device
JobGate(j) ==
    \/ /\ authority /\ Runs
       /\ jobs' = [jobs EXCEPT ![j].phase = "queued"]
       /\ gpu' = Append(gpu, j)
       /\ UNCHANGED <<inflight, stemJobs, reanalyzed>>
    \/ ~(authority /\ Runs) /\ Settle(j, "failed")

\* fetchStemManifest: the shared cache has the set, or the job goes on
JobProbe(j) ==
    /\ jobs[j].phase = "probe"
    /\ \/ /\ jobs[j].vid \in r2
          /\ jobs' = [jobs EXCEPT ![j].phase = "download"]
          /\ UNCHANGED <<gpu, inflight, stemJobs, reanalyzed, spent>>
       \/ /\ IF jobs[j].vid \in r2 THEN Happens("fault") ELSE UNCHANGED spent
          /\ JobGate(j)
    /\ UNCHANGED <<deckVars, model, callVars, holds, workVars, cacheVars, authority, guardVars>>

JobDownload(j) ==
    /\ jobs[j].phase = "download"
    /\ \/ /\ Settle(j, "ok")
          /\ saving' = saving \cup {<<jobs[j].vid, "local">>}
          /\ UNCHANGED spent
       \/ Happens("fault") /\ JobGate(j) /\ UNCHANGED saving
    /\ UNCHANGED <<deckVars, model, callVars, holds, workVars, disk, r2, authority, guardVars>>

\* Mutant: no chain, every queued job starts once nothing holds the GPU.
GpuStartAny ==
    \E j \in JobIds :
        /\ jobs[j].phase = "queued" /\ holds = 0
        /\ jobs' = [jobs EXCEPT ![j].phase = "running"]
        /\ worker' = IF worker = "none" THEN "loading" ELSE worker
        /\ UNCHANGED <<deckVars, model, callVars, inflight, stemJobs, gpu, reanalyzed, holds,
                       session, cacheVars, authority, guardVars, spent>>

\* gpuRun: the oldest job of the chain, once no transition holds the GPU;
\* posting it spawns the worker
GpuStart ==
    /\ gpu # <<>> /\ holds = 0
    /\ jobs[Head(gpu)].phase = "queued"
    /\ jobs' = [jobs EXCEPT ![Head(gpu)].phase = "running"]
    /\ worker' = IF worker = "none" THEN "loading" ELSE worker
    /\ UNCHANGED <<deckVars, model, callVars, inflight, stemJobs, gpu, reanalyzed, holds,
                   session, cacheVars, authority, guardVars, spent>>

Running(j) == jobs[j].phase = "running"

WorkerLoads ==
    /\ worker = "loading" /\ worker' = "up"
    /\ UNCHANGED <<deckVars, model, callVars, jobVars, holds, session, cacheVars,
                   authority, guardVars, spent>>

\* worker.onerror: its job is rejected, the dead worker stays the worker
WorkerDies(j) ==
    /\ worker = "loading" /\ Running(j) /\ Happens("fault")
    /\ worker' = "dead" /\ Settle(j, "failed")
    /\ UNCHANGED <<deckVars, model, callVars, holds, session, cacheVars, authority, guardVars>>

\* getSession: the first job fetches the weights, and the outcome is cached
ModelLoads(j) ==
    /\ worker = "up" /\ Running(j) /\ session = "none" /\ session' = "ready"
    /\ UNCHANGED <<deckVars, model, callVars, jobVars, holds, worker, cacheVars,
                   authority, guardVars, spent>>
ModelFails(j) ==
    /\ worker = "up" /\ Running(j)
    /\ \/ session = "none" /\ Happens("fault")
       \/ session = "broken" /\ UNCHANGED spent
    /\ session' = "broken" /\ Settle(j, "failed")
    /\ UNCHANGED <<deckVars, model, callVars, holds, worker, cacheVars, authority, guardVars>>

\* the separation itself; a finished set is persisted in the background
SeparationDone(j) ==
    /\ worker = "up" /\ Running(j) /\ session = "ready"
    /\ Settle(j, "ok")
    /\ saving' = saving \cup {<<jobs[j].vid, "share">>}
    /\ UNCHANGED <<deckVars, model, callVars, holds, workVars, disk, r2, authority,
                   guardVars, spent>>
SeparationFails(j) ==
    /\ worker = "up" /\ Running(j) /\ session = "ready" /\ Happens("fault")
    /\ Settle(j, "failed")
    /\ UNCHANGED <<deckVars, model, callVars, holds, workVars, cacheVars, authority, guardVars>>

\* saveStemsLocal first, then uploadStem; both fail soft
Persist(v, kind) ==
    /\ <<v, kind>> \in saving
    /\ \E well \in BOOLEAN :
          /\ IF well THEN UNCHANGED spent ELSE Happens("fault")
          /\ disk' = IF well /\ kind # "upload" THEN disk \cup {v} ELSE disk
          /\ r2' = IF well /\ kind = "upload" THEN r2 \cup {v} ELSE r2
    /\ saving' = (saving \ {<<v, kind>>}) \cup
                 (IF kind = "share" THEN {<<v, "upload">>} ELSE {})
    /\ UNCHANGED <<deckVars, model, callVars, jobVars, holds, workVars, authority, guardVars>>

-----------------------------------------------------------------------------
(* deriveStems after its first await.                                      *)

IsDerive(c) == c.by \in {"load", "setting"}
Apply(d, v) ==
    /\ stems' = [stems EXCEPT ![d] = v]
    /\ loadedKey' = [loadedKey EXCEPT ![d] = v]
    /\ UNCHANGED <<track, shown, loading, guard>>
ToMix(d) ==
    /\ stems' = [stems EXCEPT ![d] = None]
    /\ UNCHANGED <<track, shown, loading, guard, loadedKey>>

DeriveIdle(c) ==
    /\ IsDerive(c) /\ c.pc = "idle"
    /\ IF c.stale \/ (stems[c.deck] # None /\ loadedKey[c.deck] = c.vid)
       THEN End(c) ELSE Goto(c, "local")
    /\ UNCHANGED <<deckVars, model, reqGuard, jobVars, holds, workVars, cacheVars, authority,
                   guardVars, spent>>

DeriveLocal(c) ==
    /\ IsDerive(c) /\ c.pc = "local"
    /\ \/ /\ c.vid \in disk /\ End(c) /\ UNCHANGED spent
          /\ IF c.stale THEN UNCHANGED deckVars ELSE Apply(c.deck, c.vid)
       \/ /\ IF c.vid \in disk THEN Happens("fault") ELSE UNCHANGED spent
          /\ Goto(c, "manifest") /\ UNCHANGED deckVars
    /\ UNCHANGED <<model, reqGuard, jobVars, holds, workVars, cacheVars, authority, guardVars>>

\* the manifest decides: nothing to do here, download, or separate (armed)
DeriveManifest(c) ==
    /\ IsDerive(c) /\ c.pc = "manifest"
    /\ \E cached \in BOOLEAN :
        /\ cached => c.vid \in r2
        /\ IF c.vid \in r2 /\ ~cached THEN Happens("fault") ELSE UNCHANGED spent
        /\ \/ /\ c.stale /\ End(c) /\ UNCHANGED <<deckVars, jobVars, armed>>
           \/ /\ ~c.stale /\ ~cached /\ ~(Runs /\ authority)
              /\ End(c) /\ ToMix(c.deck) /\ UNCHANGED <<jobVars, armed>>
           \/ /\ ~c.stale /\ (cached \/ (Runs /\ authority))
              /\ armed' = (armed \/ ~cached)
              /\ LET g == [c EXCEPT !.guards = ~cached]
                 IN  IF stemJobs[c.vid] # None
                     THEN Become(c, [g EXCEPT !.pc = "await", !.job = stemJobs[c.vid]]) /\ UNCHANGED jobVars
                     ELSE Ask(c, g, FALSE)
              /\ UNCHANGED deckVars
    /\ UNCHANGED <<model, reqGuard, holds, workVars, cacheVars, authority, blocked>>

Disarm(c) == armed' = (armed /\ ~c.guards) /\ UNCHANGED blocked
Ended(c) == c.pc = "await" /\ jobs[c.job].phase \in Settled
\* the caller is done; a promise that nobody awaits any more is garbage
Finish(c) ==
    /\ End(c)
    /\ jobs' = IF \E k \in calls \ {c} : k.job = c.job THEN jobs
               ELSE [jobs EXCEPT ![c.job] = FreeJob]
    /\ UNCHANGED <<inflight, stemJobs, gpu, reanalyzed>>

\* a failed job sends the deck back to the mix whatever it holds by then
DeriveSettles(c) ==
    /\ IsDerive(c) /\ Ended(c)
    /\ \/ jobs[c.job].phase = "failed" /\ ToMix(c.deck)
       \/ jobs[c.job].phase = "ok" /\ ~c.stale /\ Apply(c.deck, c.vid)
       \/ jobs[c.job].phase = "ok" /\ c.stale /\ UNCHANGED deckVars
    /\ Disarm(c) /\ Finish(c)
    /\ UNCHANGED <<model, reqGuard, holds, workVars, cacheVars, authority, spent>>

-----------------------------------------------------------------------------
(* forceSeparate, for a re-analysis the user asks for and for a request    *)
(* another member of the room sends to the audio host; warmStems.          *)

ForceSeparate(d, by) ==
    LET c == [Spawn(d, shown[d], by) EXCEPT !.guards = TRUE]
    IN  /\ shown[d] # None /\ authority /\ Runs
        /\ armed' = TRUE
        /\ Ask(c, c, by = "reanalyze")
        /\ UNCHANGED <<deckVars, model, holds, workVars, cacheVars, authority, blocked>>

Reanalyze(d) ==
    /\ model = "htdemucs" /\ Happens("reanalyze") /\ ForceSeparate(d, "reanalyze")
    /\ UNCHANGED reqGuard

\* handleStemRequest: a deck that has its stems only streams them, and a
\* request already being worked on is only acknowledged
Request(d) ==
    /\ stems[d] = None /\ Happens("request")
    /\ reqGuard[d] # shown[d]
    /\ reqGuard' = [reqGuard EXCEPT ![d] = shown[d]]
    /\ ForceSeparate(d, "request")

\* Mutant: the set lands without a look at what the deck holds by then.
ForceSettlesBlindly(c) ==
    /\ c.by \in {"reanalyze", "request"} /\ Ended(c)
    /\ stems' = IF jobs[c.job].phase = "ok" THEN [stems EXCEPT ![c.deck] = c.vid] ELSE stems
    /\ reqGuard' = [d \in Decks |->
           IF d = c.deck /\ c.by = "request" /\ reqGuard[d] = c.vid THEN None ELSE reqGuard[d]]
    /\ Disarm(c) /\ Finish(c)
    /\ UNCHANGED <<track, shown, loading, guard, loadedKey, model, holds, workVars, cacheVars,
                   authority, spent>>

\* The check of the deck reads the last render, not the deck.
ForceSettles(c) ==
    /\ c.by \in {"reanalyze", "request"} /\ Ended(c)
    /\ IF jobs[c.job].phase = "ok" /\ shown[c.deck] = c.vid
       THEN stems' = [stems EXCEPT ![c.deck] = c.vid]
       ELSE UNCHANGED stems
    /\ reqGuard' = [d \in Decks |->
           IF d = c.deck /\ c.by = "request" /\ reqGuard[d] = c.vid THEN None ELSE reqGuard[d]]
    /\ Disarm(c) /\ Finish(c)
    /\ UNCHANGED <<track, shown, loading, guard, loadedKey, model, holds, workVars, cacheVars,
                   authority, spent>>

WarmStart(v) ==
    /\ Happens("warm") /\ model = "htdemucs"
    /\ stemJobs[v] = None /\ ~\E c \in calls : c.by = "warm"
    /\ calls' = calls \cup {[Spawn(None, v, "warm") EXCEPT !.pc = "manifest"]}
    /\ UNCHANGED <<deckVars, model, reqGuard, jobVars, holds, workVars, cacheVars, authority, guardVars>>
WarmManifest(c) ==
    /\ c.by = "warm" /\ c.pc = "manifest"
    /\ IF c.vid \in r2 THEN End(c) ELSE Goto(c, "decode")
    /\ UNCHANGED <<deckVars, model, reqGuard, jobVars, holds, workVars, cacheVars, authority,
                   guardVars, spent>>
WarmDecode(c) ==
    /\ c.by = "warm" /\ c.pc = "decode"
    /\ \/ stemJobs[c.vid] # None /\ End(c) /\ UNCHANGED <<jobVars, spent>>
       \/ Happens("fault") /\ End(c) /\ UNCHANGED jobVars
       \/ stemJobs[c.vid] = None /\ Ask(c, c, FALSE) /\ UNCHANGED spent
    /\ UNCHANGED <<deckVars, model, reqGuard, holds, workVars, cacheVars, authority, guardVars>>
WarmSettles(c) ==
    /\ c.by = "warm" /\ Ended(c) /\ Finish(c)
    /\ UNCHANGED <<deckVars, model, reqGuard, holds, workVars, cacheVars, authority,
                   guardVars, spent>>

-----------------------------------------------------------------------------
(* The surroundings: the auto-mixer's quiet window, the room's clock, other*)
(* people's separations, a tab crash and the user's way back from it.      *)

Hold ==
    /\ holds = 0 /\ Happens("hold") /\ holds' = 1
    /\ UNCHANGED <<deckVars, model, callVars, jobVars, workVars, cacheVars, authority, guardVars>>

\* Mutant: the hold of an ended transition may be released again.
ReleaseAgain ==
    /\ holds' = holds - 1
    /\ UNCHANGED <<deckVars, model, callVars, jobVars, workVars, cacheVars, authority,
                   guardVars, spent>>
Release ==
    /\ holds > 0 /\ holds' = holds - 1
    /\ UNCHANGED <<deckVars, model, callVars, jobVars, workVars, cacheVars, authority,
                   guardVars, spent>>
AnchorMoves ==
    /\ Happens("anchor") /\ authority' = ~authority
    /\ UNCHANGED <<deckVars, model, callVars, jobVars, holds, workVars, cacheVars, guardVars>>
OthersShare(v) ==
    /\ v \notin r2 /\ Happens("share") /\ r2' = r2 \cup {v}
    /\ UNCHANGED <<deckVars, model, callVars, jobVars, holds, workVars, saving, disk,
                   authority, guardVars>>

\* a GPU crash takes the tab; the next boot reads the flag it left armed
TabCrash ==
    /\ \E j \in JobIds : Running(j)
    /\ Happens("crash")
    /\ track' = [d \in Decks |-> None] /\ shown' = track'
    /\ loading' = [d \in Decks |-> None]
    /\ stems' = [d \in Decks |-> None] /\ guard' = [d \in Decks |-> <<>>]
    /\ loadedKey' = [d \in Decks |-> None]
    /\ calls' = {} /\ reqGuard' = [d \in Decks |-> None]
    /\ jobs' = [j \in JobIds |-> FreeJob] /\ gpu' = <<>>
    /\ inflight' = [v \in Tracks |-> None] /\ stemJobs' = [v \in Tracks |-> None]
    /\ holds' = 0 /\ worker' = "none" /\ session' = "none" /\ saving' = {}
    /\ blocked' = (blocked \/ armed) /\ armed' = FALSE
    /\ UNCHANGED <<model, reanalyzed, disk, r2, authority>>
Unblock ==
    /\ blocked /\ blocked' = FALSE /\ armed' = FALSE
    /\ UNCHANGED <<deckVars, model, callVars, jobVars, holds, workVars, cacheVars,
                   authority, spent>>

-----------------------------------------------------------------------------
CallStep(c) ==
    \/ DeriveIdle(c) \/ DeriveLocal(c) \/ DeriveManifest(c) \/ DeriveSettles(c)
    \/ ForceSettles(c) \/ WarmManifest(c) \/ WarmDecode(c) \/ WarmSettles(c)
JobStep(j) ==
    \/ JobProbe(j) \/ JobDownload(j) \/ WorkerDies(j) \/ ModelLoads(j) \/ ModelFails(j)
    \/ SeparationDone(j) \/ SeparationFails(j)

Next ==
    \/ \E d \in Decks, v \in Tracks : LoadStart(d, v)
    \/ \E d \in Decks : LoadLands(d) \/ LoadFails(d) \/ Reanalyze(d) \/ Request(d)
    \/ \E m \in Models : SettingChanges(m)
    \/ \E v \in Tracks : WarmStart(v) \/ OthersShare(v)
    \/ \E c \in calls : CallStep(c)
    \/ \E j \in JobIds : JobStep(j)
    \/ Render \/ GpuStart \/ WorkerLoads
    \/ \E p \in saving : Persist(p[1], p[2])
    \/ Hold \/ Release \/ AnchorMoves \/ TabCrash \/ Unblock

Spec == Init /\ [][Next]_vars

(***************************************************************************)
(* Fairness: promises resume, the network answers, the worker works on the *)
(* job it was posted, and a transition ends.  Users, the room and faults   *)
(* owe nothing.                                                            *)
(***************************************************************************)
Fairness ==
    /\ WF_vars(\E c \in calls : CallStep(c))
    /\ WF_vars(\E j \in JobIds : JobStep(j))
    /\ WF_vars(GpuStart) /\ WF_vars(WorkerLoads) /\ WF_vars(Release)
    /\ WF_vars(\E d \in Decks : LoadLands(d)) /\ WF_vars(Render)

FairSpec == Spec /\ Fairness

-----------------------------------------------------------------------------
(* Properties                                                              *)

\* A promise found in either map is still running: a failed job is not
\* handed to the next caller (loadStems' clear on both branches).
SharedJobsRun ==
    \A v \in Tracks : \A j \in {inflight[v], stemJobs[v]} \ {None} :
        jobs[j].phase \in Active /\ jobs[j].vid = v

ActiveJobs(v) == {j \in JobIds : jobs[j].phase \in Active /\ jobs[j].vid = v}

\* Until a user forces a re-analysis, one track is one job, whoever asks:
\* two decks, a remote request and a warm-up (loadStems' inflight map).
OneJobPerTrack ==
    \A v \in Tracks \ reanalyzed : Cardinality(ActiveJobs(v)) <= 1

\* The GPU runs one job, the oldest of the chain, and every job that waits
\* for it is in the chain once.
OneHeavyJob ==
    /\ \A j \in JobIds : jobs[j].phase = "running" => j = Head(gpu)
    /\ \A j \in JobIds : jobs[j].phase \in {"queued", "running"} <=>
                         \E i \in 1..Len(gpu) : gpu[i] = j
    /\ \A i, k \in 1..Len(gpu) : gpu[i] = gpu[k] => i = k

\* A set lands only on the deck that holds its track, unless a setting change asked
\* for it, or a forced set finds its track still on the screen (stale(), and
\* forceSeparate's check of the deck, which reads the last render).
SetsLandOnTheirTrack ==
    [][\A d \in Decks : stems'[d] \notin {None, stems[d]} =>
         \/ stems'[d] = track[d]
         \/ \E c \in calls \ calls' :
               /\ c.deck = d
               /\ \/ c.by = "setting"
                  \/ c.by \in {"reanalyze", "request"} /\ stems'[d] = shown[d]]_vars

\* Every stem chip resolves: whatever was asked for ends, with a set or with
\* the mix, unless the worker that should separate it is dead.
CallsEnd == <>[](calls = {} \/ worker = "dead")

(* What the comments of the code say and it does not do.                   *)

\* useStemPipeline.ts: stale() "drops results if the deck moved on to another track":
\* when deck and screen agree on the track, only its set lands.
StemsOfTheTrack ==
    [][\A d \in Decks : stems'[d] \notin {None, stems[d]} /\ shown[d] = track[d] =>
         stems'[d] = track[d]]_vars
=============================================================================
