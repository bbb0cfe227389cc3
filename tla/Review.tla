------------------------------- MODULE Review -------------------------------
(* knowledge/review.ts: one review of a directory after another, over a      *)
(* store and the manifests of the root (files, judged sections, claims that  *)
(* wait, files owed). A run reads ahead, judges several files at once, and   *)
(* applies what it learned file by file in the order of the plan; only when  *)
(* all of it is durable do the manifests say what is done.                   *)
(*                                                                           *)
(* What is learned is named <<file, section, version>>, with Extract in the  *)
(* place of the section for the entry of the extract cache. A version of a   *)
(* file changes the text of every section. Files outside of Judged are those *)
(* recorded as soon as they are read (binary).                               *)
EXTENDS Naturals, FiniteSets, DurableStore

CONSTANTS Files,       \* paths, in the order of the plan
          Judged,      \* those whose pack asks for judgement
          Sections, Extract,
          ModelCalls,  \* budget of calls of one run
          ReadAhead, JudgeWidth,
          FailLimit,   \* failures in a row that stop the judging
          Versions,    \* contents of a file; 0 is no file
          MaxRuns, MaxEdits, MaxCrashes  \* bounds

ASSUME ReviewAssumption ==
  /\ IsFiniteSet(Files) /\ Files \subseteq Nat /\ Judged \subseteq Files
  /\ IsFiniteSet(Sections) /\ Extract \notin Sections
  /\ ModelCalls \in Nat
  /\ ReadAhead \in Nat \ {0} /\ JudgeWidth \in Nat \ {0} /\ FailLimit \in Nat \ {0}
  /\ Versions \subseteq Nat \ {0}
  /\ MaxRuns \in Nat /\ MaxEdits \in Nat /\ MaxCrashes \in Nat

Contents == Versions \union {0}
Items == Files \X (Sections \union {Extract}) \X Versions

VARIABLES
  source,                             \* the directory: the version of each file
  filesM, judgedM, awaitM, owedM,     \* the manifests
  phase,                              \* where the run is
  plan, removed, carried,             \* the files it works on, and those gone
  stage,                              \* of each file on its way to the writer
  call,                               \* of each section
  allot, used,                        \* calls reserved per file, and in all
  streak, stopped,                    \* the breaker
  aborted, cut,                       \* the abort, and whether it hit the writer
  filesNow, judgedNow, claims, finished,
  made,                               \* history: calls of the run
  halfSaved,                          \* history: a run ended between two manifests
  runs, edits, crashes

manifests == <<filesM, judgedM, awaitM, owedM>>
pipeline == <<stage, call, allot, used, streak, stopped, made>>
signals == <<aborted, cut>>
learned == <<filesNow, judgedNow, claims, finished>>
planned == <<plan, removed, carried>>
bounds == <<runs, edits, crashes>>
reviewVars == <<store, source, manifests, phase, planned, pipeline, signals, learned, halfSaved, bounds>>

ReviewTypeOK ==
  /\ held \subseteq Items /\ durable \subseteq Items /\ promised \subseteq Items
  /\ source \in [Files -> Contents]
  /\ filesM \in [Files -> Contents] /\ filesNow \in [Files -> Contents]
  /\ judgedM \in [Files \X Sections -> Contents]
  /\ judgedNow \in [Files \X Sections -> Contents]
  /\ awaitM \subseteq Items /\ claims \subseteq Items
  /\ owedM \subseteq Files /\ finished \subseteq Files
  /\ phase \in {"idle", "pull", "await", "drain", "last", "retire", "compare", "flush",
                "saveAwaiting", "saveFiles", "saveJudged", "saveOwed"}
  /\ plan \in [Files -> Contents] /\ removed \subseteq Files /\ carried \subseteq Files
  /\ stage \in [Files -> {"none", "reading", "read", "failed", "queued", "skipped", "applied", "abandoned"}]
  /\ call \in [Files \X Sections -> {"none", "reuse", "todo", "asked", "judged", "failed", "unasked", "void"}]
  /\ allot \in [Files -> Nat] /\ used \in Nat /\ made \in Nat /\ streak \in Nat
  /\ stopped \in BOOLEAN /\ aborted \in BOOLEAN /\ cut \in BOOLEAN /\ halfSaved \in BOOLEAN
  /\ runs \in Nat /\ edits \in Nat /\ crashes \in Nat

NoFiles == [f \in Files |-> 0]
NoSections == [x \in Files \X Sections |-> 0]

\* What a run starts from, and what is left of it.
NoRun ==
  /\ phase' = "idle"
  /\ plan' = NoFiles /\ removed' = {} /\ carried' = {}
  /\ stage' = [f \in Files |-> "none"]
  /\ call' = [x \in Files \X Sections |-> "none"]
  /\ allot' = NoFiles /\ used' = 0 /\ streak' = 0 /\ stopped' = FALSE /\ made' = 0
  /\ aborted' = FALSE /\ cut' = FALSE
  /\ filesNow' = NoFiles /\ judgedNow' = NoSections /\ claims' = {} /\ finished' = {}

ReviewInit ==
  /\ StoreInit
  /\ source \in [Files -> Contents]
  /\ filesM = NoFiles /\ judgedM = NoSections /\ awaitM = {} /\ owedM = {}
  /\ phase = "idle"
  /\ plan = NoFiles /\ removed = {} /\ carried = {}
  /\ stage = [f \in Files |-> "none"]
  /\ call = [x \in Files \X Sections |-> "none"]
  /\ allot = NoFiles /\ used = 0 /\ streak = 0 /\ stopped = FALSE /\ made = 0
  /\ aborted = FALSE /\ cut = FALSE
  /\ filesNow = NoFiles /\ judgedNow = NoSections /\ claims = {} /\ finished = {}
  /\ halfSaved = FALSE
  /\ runs = 0 /\ edits = 0 /\ crashes = 0

-----------------------------------------------------------------------------
(* The plan.                                                                 *)

Changed(f) == source[f] # 0 /\ (filesM[f] # source[f] \/ f \in owedM)

Start ==
  /\ phase = "idle" /\ runs < MaxRuns
  /\ runs' = runs + 1
  /\ plan' = [f \in Files |-> IF Changed(f) THEN source[f] ELSE 0]
  /\ removed' = {f \in Files : source[f] = 0 /\ filesM[f] # 0}
  /\ carried' = {f \in owedM : source[f] = 0 /\ filesM[f] # 0}
  /\ filesNow' = filesM /\ judgedNow' = judgedM
  /\ claims' = awaitM \intersect held
  /\ phase' = "pull"
  /\ UNCHANGED <<store, source, manifests, pipeline, signals, finished, halfSaved, edits, crashes>>

Work == {f \in Files : plan[f] # 0}
In(places) == {f \in Files : stage[f] \in places}
First(S) == CHOOSE f \in S : \A g \in S : f <= g

Pending == In({"reading", "read", "failed"})   \* read ahead of the writer
Queue == In({"queued", "skipped"})             \* dispatched, in order

-----------------------------------------------------------------------------
(* prefetchOrdered: reads start when the consumer asks for the next file.    *)

Pull ==
  /\ phase = "pull"
  /\ IF aborted
       THEN UNCHANGED stage /\ phase' = "last"
       ELSE /\ stage' = [f \in Files |->
                  IF /\ f \in Work /\ stage[f] = "none"
                     /\ Cardinality(Pending) + Cardinality({g \in Work : g < f /\ stage[g] = "none"}) < ReadAhead
                    THEN "reading" ELSE stage[f]]
            /\ phase' = IF \E f \in Work : stage[f] \in {"none", "reading", "read", "failed"}
                          THEN "await" ELSE "last"
  /\ UNCHANGED <<store, source, manifests, planned, call, allot, used, streak, stopped, made, signals, learned, halfSaved, bounds>>

\* A file to be stored must have the bytes that were planned. A read that is
\* aborted, or over its deadline, fails.
Read(f) ==
  /\ stage[f] = "reading"
  /\ \/ /\ f \in Judged => source[f] = plan[f]
        /\ source[f] # 0
        /\ stage' = [stage EXCEPT ![f] = "read"]
     \/ stage' = [stage EXCEPT ![f] = "failed"]
  /\ UNCHANGED <<store, source, manifests, phase, planned, call, allot, used, streak, stopped, made, signals, learned, halfSaved, bounds>>

-----------------------------------------------------------------------------
(* Dispatch and judging.                                                     *)

ToJudge(f) == {s \in Sections : judgedM[<<f, s>>] # plan[f]}

\* Mutant of Reserve: calls are taken as the sections come up, not set aside.
ReserveNothing(f) == IF used < ModelCalls THEN 1 ELSE 0

ReserveOverspent(f) ==
  IF Cardinality(ToJudge(f)) <= ModelCalls - used
  THEN Cardinality(ToJudge(f)) ELSE used - ModelCalls

\* How many of the calls that are left a file gets.
Reserve(f) == IF Cardinality(ToJudge(f)) <= ModelCalls - used
                THEN Cardinality(ToJudge(f)) ELSE ModelCalls - used

\* The file the consumer waits for is dispatched: its calls are reserved.
Dispatch ==
  /\ phase = "await"
  /\ LET f == First(Pending) IN
     /\ stage[f] # "reading"
     /\ stage' = [stage EXCEPT ![f] = IF @ = "read" THEN "queued" ELSE "skipped"]
     /\ IF stage[f] = "read" /\ f \in Judged
          THEN /\ allot' = [allot EXCEPT ![f] = Reserve(f)]
               /\ used' = used + Reserve(f)
               /\ call' = [x \in Files \X Sections |->
                             IF x[1] # f THEN call[x]
                             ELSE IF x[2] \in ToJudge(f) THEN "todo" ELSE "reuse"]
          ELSE UNCHANGED <<allot, used, call>>
  /\ phase' = "drain"
  /\ UNCHANGED <<store, source, manifests, planned, streak, stopped, made, signals, learned, halfSaved, bounds>>

Asked(f) == Cardinality({s \in Sections : call[<<f, s>>] \in {"asked", "judged", "failed", "void"}})

\* callSections: a section is asked about within the file's slice while the
\* breaker holds, and is left unjudged otherwise. Nothing starts after an abort.
Ask(f, s) ==
  /\ call[<<f, s>>] = "todo" /\ ~aborted
  /\ IF Asked(f) < allot[f] /\ ~stopped
       THEN call' = [call EXCEPT ![<<f, s>>] = "asked"] /\ made' = made + 1
       ELSE call' = [call EXCEPT ![<<f, s>>] = "unasked"] /\ UNCHANGED made
  /\ UNCHANGED <<store, source, manifests, phase, planned, stage, allot, used, streak, stopped, signals, learned, halfSaved, bounds>>

\* An answer after the abort counts for nothing.
Answer(f, s) ==
  /\ call[<<f, s>>] = "asked"
  /\ \/ /\ ~aborted
        /\ call' = [call EXCEPT ![<<f, s>>] = "judged"]
        /\ streak' = 0 /\ UNCHANGED stopped
     \/ /\ ~aborted
        /\ call' = [call EXCEPT ![<<f, s>>] = "failed"]
        /\ streak' = IF streak < FailLimit THEN streak + 1 ELSE streak
        /\ stopped' = (stopped \/ streak' = FailLimit)
     \/ /\ aborted
        /\ call' = [call EXCEPT ![<<f, s>>] = "void"]
        /\ UNCHANGED <<streak, stopped>>
  /\ UNCHANGED <<store, source, manifests, phase, planned, stage, allot, used, made, signals, learned, halfSaved, bounds>>

Is(f, what) == {s \in Sections : call[<<f, s>>] \in what}
Settled(f) == Is(f, {"asked"}) = {} /\ (aborted \/ Is(f, {"todo"}) = {})
CutShort(f) == Is(f, {"todo", "void"}) # {}
AllFailed(f) == Is(f, {"judged"}) = {} /\ Is(f, {"failed"}) # {}

-----------------------------------------------------------------------------
(* The writer. Its calls on the store change memory; an abort while it is at *)
(* them cuts the run after this file.                                        *)

Keep == IF phase = "drain" THEN JudgeWidth - 1 ELSE 0

\* The file the writer is to apply now.
Turn(f) ==
  /\ phase = "drain" \/ (phase = "last" /\ In({"reading"}) = {})
  /\ ~cut
  /\ Cardinality(Queue) > Keep
  /\ f = First(Queue)

ApplyUnread(f) ==
  /\ Turn(f) /\ stage[f] = "skipped"
  /\ stage' = [stage EXCEPT ![f] = "applied"]
  /\ UNCHANGED <<store, source, manifests, phase, planned, call, allot, used, streak, stopped, made, signals, learned, halfSaved, bounds>>

ApplyBinary(f) ==
  /\ Turn(f) /\ stage[f] = "queued" /\ f \notin Judged
  /\ stage' = [stage EXCEPT ![f] = "applied"]
  /\ filesNow' = [filesNow EXCEPT ![f] = plan[f]]
  /\ finished' = finished \union {f}
  /\ UNCHANGED <<store, source, manifests, phase, planned, call, allot, used, streak, stopped, made, signals, judgedNow, claims, halfSaved, bounds>>

\* The extraction is kept in any case. A file whose judging was cut short, or
\* failed in every call, stays as it was.
ApplyUnjudged(f) ==
  /\ Turn(f) /\ stage[f] = "queued" /\ f \in Judged /\ Settled(f)
  /\ \/ CutShort(f) /\ stage' = [stage EXCEPT ![f] = "abandoned"]
     \/ ~CutShort(f) /\ AllFailed(f) /\ stage' = [stage EXCEPT ![f] = "applied"]
  /\ Apply({<<f, Extract, plan[f]>>})
  /\ UNCHANGED <<source, manifests, phase, planned, call, allot, used, streak, stopped, made, signals, learned, halfSaved, bounds>>

ApplyJudged(f) ==
  /\ Turn(f) /\ stage[f] = "queued" /\ f \in Judged /\ Settled(f)
  /\ ~CutShort(f) /\ ~AllFailed(f)
  /\ LET fresh == {<<f, s, plan[f]>> : s \in Is(f, {"judged"})}
         complete == Is(f, {"failed", "unasked"}) = {}
     IN /\ Apply(fresh \union {<<f, Extract, plan[f]>>})
        /\ judgedNow' = [x \in Files \X Sections |->
                           IF x[1] = f /\ call[x] = "judged" THEN plan[f] ELSE judgedNow[x]]
        /\ claims' = claims \union fresh
        /\ filesNow' = IF complete THEN [filesNow EXCEPT ![f] = plan[f]] ELSE filesNow
        /\ finished' = IF complete THEN finished \union {f} ELSE finished
  /\ stage' = [stage EXCEPT ![f] = "applied"]
  /\ UNCHANGED <<source, manifests, phase, planned, call, allot, used, streak, stopped, made, signals, halfSaved, bounds>>

\* The consumer asks for the next file.
Drained ==
  /\ phase = "drain" /\ (cut \/ Cardinality(Queue) <= Keep)
  /\ phase' = "pull"
  /\ UNCHANGED <<store, source, manifests, planned, pipeline, signals, learned, halfSaved, bounds>>

\* The caller's abort. One that lands while the writer works on a file cuts.
Abort ==
  /\ phase \in {"pull", "await", "drain", "last"} /\ ~aborted
  /\ aborted' = TRUE
  /\ cut' \in IF phase \in {"drain", "last"} THEN BOOLEAN ELSE {FALSE}
  /\ UNCHANGED <<store, source, manifests, phase, planned, pipeline, learned, halfSaved, bounds>>

\* Mutant of LoopEnds: an abort does not cut the queue short.
LoopEndsDrained ==
  /\ phase = "last" /\ In({"reading"}) = {}
  /\ Queue = {}
  /\ phase' = IF \A f \in Work : stage[f] = "applied" THEN "retire" ELSE "flush"
  /\ UNCHANGED <<store, source, manifests, planned, pipeline, signals, learned, halfSaved, bounds>>

\* Nothing outlives the loop: reads and calls that were started have settled.
LoopEnds ==
  /\ phase = "last" /\ In({"reading"}) = {}
  /\ cut \/ Queue = {}
  /\ \A f \in Queue : Settled(f)
  /\ phase' = IF \A f \in Work : stage[f] = "applied" THEN "retire" ELSE "flush"
  /\ UNCHANGED <<store, source, manifests, planned, pipeline, signals, learned, halfSaved, bounds>>

-----------------------------------------------------------------------------
(* The end of a run that reached all its files.                              *)

Retire ==
  /\ phase = "retire"
  /\ filesNow' = [f \in Files |-> IF f \in removed THEN 0 ELSE filesNow[f]]
  /\ judgedNow' = [x \in Files \X Sections |-> IF x[1] \in removed THEN 0 ELSE judgedNow[x]]
  /\ phase' = "compare"
  /\ UNCHANGED <<store, source, manifests, planned, pipeline, signals, claims, finished, halfSaved, bounds>>

\* Claims are compared with the calls that are left; those that are not wait.
Compare ==
  /\ phase = "compare"
  /\ \E n \in 0..(ModelCalls - used), compared \in {{}, claims} :
       /\ compared # {} => n > 0
       /\ used' = used + n /\ made' = made + n
       /\ claims' = claims \ compared
  /\ phase' = "flush"
  /\ UNCHANGED <<store, source, manifests, planned, stage, call, allot, streak, stopped, signals, filesNow, judgedNow, finished, halfSaved, bounds>>

\* Mutant of Flush: the run trusts the checkpoint, which writes the cache first.
FlushByCheckpoint ==
  /\ phase = "flush"
  /\ LET S == {x \in held : x[2] = Extract} IN Persist(S, S)
  /\ phase' = "saveAwaiting"
  /\ UNCHANGED <<source, manifests, planned, pipeline, signals, learned, halfSaved, bounds>>

\* Everything the run learned is durable before a manifest says so.
Flush ==
  /\ phase = "flush"
  /\ Persist(held, held)
  /\ phase' = "saveAwaiting"
  /\ UNCHANGED <<source, manifests, planned, pipeline, signals, learned, halfSaved, bounds>>

\* A flush that fails ends the run; the end of the batch tries once more.
FlushFails ==
  /\ phase = "flush"
  /\ \E S \in {{}, held} : Persist(S, {})
  /\ NoRun
  /\ UNCHANGED <<source, manifests, halfSaved, bounds>>

SaveAwaiting ==
  /\ phase = "saveAwaiting"
  /\ awaitM' = claims
  /\ phase' = "saveFiles"
  /\ UNCHANGED <<store, source, filesM, judgedM, owedM, planned, pipeline, signals, learned, halfSaved, bounds>>

SaveFiles ==
  /\ phase = "saveFiles"
  /\ filesM' = filesNow
  /\ phase' = "saveJudged"
  /\ UNCHANGED <<store, source, judgedM, awaitM, owedM, planned, pipeline, signals, learned, halfSaved, bounds>>

SaveJudged ==
  /\ phase = "saveJudged"
  /\ judgedM' = judgedNow
  /\ phase' = "saveOwed"
  /\ UNCHANGED <<store, source, filesM, awaitM, owedM, planned, pipeline, signals, learned, halfSaved, bounds>>

\* Mutant of SaveOwed: files that changed need no debt, their hash tells.
SaveOwedUnchanged ==
  /\ phase = "saveOwed"
  /\ owedM' = {f \in Work \ finished : filesM[f] = plan[f]} \union {f \in carried : filesNow[f] # 0}
  /\ NoRun
  /\ UNCHANGED <<store, source, filesM, judgedM, awaitM, halfSaved, bounds>>

\* owedAfterRun, and the end of the run.
SaveOwed ==
  /\ phase = "saveOwed"
  /\ owedM' = (Work \ finished) \union {f \in carried : filesNow[f] # 0}
  /\ NoRun
  /\ UNCHANGED <<store, source, filesM, judgedM, awaitM, halfSaved, bounds>>

Saving == phase \in {"saveJudged", "saveOwed"}

\* A manifest that cannot be written ends the run, and the others stay.
SaveFails ==
  /\ phase \in {"saveAwaiting", "saveFiles", "saveJudged", "saveOwed"}
  /\ crashes < MaxCrashes /\ crashes' = crashes + 1
  /\ halfSaved' = (halfSaved \/ Saving)
  /\ NoRun
  /\ UNCHANGED <<store, source, manifests, runs, edits>>

-----------------------------------------------------------------------------
(* Around a run.                                                             *)

\* The store writes a checkpoint in the background, its log first.
Checkpoint ==
  /\ phase # "idle"
  /\ \E S \in {held, {x \in held : x[2] = Extract}} :
       ~(S \subseteq durable) /\ Persist(S, {})
  /\ UNCHANGED <<source, manifests, phase, planned, pipeline, signals, learned, halfSaved, bounds>>

Edit(f) ==
  /\ edits < MaxEdits /\ edits' = edits + 1
  /\ \E v \in Contents \ {source[f]} : source' = [source EXCEPT ![f] = v]
  /\ UNCHANGED <<store, manifests, phase, planned, pipeline, signals, learned, halfSaved, runs, crashes>>

ReviewDies ==
  /\ phase # "idle" /\ crashes < MaxCrashes /\ crashes' = crashes + 1
  /\ \E S \in {{}, held} : Die(S)
  /\ halfSaved' = (halfSaved \/ Saving)
  /\ NoRun
  /\ UNCHANGED <<source, manifests, runs, edits>>

RunSteps ==
  \/ Pull \/ Dispatch \/ Drained \/ LoopEnds \/ Retire \/ Compare \/ Flush
  \/ SaveAwaiting \/ SaveFiles \/ SaveJudged \/ SaveOwed
  \/ \E f \in Files :
       \/ Read(f) \/ ApplyUnread(f) \/ ApplyBinary(f) \/ ApplyUnjudged(f) \/ ApplyJudged(f)
       \/ \E s \in Sections : Ask(f, s) \/ Answer(f, s)

ReviewNext ==
  \/ RunSteps \/ Start \/ Abort \/ FlushFails \/ SaveFails \/ Checkpoint \/ ReviewDies
  \/ \E f \in Files : Edit(f)

ReviewSpec == ReviewInit /\ [][ReviewNext]_reviewVars

\* A run that was started goes on: reads have deadlines, and calls are
\* answered, fail or time out.
ReviewFairness == WF_reviewVars(RunSteps)

-----------------------------------------------------------------------------
(* Properties.                                                               *)

\* A manifest never says of a file, a section or a claim more than the store
\* would still hold after a crash (review.ts:304-308): a manifest that is ahead
\* loses knowledge for good.
ManifestNotAhead ==
  /\ \A f \in Judged : filesM[f] # 0 =>
       \A s \in Sections \union {Extract} : <<f, s, filesM[f]>> \in durable
  /\ \A f \in Files, s \in Sections : judgedM[<<f, s>>] # 0 => <<f, s, judgedM[<<f, s>>]>> \in durable
  /\ awaitM \subseteq durable

\* A file that the next plan would pass over has all its sections judged at the
\* content it has, whatever runs were cut, failed or overtaken by edits before,
\* also edits that took a file back to what the manifest knows (owedFiles.ts:5-13);
\* said until a run dies between two of its manifests.
SkippedIsKnown ==
  phase = "idle" /\ ~halfSaved =>
    \A f \in Judged : source[f] # 0 /\ ~Changed(f) =>
      \A s \in Sections : judgedM[<<f, s>>] = source[f]

\* The budget is not overshot, and is spent in the order of the plan whatever
\* the widths: a file that got less than it needs leaves nothing to later ones
\* (review.ts:12-14).
BudgetInFileOrder ==
  /\ made <= used /\ used <= ModelCalls
  /\ \A f, g \in Judged : f < g /\ Is(f, {"todo", "asked", "unasked", "judged", "failed", "void"}) # {}
       /\ allot[f] < Cardinality(ToJudge(f)) => allot[g] = 0

\* Every review ends, with failing reads and calls, a breaker, and aborts at
\* any point: nothing waits for a slot that never comes.
ReviewEnds == phase # "idle" ~> phase = "idle"

-----------------------------------------------------------------------------
(* The inductive invariant of ReviewProofs.                                  *)

Looping == {"pull", "await", "drain", "last"}
Saves == {"saveAwaiting", "saveFiles", "saveJudged", "saveOwed"}

\* The functions among the variables.
ReviewShape ==
  /\ filesM \in [Files -> Contents] /\ filesNow \in [Files -> Contents]
  /\ judgedM \in [Files \X Sections -> Contents]
  /\ judgedNow \in [Files \X Sections -> Contents]
  /\ plan \in [Files -> Contents] /\ source \in [Files -> Contents]
  /\ stage \in [Files -> {"none", "reading", "read", "failed", "queued", "skipped", "applied", "abandoned"}]
  /\ call \in [Files \X Sections -> {"none", "reuse", "todo", "asked", "judged", "failed", "unasked", "void"}]

\* Manifests that say no more than S holds.
KnownIn(S, F, J, C) ==
  /\ \A f \in Judged : F[f] # 0 => \A s \in Sections \union {Extract} : <<f, s, F[f]>> \in S
  /\ \A f \in Files, s \in Sections : J[<<f, s>>] # 0 => <<f, s, J[<<f, s>>]>> \in S
  /\ C \subseteq S

\* What the next manifests will say is held, and durable once they are written.
KnowledgeIsHeld ==
  /\ durable \subseteq held
  /\ KnownIn(durable, filesM, judgedM, awaitM)
  /\ KnownIn(held, filesNow, judgedNow, claims)
  /\ phase \in Saves => KnownIn(durable, filesNow, judgedNow, claims)

\* A file that was not applied yet was not touched, and its sections are judged
\* or known.
UntouchedUntilApplied == \A f \in Files :
  /\ stage[f] \in {"reading", "read", "queued"} => plan[f] # 0
  /\ stage[f] \in {"none", "reading", "read", "queued"} =>
       f \notin finished /\ (phase \in Looping => \A s \in Sections : judgedNow[<<f, s>>] = judgedM[<<f, s>>])
  /\ phase \in Looping /\ stage[f] = "queued" /\ f \in Judged =>
       \A s \in Sections : call[<<f, s>>] # "none" /\ (call[<<f, s>>] = "reuse" => judgedM[<<f, s>>] = plan[f])
  /\ phase = "idle" => stage[f] = "none"

\* Who is not owed is judged in full: by the manifests, and by those of the run.
Agree(F, J, f) == F[f] # 0 => \A s \in Sections : J[<<f, s>>] = F[f]
UnowedIsJudged == ~halfSaved =>
  /\ phase \notin {"saveJudged", "saveOwed"} => \A f \in Judged \ owedM : Agree(filesM, judgedM, f)
  /\ phase # "idle" => \A f \in Judged : (f \in Work => f \in finished) /\ f \notin carried
                         => Agree(filesNow, judgedNow, f)
  /\ phase \in {"saveJudged", "saveOwed"} => filesM = filesNow
  /\ phase = "saveOwed" => judgedM = judgedNow

ReviewInv == ReviewShape /\ KnowledgeIsHeld /\ UntouchedUntilApplied /\ UnowedIsJudged

-----------------------------------------------------------------------------
(* What an induction needs, besides, to follow the budget.                   *)

Ahead == {"reading", "read", "failed"}  \* stages before the dispatch
Due == {"todo", "asked", "unasked", "judged", "failed", "void"}  \* calls of a dispatched file

\* The calls that are reserved and not made, one by one.
Unspent == {x \in Files \X (1..ModelCalls) : Asked(x[1]) < x[2] /\ x[2] <= allot[x[1]]}

CallsAreCounted ==
  /\ used <= ModelCalls /\ used = made + Cardinality(Unspent)
  /\ \A f \in Files : allot[f] <= ModelCalls

\* Files of the plan are read and dispatched in its order, and have no calls before.
FilesInTurn ==
  /\ phase = "await" => Pending # {}
  /\ \A f \in Files :
       /\ stage[f] # "none" => f \in Work
       /\ stage[f] \in Ahead \union {"none"} =>
            allot[f] = 0 /\ \A s \in Sections : call[<<f, s>>] = "none"
       /\ \A g \in Files : g < f =>
            /\ stage[f] # "none" /\ g \in Work => stage[g] # "none"
            /\ stage[f] \notin Ahead \union {"none"} => stage[g] \notin Ahead

\* A file that got too little took the last.
ShortTakesLast == \A f \in Judged :
  Is(f, Due) # {} /\ allot[f] < Cardinality(ToJudge(f)) =>
    used = ModelCalls /\ \A g \in Judged : f < g => allot[g] = 0

\* A run judges its files at what was planned, and removes others.
JudgedAsPlanned == \A f \in Work :
  f \notin removed /\ \A s \in Sections : judgedNow[<<f, s>>] \in {judgedM[<<f, s>>], plan[f]}

BudgetInv == ReviewTypeOK /\ CallsAreCounted /\ FilesInTurn /\ ShortTakesLast /\ JudgedAsPlanned
=============================================================================
