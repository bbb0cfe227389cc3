---------------------------- MODULE ReviewProofs ----------------------------
(* What the manifests of a reviewed directory say is durable, and a file that *)
(* the next review passes over is judged in full; a run keeps to its budget,  *)
(* in the order of its files: for any files, packs, widths and budgets, and   *)
(* any number of runs, edits, failures and deaths. The store is only used in  *)
(* the steps of DurableStore.                                                 *)
EXTENDS Review, FiniteSetTheorems, WellFoundedInduction, TLAPS

LEMMA KnownInMore ==
  ASSUME NEW S, NEW T, S \subseteq T, NEW F, NEW J, NEW C, NEW D, D \subseteq C, KnownIn(S, F, J, C)
  PROVE  KnownIn(T, F, J, D)
  BY DEF KnownIn

LEMMA NothingIsKnown == ASSUME NEW S PROVE KnownIn(S, NoFiles, NoSections, {})
<1>1. Judged \subseteq Files
  BY ReviewAssumption
<1>2. \A f \in Files : NoFiles[f] = 0
  BY DEF NoFiles
<1>3. \A f \in Files, s \in Sections : NoSections[<<f, s>>] = 0
  BY DEF NoSections
<1>4. QED
  BY <1>1, <1>2, <1>3 DEF KnownIn

-----------------------------------------------------------------------------
(* Types. *)

LEMMA ShapeStays == ASSUME ReviewShape, ReviewNext PROVE ReviewShape'
<1> USE ReviewAssumption DEF ReviewShape
<1>1. 0 \in Contents /\ NoFiles \in [Files -> Contents] /\ NoSections \in [Files \X Sections -> Contents]
  BY DEF Contents, NoFiles, NoSections
<1>2. NoRun => /\ filesNow' \in [Files -> Contents] /\ judgedNow' \in [Files \X Sections -> Contents]
               /\ plan' \in [Files -> Contents]
               /\ stage' \in [Files -> {"none", "reading", "read", "failed", "queued", "skipped", "applied", "abandoned"}]
               /\ call' \in [Files \X Sections -> {"none", "reuse", "todo", "asked", "judged", "failed", "unasked", "void"}]
  BY <1>1 DEF NoRun
<1>3. CASE Start
  BY <1>1, <1>3 DEF Start, manifests, pipeline
<1>4. CASE Pull
  BY <1>4 DEF Pull, manifests, planned, learned
<1>5. CASE \E f \in Files : Read(f)
  BY <1>5 DEF Read, manifests, planned, learned
<1>6. CASE Dispatch
  <2> DEFINE f == First(Pending)
  <2>1. stage' = [stage EXCEPT ![f] = IF @ = "read" THEN "queued" ELSE "skipped"]
    BY <1>6 DEF Dispatch
  <2>2. UNCHANGED <<filesM, filesNow, judgedM, judgedNow, plan, source>>
    BY <1>6 DEF Dispatch, manifests, planned, learned
  <2>3. \/ UNCHANGED call
        \/ call' = [x \in Files \X Sections |->
                             IF x[1] # f THEN call[x]
                             ELSE IF x[2] \in ToJudge(f) THEN "todo" ELSE "reuse"]
    BY <1>6 DEF Dispatch
  <2> HIDE DEF f
  <2>4. stage' \in [Files -> {"none", "reading", "read", "failed", "queued", "skipped", "applied", "abandoned"}]
    BY <2>1
  <2>5. call' \in [Files \X Sections -> {"none", "reuse", "todo", "asked", "judged", "failed", "unasked", "void"}]
    BY <2>3
  <2>6. QED
    BY <2>2, <2>4, <2>5
<1>7. CASE Drained \/ LoopEnds \/ Abort \/ Checkpoint
  BY <1>7 DEF Drained, LoopEnds, Abort, Checkpoint, manifests, planned, pipeline, learned
<1>8. CASE \E f \in Files : \E s \in Sections : Ask(f, s) \/ Answer(f, s)
  <2>1. PICK f \in Files, s \in Sections : Ask(f, s) \/ Answer(f, s)
    BY <1>8
  <2>2. PICK what \in {"asked", "unasked", "judged", "failed", "void"} : call' = [call EXCEPT ![<<f, s>>] = what]
    BY <2>1 DEF Ask, Answer
  <2>3. UNCHANGED <<filesM, filesNow, judgedM, judgedNow, plan, source, stage>>
    BY <2>1 DEF Ask, Answer, manifests, planned, learned
  <2>4. QED
    BY <2>2, <2>3
<1>9. CASE \E f \in Files : ApplyUnread(f) \/ ApplyBinary(f) \/ ApplyUnjudged(f)
  BY <1>9 DEF ApplyUnread, ApplyBinary, ApplyUnjudged, manifests, planned, learned
<1>10. ASSUME NEW f \in Files, ApplyJudged(f) PROVE ReviewShape'
  <2>1. /\ judgedNow' = [x \in Files \X Sections |->
                           IF x[1] = f /\ call[x] = "judged" THEN plan[f] ELSE judgedNow[x]]
        /\ filesNow' = filesNow \/ filesNow' = [filesNow EXCEPT ![f] = plan[f]]
        /\ stage' = [stage EXCEPT ![f] = "applied"]
        /\ UNCHANGED <<filesM, judgedM, plan, source, call>>
    BY <1>10 DEF ApplyJudged, manifests, planned
  <2>2. QED
    BY <2>1
<1>11. CASE Retire
  BY <1>1, <1>11 DEF Retire, manifests, planned, pipeline
<1>12. CASE Compare \/ Flush
  BY <1>12 DEF Compare, Flush, manifests, planned, pipeline, learned
<1>13. CASE SaveAwaiting \/ SaveFiles \/ SaveJudged
  BY <1>13 DEF SaveAwaiting, SaveFiles, SaveJudged, manifests, planned, pipeline, learned
<1>14. CASE SaveOwed \/ FlushFails \/ SaveFails \/ ReviewDies
  BY <1>2, <1>14 DEF SaveOwed, FlushFails, SaveFails, ReviewDies, manifests
<1>15. CASE \E f \in Files : Edit(f)
  <2>1. PICK f \in Files, v \in Contents : source' = [source EXCEPT ![f] = v]
    BY <1>15 DEF Edit
  <2>2. UNCHANGED <<filesM, filesNow, judgedM, judgedNow, plan, stage, call>>
    BY <1>15 DEF Edit, manifests, planned, pipeline, learned
  <2>3. QED
    BY <2>1, <2>2
<1>16. QED
  BY <1>3, <1>4, <1>5, <1>6, <1>7, <1>8, <1>9, <1>10, <1>11, <1>12, <1>13, <1>14, <1>15 DEF ReviewNext, RunSteps

-----------------------------------------------------------------------------
(* The manifests are not ahead of the store. *)

LEMMA HeldStays == ASSUME ReviewInv, ReviewNext PROVE KnowledgeIsHeld'
<1>1. /\ durable \subseteq held
      /\ KnownIn(durable, filesM, judgedM, awaitM)
      /\ KnownIn(held, filesNow, judgedNow, claims)
      /\ phase \in Saves => KnownIn(durable, filesNow, judgedNow, claims)
  BY DEF ReviewInv, KnowledgeIsHeld
<1>2. ASSUME UNCHANGED <<held, durable, filesM, judgedM, awaitM, filesNow, judgedNow, claims>>,
             phase' \in Saves => phase \in Saves
      PROVE  KnowledgeIsHeld'
  BY <1>1, <1>2 DEF KnowledgeIsHeld
<1>3. ASSUME NoRun, UNCHANGED <<filesM, judgedM, awaitM>>,
             durable \subseteq durable', durable' \subseteq held'
      PROVE  KnowledgeIsHeld'
  <2>1. KnownIn(durable', filesM, judgedM, awaitM)
    BY <1>1, <1>3, KnownInMore
  <2>2. filesNow' = NoFiles /\ judgedNow' = NoSections /\ claims' = {} /\ phase' = "idle"
    BY <1>3 DEF NoRun
  <2>3. KnownIn(held', NoFiles, NoSections, {})
    BY NothingIsKnown
  <2>4. QED
    BY <1>3, <2>1, <2>2, <2>3 DEF KnowledgeIsHeld, Saves
<1>4. CASE Start
  <2>1. /\ filesNow' = filesM /\ judgedNow' = judgedM /\ claims' = awaitM \intersect held
        /\ phase' = "pull" /\ UNCHANGED <<held, durable, filesM, judgedM, awaitM>>
    BY <1>4 DEF Start, store, manifests
  <2>2. KnownIn(held, filesM, judgedM, awaitM \intersect held)
    BY <1>1, KnownInMore
  <2>3. QED
    BY <1>1, <2>1, <2>2 DEF KnowledgeIsHeld, Saves
<1>5. CASE Pull
  BY <1>2, <1>5 DEF Pull, Saves, store, manifests, learned
<1>6. CASE \E f \in Files : Read(f) \/ ApplyUnread(f) \/ Edit(f)
  BY <1>2, <1>6 DEF Read, ApplyUnread, Edit, store, manifests, learned
<1>7. CASE Dispatch
  BY <1>2, <1>7 DEF Dispatch, Saves, store, manifests, learned
<1>8. CASE Drained \/ LoopEnds \/ Abort
  BY <1>2, <1>8 DEF Drained, LoopEnds, Abort, Saves, store, manifests, learned
<1>9. CASE \E f \in Files : \E s \in Sections : Ask(f, s) \/ Answer(f, s)
  BY <1>2, <1>9 DEF Ask, Answer, store, manifests, learned
<1>10. ASSUME NEW f \in Files, ApplyBinary(f) PROVE KnowledgeIsHeld'
  <2>1. /\ f \notin Judged /\ filesNow' = [filesNow EXCEPT ![f] = plan[f]]
        /\ phase \in {"drain", "last"}
        /\ UNCHANGED <<held, durable, filesM, judgedM, awaitM, judgedNow, claims, phase>>
    BY <1>10 DEF ApplyBinary, Turn, store, manifests
  <2>2. \A g \in Judged : filesNow'[g] = filesNow[g]
    BY <2>1, ReviewAssumption DEF ReviewInv, ReviewShape
  <2>3. KnownIn(held, filesNow', judgedNow, claims)
    BY <1>1, <2>2 DEF KnownIn
  <2>4. QED
    BY <1>1, <2>1, <2>3 DEF KnowledgeIsHeld, Saves
<1>11. ASSUME NEW f \in Files, ApplyUnjudged(f) PROVE KnowledgeIsHeld'
  <2>1. /\ held' = held \union {<<f, Extract, plan[f]>>} /\ phase \in {"drain", "last"}
        /\ UNCHANGED <<durable, filesM, judgedM, awaitM, filesNow, judgedNow, claims, phase>>
    BY <1>11 DEF ApplyUnjudged, Apply, Turn, manifests, learned
  <2>2. KnownIn(held', filesNow, judgedNow, claims)
    BY <1>1, <2>1, KnownInMore
  <2>3. QED
    BY <1>1, <2>1, <2>2 DEF KnowledgeIsHeld, Saves
<1>12. ASSUME NEW f \in Files, ApplyJudged(f) PROVE KnowledgeIsHeld'
  <2> DEFINE fresh == {<<f, s, plan[f]>> : s \in Is(f, {"judged"})}
             complete == Is(f, {"failed", "unasked"}) = {}
  <2>1. /\ held' = held \union (fresh \union {<<f, Extract, plan[f]>>})
        /\ judgedNow' = [x \in Files \X Sections |->
                           IF x[1] = f /\ call[x] = "judged" THEN plan[f] ELSE judgedNow[x]]
        /\ claims' = claims \union fresh
        /\ filesNow' = IF complete THEN [filesNow EXCEPT ![f] = plan[f]] ELSE filesNow
        /\ UNCHANGED <<durable, filesM, judgedM, awaitM, phase>>
    BY <1>12 DEF ApplyJudged, Apply, manifests
  <2>2. /\ phase \in {"drain", "last"} /\ stage[f] = "queued" /\ f \in Judged
        /\ Settled(f) /\ ~CutShort(f)
    BY <1>12 DEF ApplyJudged, Turn
  <2>3. \A s \in Sections : call[<<f, s>>] = "judged" => <<f, s, plan[f]>> \in fresh
    BY DEF Is
  <2>4. \A s \in Sections : call[<<f, s>>] # "none" /\ (call[<<f, s>>] = "reuse" => judgedM[<<f, s>>] = plan[f])
    BY <2>2 DEF ReviewInv, UntouchedUntilApplied, Looping
  <2>5. plan[f] # 0
    BY <2>2 DEF ReviewInv, UntouchedUntilApplied
  <2>6. ASSUME complete, NEW s \in Sections PROVE <<f, s, plan[f]>> \in held'
    <3>1. call[<<f, s>>] \in {"judged", "reuse"}
      <4>1. call[<<f, s>>] \in {"none", "reuse", "todo", "asked", "judged", "failed", "unasked", "void"}
        BY DEF ReviewInv, ReviewShape
      <4>2. call[<<f, s>>] \notin {"failed", "unasked"}
        BY <2>6 DEF Is
      <4>3. call[<<f, s>>] \notin {"todo", "void", "asked"}
        BY <2>2 DEF Is, Settled, CutShort
      <4>4. call[<<f, s>>] # "none"
        BY <2>4
      <4>5. QED
        BY <4>1, <4>2, <4>3, <4>4
    <3>2. CASE call[<<f, s>>] = "judged"
      BY <2>1, <2>3, <3>2
    <3>3. CASE call[<<f, s>>] = "reuse"
      BY <1>1, <2>1, <2>4, <2>5, <3>3 DEF KnownIn
    <3>4. QED
      BY <3>1, <3>2, <3>3
  <2> HIDE DEF fresh, complete
  <2>7. \A g \in Judged : filesNow'[g] # 0 =>
          \A s \in Sections \union {Extract} : <<g, s, filesNow'[g]>> \in held'
    <3>1. ASSUME NEW g \in Judged, filesNow'[g] # 0, NEW s \in Sections \union {Extract}
          PROVE  <<g, s, filesNow'[g]>> \in held'
      <4>1. g \in Files
        BY ReviewAssumption
      <4>2. CASE g = f /\ complete
        <5>1. filesNow'[g] = plan[f]
          BY <2>1, <4>1, <4>2 DEF ReviewInv, ReviewShape
        <5>2. QED
          BY <2>1, <2>6, <4>2, <5>1
      <4>3. CASE ~(g = f /\ complete)
        <5>1. filesNow'[g] = filesNow[g]
          BY <2>1, <4>1, <4>3 DEF ReviewInv, ReviewShape
        <5>2. QED
          BY <1>1, <2>1, <3>1, <5>1 DEF KnownIn
      <4>4. QED
        BY <4>2, <4>3
    <3>2. QED
      BY <3>1
  <2>8. \A g \in Files, s \in Sections : judgedNow'[<<g, s>>] # 0 => <<g, s, judgedNow'[<<g, s>>]>> \in held'
    <3>1. ASSUME NEW g \in Files, NEW s \in Sections, judgedNow'[<<g, s>>] # 0
          PROVE  <<g, s, judgedNow'[<<g, s>>]>> \in held'
      <4>1. judgedNow'[<<g, s>>] = IF g = f /\ call[<<g, s>>] = "judged" THEN plan[f] ELSE judgedNow[<<g, s>>]
        BY <2>1
      <4>2. QED
        BY <1>1, <2>1, <2>3, <3>1, <4>1 DEF KnownIn
    <3>2. QED
      BY <3>1
  <2>9. claims' \subseteq held'
    BY <1>1, <2>1 DEF KnownIn
  <2>10. KnownIn(held', filesNow', judgedNow', claims')
    BY <2>7, <2>8, <2>9 DEF KnownIn
  <2>11. QED
    BY <1>1, <2>1, <2>2, <2>10 DEF KnowledgeIsHeld, Saves
<1>13. CASE Retire
  <2>1. /\ filesNow' = [f \in Files |-> IF f \in removed THEN 0 ELSE filesNow[f]]
        /\ judgedNow' = [x \in Files \X Sections |-> IF x[1] \in removed THEN 0 ELSE judgedNow[x]]
        /\ phase' = "compare" /\ UNCHANGED <<held, durable, filesM, judgedM, awaitM, claims>>
    BY <1>13 DEF Retire, store, manifests
  <2>2. \A f \in Judged : filesNow'[f] = 0 \/ filesNow'[f] = filesNow[f]
    BY <2>1, ReviewAssumption
  <2>3. \A f \in Files, s \in Sections : judgedNow'[<<f, s>>] = 0 \/ judgedNow'[<<f, s>>] = judgedNow[<<f, s>>]
    BY <2>1
  <2>4. KnownIn(held, filesNow', judgedNow', claims)
    BY <1>1, <2>2, <2>3 DEF KnownIn
  <2>5. QED
    BY <1>1, <2>1, <2>4 DEF KnowledgeIsHeld, Saves
<1>14. CASE Compare
  <2>1. /\ claims' \subseteq claims /\ phase' = "flush"
        /\ UNCHANGED <<held, durable, filesM, judgedM, awaitM, filesNow, judgedNow>>
    BY <1>14 DEF Compare, store, manifests
  <2>2. KnownIn(held, filesNow, judgedNow, claims')
    BY <1>1, <2>1, KnownInMore
  <2>3. QED
    BY <1>1, <2>1, <2>2 DEF KnowledgeIsHeld, Saves
<1>15. CASE Flush
  <2>1. /\ durable' = durable \union held
        /\ UNCHANGED <<held, filesM, judgedM, awaitM, filesNow, judgedNow, claims>>
    BY <1>15 DEF Flush, Persist, manifests, learned
  <2>2. KnownIn(durable', filesM, judgedM, awaitM) /\ KnownIn(durable', filesNow, judgedNow, claims)
    BY <1>1, <2>1, KnownInMore
  <2>3. QED
    BY <1>1, <2>1, <2>2 DEF KnowledgeIsHeld
<1>16. CASE Checkpoint
  <2>1. /\ durable \subseteq durable' /\ durable' \subseteq held
        /\ UNCHANGED <<held, filesM, judgedM, awaitM, filesNow, judgedNow, claims, phase>>
    BY <1>1, <1>16 DEF Checkpoint, Persist, manifests, learned
  <2>2. KnownIn(durable', filesM, judgedM, awaitM)
        /\ (phase \in Saves => KnownIn(durable', filesNow, judgedNow, claims))
    BY <1>1, <2>1, KnownInMore
  <2>3. QED
    BY <1>1, <2>1, <2>2 DEF KnowledgeIsHeld
<1>17. CASE SaveAwaiting
  <2>1. /\ awaitM' = claims /\ phase = "saveAwaiting"
        /\ UNCHANGED <<held, durable, filesM, judgedM, filesNow, judgedNow, claims>>
    BY <1>17 DEF SaveAwaiting, store, learned
  <2>2. QED
    BY <1>1, <2>1 DEF KnowledgeIsHeld, KnownIn, Saves
<1>18. CASE SaveFiles
  <2>1. /\ filesM' = filesNow /\ phase = "saveFiles"
        /\ UNCHANGED <<held, durable, judgedM, awaitM, filesNow, judgedNow, claims>>
    BY <1>18 DEF SaveFiles, store, learned
  <2>2. QED
    BY <1>1, <2>1 DEF KnowledgeIsHeld, KnownIn, Saves
<1>19. CASE SaveJudged
  <2>1. /\ judgedM' = judgedNow /\ phase = "saveJudged"
        /\ UNCHANGED <<held, durable, filesM, awaitM, filesNow, judgedNow, claims>>
    BY <1>19 DEF SaveJudged, store, learned
  <2>2. QED
    BY <1>1, <2>1 DEF KnowledgeIsHeld, KnownIn, Saves
<1>20. CASE SaveOwed \/ SaveFails
  BY <1>1, <1>3, <1>20 DEF SaveOwed, SaveFails, store, manifests
<1>21. CASE FlushFails
  <2>1. PICK S \in {{}, held} : Persist(S, {})
    BY <1>21 DEF FlushFails
  <2>2. durable \subseteq durable' /\ durable' \subseteq held'
    BY <1>1, <2>1 DEF Persist
  <2>3. QED
    BY <1>3, <1>21, <2>2 DEF FlushFails, manifests
<1>22. CASE ReviewDies
  <2>1. PICK S \in {{}, held} : Die(S)
    BY <1>22 DEF ReviewDies
  <2>2. durable \subseteq durable' /\ durable' \subseteq held'
    BY <2>1 DEF Die
  <2>3. QED
    BY <1>3, <1>22, <2>2 DEF ReviewDies, manifests
<1>23. QED
  BY <1>4, <1>5, <1>6, <1>7, <1>8, <1>9, <1>10, <1>11, <1>12, <1>13, <1>14, <1>15, <1>16, <1>17,
     <1>18, <1>19, <1>20, <1>21, <1>22 DEF ReviewNext, RunSteps

-----------------------------------------------------------------------------
(* Files on their way to the writer. *)

LEMMA UntouchedStays == ASSUME ReviewInv, ReviewNext PROVE UntouchedUntilApplied'
<1>1. UntouchedUntilApplied /\ ReviewShape
  BY DEF ReviewInv
<1>2. ASSUME UNCHANGED <<stage, plan, finished, call>>,
             phase' \in Looping => phase \in Looping /\ UNCHANGED <<judgedNow, judgedM>>,
             phase' = "idle" => phase = "idle"
      PROVE  UntouchedUntilApplied'
  BY <1>1, <1>2 DEF UntouchedUntilApplied
<1>3. ASSUME NoRun PROVE UntouchedUntilApplied'
  BY <1>3 DEF UntouchedUntilApplied, NoRun, Looping
<1>4. CASE Start
  <2>1. /\ judgedNow' = judgedM /\ phase = "idle" /\ phase' = "pull"
        /\ UNCHANGED <<stage, finished, judgedM>>
    BY <1>4 DEF Start, manifests, pipeline
  <2>2. \A f \in Files : stage[f] = "none" /\ f \notin finished
    BY <1>1, <2>1 DEF UntouchedUntilApplied
  <2>3. QED
    BY <2>1, <2>2 DEF UntouchedUntilApplied, Looping
<1>5. CASE Pull
  <2>1. /\ UNCHANGED <<plan, finished, call, judgedNow, judgedM>>
        /\ phase \in Looping /\ phase' # "idle"
    BY <1>5 DEF Pull, Looping, manifests, planned, learned
  <2>2. \A f \in Files : stage'[f] = stage[f] \/ (stage'[f] = "reading" /\ stage[f] = "none" /\ plan[f] # 0)
    BY <1>5 DEF Pull, Work
  <2>3. QED
    BY <1>1, <2>1, <2>2 DEF UntouchedUntilApplied
<1>6. ASSUME NEW f \in Files, Read(f) PROVE UntouchedUntilApplied'
  <2>1. /\ UNCHANGED <<plan, finished, call, judgedNow, judgedM, phase>>
        /\ stage[f] = "reading"
        /\ stage' = [stage EXCEPT ![f] = "read"] \/ stage' = [stage EXCEPT ![f] = "failed"]
    BY <1>6 DEF Read, manifests, planned, learned
  <2>2. /\ \A g \in Files \ {f} : stage'[g] = stage[g]
        /\ stage'[f] \in {"read", "failed"}
    BY <1>1, <2>1 DEF ReviewShape
  <2>3. QED
    BY <1>1, <2>1, <2>2 DEF UntouchedUntilApplied
<1>7. CASE Dispatch
  <2> DEFINE f == First(Pending)
  <2>1. /\ UNCHANGED <<plan, finished, judgedNow, judgedM>>
        /\ phase = "await" /\ phase' = "drain"
        /\ stage' = [stage EXCEPT ![f] = IF @ = "read" THEN "queued" ELSE "skipped"]
    BY <1>7 DEF Dispatch, manifests, planned, learned
  <2>2. \/ /\ stage[f] # "read" \/ f \notin Judged
           /\ UNCHANGED call
        \/ call' = [x \in Files \X Sections |->
                             IF x[1] # f THEN call[x]
                             ELSE IF x[2] \in ToJudge(f) THEN "todo" ELSE "reuse"]
    BY <1>7 DEF Dispatch
  <2> HIDE DEF f
  <2>3. \A g \in Files \ {f} : stage'[g] = stage[g] /\ \A s \in Sections : call'[<<g, s>>] = call[<<g, s>>]
    BY <1>1, <2>1, <2>2 DEF ReviewShape
  <2>4. ASSUME f \in Files PROVE stage'[f] = IF stage[f] = "read" THEN "queued" ELSE "skipped"
    BY <1>1, <2>1, <2>4 DEF ReviewShape
  <2>5. ASSUME f \in Files, stage'[f] = "queued", f \in Judged, NEW s \in Sections
        PROVE  call'[<<f, s>>] # "none" /\ (call'[<<f, s>>] = "reuse" => judgedM[<<f, s>>] = plan[f])
    <3>1. call'[<<f, s>>] = IF s \in ToJudge(f) THEN "todo" ELSE "reuse"
      BY <2>2, <2>4, <2>5
    <3>2. QED
      BY <3>1 DEF ToJudge
  <2>6. QED
    BY <1>1, <2>1, <2>3, <2>4, <2>5 DEF UntouchedUntilApplied, Looping
<1>8. ASSUME NEW f \in Files, NEW s \in Sections, Ask(f, s) \/ Answer(f, s) PROVE UntouchedUntilApplied'
  <2>1. PICK what \in {"asked", "unasked", "judged", "failed", "void"} : call' = [call EXCEPT ![<<f, s>>] = what]
    BY <1>8 DEF Ask, Answer
  <2>2. UNCHANGED <<stage, plan, finished, judgedNow, judgedM, phase>>
    BY <1>8 DEF Ask, Answer, manifests, planned, learned
  <2>3. \A g \in Files, t \in Sections : call'[<<g, t>>] = call[<<g, t>>] \/ call'[<<g, t>>] = what
    BY <1>1, <2>1 DEF ReviewShape
  <2>4. QED
    BY <1>1, <2>2, <2>3 DEF UntouchedUntilApplied
<1>9. ASSUME NEW f \in Files, stage' = [stage EXCEPT ![f] = "applied"] \/ stage' = [stage EXCEPT ![f] = "abandoned"],
             finished' \subseteq finished \union {f},
             phase' = phase, phase # "idle", UNCHANGED <<plan, call, judgedM>>,
             \A g \in Files \ {f}, s \in Sections : judgedNow'[<<g, s>>] = judgedNow[<<g, s>>]
      PROVE  UntouchedUntilApplied'
  <2>1. \A g \in Files \ {f} : stage'[g] = stage[g] /\ (g \in finished' => g \in finished)
    BY <1>1, <1>9 DEF ReviewShape
  <2>2. stage'[f] \in {"applied", "abandoned"}
    BY <1>1, <1>9 DEF ReviewShape
  <2>3. QED
    BY <1>1, <1>9, <2>1, <2>2 DEF UntouchedUntilApplied
<1>10. ASSUME NEW f \in Files, ApplyUnread(f) \/ ApplyBinary(f) \/ ApplyUnjudged(f) PROVE UntouchedUntilApplied'
  <2>1. /\ stage' = [stage EXCEPT ![f] = "applied"] \/ stage' = [stage EXCEPT ![f] = "abandoned"]
        /\ finished' \subseteq finished \union {f}
        /\ phase # "idle" /\ UNCHANGED <<plan, call, judgedM, judgedNow, phase>>
    BY <1>10 DEF ApplyUnread, ApplyBinary, ApplyUnjudged, Turn, manifests, planned, learned
  <2>2. QED
    BY <1>9, <2>1
<1>11. ASSUME NEW f \in Files, ApplyJudged(f) PROVE UntouchedUntilApplied'
  <2>1. /\ stage' = [stage EXCEPT ![f] = "applied"]
        /\ finished' \subseteq finished \union {f}
        /\ phase # "idle" /\ UNCHANGED <<plan, call, judgedM, phase>>
        /\ judgedNow' = [x \in Files \X Sections |->
                           IF x[1] = f /\ call[x] = "judged" THEN plan[f] ELSE judgedNow[x]]
    BY <1>11 DEF ApplyJudged, Turn, manifests, planned
  <2>2. \A g \in Files \ {f}, s \in Sections : judgedNow'[<<g, s>>] = judgedNow[<<g, s>>]
    BY <2>1
  <2>3. QED
    BY <1>9, <2>1, <2>2
<1>12. CASE Drained \/ LoopEnds \/ Abort \/ Checkpoint
  BY <1>2, <1>12 DEF Drained, LoopEnds, Abort, Checkpoint, Looping, manifests, planned, pipeline, learned
<1>13. CASE Retire \/ Compare \/ Flush
  BY <1>2, <1>13 DEF Retire, Compare, Flush, Looping, planned, pipeline, learned
<1>14. CASE SaveAwaiting \/ SaveFiles \/ SaveJudged
  BY <1>2, <1>14 DEF SaveAwaiting, SaveFiles, SaveJudged, Looping, planned, pipeline, learned
<1>15. CASE SaveOwed \/ FlushFails \/ SaveFails \/ ReviewDies
  BY <1>3, <1>15 DEF SaveOwed, FlushFails, SaveFails, ReviewDies
<1>16. CASE \E f \in Files : Edit(f)
  BY <1>2, <1>16 DEF Edit, manifests, planned, pipeline, learned
<1>17. QED
  BY <1>4, <1>5, <1>6, <1>7, <1>8, <1>10, <1>11, <1>12, <1>13, <1>14, <1>15, <1>16 DEF ReviewNext, RunSteps

-----------------------------------------------------------------------------
(* Files that are not owed. *)

LEMMA UnowedStays == ASSUME ReviewInv, ReviewNext PROVE UnowedIsJudged'
<1>1. UnowedIsJudged /\ UntouchedUntilApplied /\ ReviewShape /\ Judged \subseteq Files
  BY ReviewAssumption DEF ReviewInv
<1>2. ASSUME UNCHANGED <<filesM, judgedM, owedM, filesNow, judgedNow, plan, finished, carried, halfSaved>>,
             phase' = "idle" <=> phase = "idle",
             phase' \in {"saveJudged", "saveOwed"} <=> phase \in {"saveJudged", "saveOwed"},
             phase' = "saveOwed" <=> phase = "saveOwed"
      PROVE  UnowedIsJudged'
  BY <1>1, <1>2 DEF UnowedIsJudged, Agree, Work
<1>3. ASSUME NoRun, UNCHANGED <<filesM, judgedM, owedM>>, ~halfSaved' => ~halfSaved /\ ~Saving
      PROVE  UnowedIsJudged'
  <2>1. phase' = "idle"
    BY <1>3 DEF NoRun
  <2>2. QED
    BY <1>1, <1>3, <2>1 DEF UnowedIsJudged, Agree, Saving
<1>4. CASE Start
  <2>1. /\ plan' = [f \in Files |-> IF Changed(f) THEN source[f] ELSE 0]
        /\ carried' = {f \in owedM : source[f] = 0 /\ filesM[f] # 0}
        /\ filesNow' = filesM /\ judgedNow' = judgedM
        /\ phase = "idle" /\ phase' = "pull"
        /\ UNCHANGED <<filesM, judgedM, owedM, finished, halfSaved>>
    BY <1>4 DEF Start, manifests
  <2>2. \A f \in Files : f \notin finished
    BY <1>1, <2>1 DEF UntouchedUntilApplied
  <2>3. ASSUME ~halfSaved, NEW f \in Judged, f \in Work' => f \in finished', f \notin carried'
        PROVE  Agree(filesM, judgedM, f)
    <3>1. f \in Files /\ plan'[f] = 0
      BY <1>1, <2>1, <2>2, <2>3 DEF Work
    <3>2. ~Changed(f)
      BY <2>1, <3>1 DEF Changed
    <3>3. CASE f \notin owedM
      BY <1>1, <2>1, <2>3, <3>3 DEF UnowedIsJudged
    <3>4. CASE f \in owedM
      BY <2>1, <2>3, <3>2, <3>4 DEF Changed, Agree
    <3>5. QED
      BY <3>3, <3>4
  <2>4. ASSUME ~halfSaved PROVE \A f \in Judged \ owedM : Agree(filesM, judgedM, f)
    BY <1>1, <2>1, <2>4 DEF UnowedIsJudged
  <2>5. QED
    BY <2>1, <2>3, <2>4 DEF UnowedIsJudged, Agree
<1>5. CASE Pull
  BY <1>2, <1>5 DEF Pull, manifests, planned, learned
<1>6. CASE \E f \in Files : Read(f) \/ ApplyUnread(f) \/ ApplyUnjudged(f) \/ Edit(f)
  BY <1>2, <1>6 DEF Read, ApplyUnread, ApplyUnjudged, Edit, manifests, planned, learned
<1>7. CASE Dispatch
  BY <1>2, <1>7 DEF Dispatch, manifests, planned, learned
<1>8. CASE \E f \in Files : \E s \in Sections : Ask(f, s) \/ Answer(f, s)
  BY <1>2, <1>8 DEF Ask, Answer, manifests, planned, learned
<1>9. ASSUME NEW f \in Files, phase' = phase, phase \in {"drain", "last"},
             UNCHANGED <<filesM, judgedM, owedM, plan, carried, halfSaved>>,
             \A g \in Judged \ {f} : /\ filesNow'[g] = filesNow[g] /\ (g \in finished' => g \in finished)
                                    /\ \A s \in Sections : judgedNow'[<<g, s>>] = judgedNow[<<g, s>>],
             f \in Judged => \/ f \in Work /\ f \notin finished'
                             \/ Agree(filesNow', judgedNow', f)
      PROVE  UnowedIsJudged'
  <2>1. ASSUME ~halfSaved, NEW g \in Judged, g \in Work => g \in finished', g \notin carried
        PROVE  Agree(filesNow', judgedNow', g)
    <3>1. CASE g = f
      BY <1>9, <2>1, <3>1
    <3>2. CASE g # f
      <4>1. Agree(filesNow, judgedNow, g)
        BY <1>1, <1>9, <2>1, <3>2 DEF UnowedIsJudged
      <4>2. QED
        BY <1>9, <3>2, <4>1 DEF Agree
    <3>3. QED
      BY <3>1, <3>2
  <2>2. ~halfSaved => \A g \in Judged \ owedM : Agree(filesM, judgedM, g)
    BY <1>1, <1>9 DEF UnowedIsJudged
  <2>3. Work' = Work
    BY <1>9 DEF Work
  <2>4. QED
    BY <1>9, <2>1, <2>2, <2>3 DEF UnowedIsJudged, Agree
<1>10. ASSUME NEW f \in Files, ApplyBinary(f) PROVE UnowedIsJudged'
  <2>1. /\ f \notin Judged /\ filesNow' = [filesNow EXCEPT ![f] = plan[f]]
        /\ finished' = finished \union {f} /\ phase \in {"drain", "last"}
        /\ UNCHANGED <<filesM, judgedM, owedM, plan, carried, halfSaved, judgedNow, phase>>
    BY <1>10 DEF ApplyBinary, Turn, manifests, planned
  <2>2. \A g \in Judged \ {f} : filesNow'[g] = filesNow[g]
    BY <1>1, <2>1 DEF ReviewShape
  <2>3. QED
    BY <1>9, <2>1, <2>2
<1>11. ASSUME NEW f \in Files, ApplyJudged(f) PROVE UnowedIsJudged'
  <2> DEFINE complete == Is(f, {"failed", "unasked"}) = {}
  <2>1. /\ judgedNow' = [x \in Files \X Sections |->
                           IF x[1] = f /\ call[x] = "judged" THEN plan[f] ELSE judgedNow[x]]
        /\ filesNow' = IF complete THEN [filesNow EXCEPT ![f] = plan[f]] ELSE filesNow
        /\ finished' = IF complete THEN finished \union {f} ELSE finished
        /\ UNCHANGED <<filesM, judgedM, owedM, plan, carried, halfSaved, phase>>
    BY <1>11 DEF ApplyJudged, manifests, planned
  <2>2. /\ phase \in {"drain", "last"} /\ stage[f] = "queued" /\ f \in Judged
        /\ Settled(f) /\ ~CutShort(f)
    BY <1>11 DEF ApplyJudged, Turn
  <2>3. /\ plan[f] # 0 /\ f \notin finished
        /\ \A s \in Sections : /\ judgedNow[<<f, s>>] = judgedM[<<f, s>>]
                               /\ call[<<f, s>>] # "none"
                               /\ call[<<f, s>>] = "reuse" => judgedM[<<f, s>>] = plan[f]
    BY <1>1, <2>2 DEF UntouchedUntilApplied, Looping
  <2>4. ASSUME complete, NEW s \in Sections PROVE judgedNow'[<<f, s>>] = plan[f]
    <3>1. call[<<f, s>>] \in {"none", "reuse", "todo", "asked", "judged", "failed", "unasked", "void"}
      BY <1>1 DEF ReviewShape
    <3>2. call[<<f, s>>] \notin {"failed", "unasked"}
      BY <2>4 DEF Is
    <3>3. call[<<f, s>>] \notin {"todo", "void", "asked"}
      BY <2>2 DEF Is, Settled, CutShort
    <3>4. judgedNow'[<<f, s>>] = IF call[<<f, s>>] = "judged" THEN plan[f] ELSE judgedNow[<<f, s>>]
      BY <2>1
    <3>5. QED
      BY <2>3, <3>1, <3>2, <3>3, <3>4
  <2> HIDE DEF complete
  <2>5. \A g \in Judged \ {f} : /\ filesNow'[g] = filesNow[g] /\ (g \in finished' => g \in finished)
                                /\ \A s \in Sections : judgedNow'[<<g, s>>] = judgedNow[<<g, s>>]
    BY <1>1, <2>1 DEF ReviewShape
  <2>6. CASE complete
    <3>1. filesNow'[f] = plan[f]
      BY <1>1, <2>1, <2>6 DEF ReviewShape
    <3>2. Agree(filesNow', judgedNow', f)
      BY <2>4, <2>6, <3>1 DEF Agree
    <3>3. QED
      BY <1>9, <2>1, <2>2, <2>5, <3>2
  <2>7. CASE ~complete
    <3>1. f \in Work /\ f \notin finished'
      BY <2>1, <2>3, <2>7 DEF Work
    <3>2. QED
      BY <1>9, <2>1, <2>2, <2>5, <3>1
  <2>8. QED
    BY <2>6, <2>7
<1>12. CASE Drained \/ LoopEnds \/ Abort \/ Checkpoint
  BY <1>2, <1>12 DEF Drained, LoopEnds, Abort, Checkpoint, manifests, planned, pipeline, learned
<1>13. CASE Retire
  <2>1. /\ filesNow' = [f \in Files |-> IF f \in removed THEN 0 ELSE filesNow[f]]
        /\ judgedNow' = [x \in Files \X Sections |-> IF x[1] \in removed THEN 0 ELSE judgedNow[x]]
        /\ phase = "retire" /\ phase' = "compare"
        /\ UNCHANGED <<filesM, judgedM, owedM, plan, finished, carried, halfSaved>>
    BY <1>13 DEF Retire, manifests, planned
  <2>2. ASSUME NEW f \in Judged, Agree(filesNow, judgedNow, f) PROVE Agree(filesNow', judgedNow', f)
    BY <1>1, <2>1, <2>2 DEF Agree
  <2>3. ASSUME ~halfSaved, NEW f \in Judged, f \in Work => f \in finished, f \notin carried
        PROVE  Agree(filesNow', judgedNow', f)
    BY <1>1, <2>1, <2>2, <2>3 DEF UnowedIsJudged
  <2>4. ~halfSaved => \A f \in Judged \ owedM : Agree(filesM, judgedM, f)
    BY <1>1, <2>1 DEF UnowedIsJudged
  <2>5. QED
    BY <2>1, <2>3, <2>4 DEF UnowedIsJudged, Agree, Work
<1>14. CASE Compare \/ Flush \/ SaveAwaiting
  BY <1>2, <1>14 DEF Compare, Flush, SaveAwaiting, manifests, planned, pipeline, learned
<1>15. CASE SaveFiles
  <2>1. /\ filesM' = filesNow /\ phase = "saveFiles" /\ phase' = "saveJudged"
        /\ UNCHANGED <<filesNow, judgedNow, plan, finished, carried, halfSaved>>
    BY <1>15 DEF SaveFiles, planned, learned
  <2>2. QED
    BY <1>1, <2>1 DEF UnowedIsJudged, Agree, Work
<1>16. CASE SaveJudged
  <2>1. /\ judgedM' = judgedNow /\ phase = "saveJudged" /\ phase' = "saveOwed"
        /\ UNCHANGED <<filesM, filesNow, judgedNow, plan, finished, carried, halfSaved>>
    BY <1>16 DEF SaveJudged, planned, learned
  <2>2. QED
    BY <1>1, <2>1 DEF UnowedIsJudged, Agree, Work
<1>17. CASE SaveOwed
  <2>1. /\ owedM' = (Work \ finished) \union {f \in carried : filesNow[f] # 0}
        /\ phase = "saveOwed" /\ phase' = "idle" /\ UNCHANGED <<filesM, judgedM, halfSaved>>
    BY <1>17 DEF SaveOwed, NoRun
  <2>2. ASSUME ~halfSaved, NEW f \in Judged \ owedM' PROVE Agree(filesM, judgedM, f)
    <3>1. filesM = filesNow /\ judgedM = judgedNow
      BY <1>1, <2>1, <2>2 DEF UnowedIsJudged
    <3>2. CASE f \in carried
      BY <2>1, <2>2, <3>1, <3>2 DEF Agree
    <3>3. CASE f \notin carried
      BY <1>1, <2>1, <2>2, <3>1, <3>3 DEF UnowedIsJudged
    <3>4. QED
      BY <3>2, <3>3
  <2>3. QED
    BY <2>1, <2>2 DEF UnowedIsJudged, Agree
<1>18. CASE FlushFails \/ SaveFails \/ ReviewDies
  BY <1>3, <1>18 DEF FlushFails, SaveFails, ReviewDies, Saving, manifests
<1>19. QED
  BY <1>4, <1>5, <1>6, <1>7, <1>8, <1>10, <1>11, <1>12, <1>13, <1>14, <1>15, <1>16, <1>17, <1>18
     DEF ReviewNext, RunSteps

-----------------------------------------------------------------------------
(* The invariant, and what follows from it. *)

LEMMA ReviewStarts == ASSUME ReviewInit PROVE ReviewInv
<1>1. 0 \in Contents /\ NoFiles \in [Files -> Contents] /\ NoSections \in [Files \X Sections -> Contents]
  BY DEF Contents, NoFiles, NoSections
<1>2. ReviewShape
  BY <1>1 DEF ReviewInit, ReviewShape
<1>3. KnowledgeIsHeld
  <2>1. /\ held = {} /\ durable = {} /\ filesM = NoFiles /\ judgedM = NoSections /\ awaitM = {}
        /\ filesNow = NoFiles /\ judgedNow = NoSections /\ claims = {} /\ phase = "idle"
    BY DEF ReviewInit, StoreInit
  <2>2. QED
    BY <2>1, NothingIsKnown DEF KnowledgeIsHeld, Saves
<1>4. UntouchedUntilApplied
  BY DEF ReviewInit, UntouchedUntilApplied, Looping
<1>5. UnowedIsJudged
  <2>1. \A f \in Judged : filesM[f] = 0
    BY ReviewAssumption DEF ReviewInit, NoFiles
  <2>2. QED
    BY <2>1 DEF ReviewInit, UnowedIsJudged, Agree
<1>6. QED
  BY <1>2, <1>3, <1>4, <1>5 DEF ReviewInv

LEMMA ReviewStutters == ASSUME ReviewInv, UNCHANGED reviewVars PROVE ReviewInv'
<1> USE DEF reviewVars, store, manifests, planned, pipeline, learned
<1>1. ReviewShape'
  BY DEF ReviewInv, ReviewShape
<1>2. KnowledgeIsHeld'
  BY DEF ReviewInv, KnowledgeIsHeld, KnownIn
<1>3. UntouchedUntilApplied'
  BY DEF ReviewInv, UntouchedUntilApplied
<1>4. UnowedIsJudged'
  BY DEF ReviewInv, UnowedIsJudged, Agree, Work
<1>5. QED
  BY <1>1, <1>2, <1>3, <1>4 DEF ReviewInv

\* Every run keeps what the manifests and the store say of each other,
\* wherever it is cut, fails or dies.
THEOREM ReviewInvariance == ReviewSpec => []ReviewInv
<1>1. ReviewInit => ReviewInv
  BY ReviewStarts
<1>2. ReviewInv /\ [ReviewNext]_reviewVars => ReviewInv'
  <2>1. ASSUME ReviewInv, ReviewNext PROVE ReviewInv'
    BY <2>1, ShapeStays, HeldStays, UntouchedStays, UnowedStays DEF ReviewInv
  <2>2. QED
    BY <2>1, ReviewStutters
<1>3. QED
  BY <1>1, <1>2, PTL DEF ReviewSpec

\* No manifest is ahead of what a crash leaves of the store (flush before save
\* in review).
THEOREM ManifestsFollow == ReviewSpec => []ManifestNotAhead
<1>1. ReviewInv => ManifestNotAhead
  BY DEF ReviewInv, KnowledgeIsHeld, KnownIn, ManifestNotAhead
<1>2. QED
  BY <1>1, ReviewInvariance, PTL

\* Between runs, a file that the next plan passes over is judged at what it
\* holds (owedAfterRun, and the hashes of the plan).
THEOREM NothingIsForgotten == ReviewSpec => []SkippedIsKnown
<1>1. ReviewInv => SkippedIsKnown
  <2>1. ASSUME ReviewInv, phase = "idle", ~halfSaved, NEW f \in Judged, source[f] # 0, ~Changed(f),
               NEW s \in Sections
        PROVE  judgedM[<<f, s>>] = source[f]
    <3>1. filesM[f] = source[f] /\ f \notin owedM
      BY <2>1 DEF Changed
    <3>2. Agree(filesM, judgedM, f)
      BY <2>1, <3>1 DEF ReviewInv, UnowedIsJudged
    <3>3. QED
      BY <2>1, <3>1, <3>2 DEF Agree
  <2>2. QED
    BY <2>1 DEF SkippedIsKnown
<1>2. QED
  BY <1>1, ReviewInvariance, PTL

-----------------------------------------------------------------------------
(* The types of the rest. *)

Phases == {"idle", "pull", "await", "drain", "last", "retire", "compare", "flush",
           "saveAwaiting", "saveFiles", "saveJudged", "saveOwed"}

LearnedTypes ==
  /\ held \subseteq Items /\ durable \subseteq Items /\ promised \subseteq Items
  /\ awaitM \subseteq Items /\ claims \subseteq Items
  /\ owedM \subseteq Files /\ finished \subseteq Files /\ removed \subseteq Files /\ carried \subseteq Files

BudgetTypes == allot \in [Files -> Nat] /\ used \in Nat /\ made \in Nat

ControlTypes ==
  /\ phase \in Phases /\ streak \in Nat
  /\ stopped \in BOOLEAN /\ aborted \in BOOLEAN /\ cut \in BOOLEAN /\ halfSaved \in BOOLEAN
  /\ runs \in Nat /\ edits \in Nat /\ crashes \in Nat

LEMMA TypesInParts == ReviewTypeOK <=> ReviewShape /\ LearnedTypes /\ BudgetTypes /\ ControlTypes
  BY DEF ReviewTypeOK, ReviewShape, LearnedTypes, BudgetTypes, ControlTypes, Phases

\* The sections of a file are finitely many, and so are its calls.
LEMMA SectionsAreFinite ==
  ASSUME NEW S \in SUBSET Sections
  PROVE  IsFiniteSet(S) /\ Cardinality(S) \in Nat
  BY ReviewAssumption, FS_Subset, FS_CardinalityType

LEMMA AskedIsNumber == ASSUME NEW f PROVE Asked(f) \in Nat
  BY SectionsAreFinite DEF Asked

\* A set of files has a first.
LEMMA SmallestFile ==
  ASSUME NEW S \in SUBSET Nat, S # {}
  PROVE  \E n \in S : \A m \in S : n <= m
<1>1. PICK n \in S : \A m \in S : ~(<<m, n>> \in OpToRel(<, Nat))
  BY NatLessThanWellFounded, WFMin
<1>2. \A m \in S : ~(m < n)
  BY <1>1 DEF OpToRel
<1>3. QED
  BY <1>2

\* What a file gets: what it needs, or what is left.
LEMMA Reserving ==
  ASSUME NEW f, used \in Nat, used <= ModelCalls
  PROVE  /\ Reserve(f) \in Nat /\ Cardinality(ToJudge(f)) \in Nat
         /\ used + Reserve(f) <= ModelCalls
         /\ Reserve(f) <= Cardinality(ToJudge(f))
         /\ Reserve(f) < Cardinality(ToJudge(f)) => used + Reserve(f) = ModelCalls
<1>1. Cardinality(ToJudge(f)) \in Nat
  BY SectionsAreFinite DEF ToJudge
<1>2. ModelCalls \in Nat
  BY ReviewAssumption
<1> DEFINE n == Cardinality(ToJudge(f))
<1>3. Reserve(f) = IF n <= ModelCalls - used THEN n ELSE ModelCalls - used
  BY DEF Reserve
<1>4. n \in Nat
  BY <1>1
<1> HIDE DEF n
<1>5. QED
  BY <1>2, <1>3, <1>4 DEF n

LEMMA LearnedStays == ASSUME ReviewInv, LearnedTypes, ReviewNext PROVE LearnedTypes'
<1> USE DEF LearnedTypes
<1>1. ReviewShape /\ UntouchedUntilApplied
  BY DEF ReviewInv
<1>2. ASSUME NoRun, UNCHANGED <<awaitM, owedM>>,
             held' \subseteq Items, durable' \subseteq Items, promised' \subseteq Items
      PROVE  LearnedTypes'
  BY <1>2 DEF NoRun
<1>3. ASSUME NEW S, NEW P, Persist(S, P)
      PROVE  held' \subseteq Items /\ durable' \subseteq Items /\ promised' \subseteq Items
  BY <1>3 DEF Persist
<1>4. CASE Start
  BY <1>4 DEF Start, store, manifests
<1>5. CASE Pull \/ Dispatch \/ Drained \/ LoopEnds \/ Abort
  BY <1>5 DEF Pull, Dispatch, Drained, LoopEnds, Abort, store, manifests, planned, learned
<1>6. CASE \E f \in Files : Read(f) \/ ApplyUnread(f) \/ Edit(f)
  BY <1>6 DEF Read, ApplyUnread, Edit, store, manifests, planned, learned
<1>7. CASE \E f \in Files : \E s \in Sections : Ask(f, s) \/ Answer(f, s)
  BY <1>7 DEF Ask, Answer, store, manifests, planned, learned
<1>8. ASSUME NEW f \in Files, ApplyBinary(f) PROVE LearnedTypes'
  BY <1>8 DEF ApplyBinary, store, manifests, planned
<1>9. ASSUME NEW f \in Files, stage[f] = "queued", NEW s \in Sections \union {Extract}
      PROVE  <<f, s, plan[f]>> \in Items
  BY <1>1, <1>9 DEF UntouchedUntilApplied, ReviewShape, Contents, Items
<1>10. ASSUME NEW f \in Files, ApplyUnjudged(f) PROVE LearnedTypes'
  <2>1. /\ held' = held \union {<<f, Extract, plan[f]>>} /\ stage[f] = "queued"
        /\ UNCHANGED <<durable, promised, awaitM, claims, owedM, finished, removed, carried>>
    BY <1>10 DEF ApplyUnjudged, Apply, manifests, planned, learned
  <2>2. QED
    BY <1>9, <2>1
<1>11. ASSUME NEW f \in Files, ApplyJudged(f) PROVE LearnedTypes'
  <2> DEFINE fresh == {<<f, s, plan[f]>> : s \in Is(f, {"judged"})}
  <2>1. /\ held' = held \union (fresh \union {<<f, Extract, plan[f]>>}) /\ stage[f] = "queued"
        /\ claims' = claims \union fresh /\ finished' \subseteq finished \union {f}
        /\ UNCHANGED <<durable, promised, awaitM, owedM, removed, carried>>
    BY <1>11 DEF ApplyJudged, Apply, manifests, planned
  <2>2. fresh \subseteq Items
    BY <1>9, <2>1 DEF Is
  <2> HIDE DEF fresh
  <2>3. QED
    BY <1>9, <2>1, <2>2
<1>12. CASE Retire \/ Compare
  BY <1>12 DEF Retire, Compare, store, manifests, planned
<1>13. CASE Flush
  BY <1>3, <1>13 DEF Flush, manifests, planned, learned
<1>14. CASE Checkpoint
  BY <1>3, <1>14 DEF Checkpoint, manifests, planned, learned
<1>15. CASE SaveAwaiting \/ SaveFiles \/ SaveJudged
  BY <1>15 DEF SaveAwaiting, SaveFiles, SaveJudged, store, planned, learned
<1>16. CASE SaveOwed
  BY <1>16 DEF SaveOwed, NoRun, Work, store
<1>17. CASE FlushFails
  BY <1>2, <1>3, <1>17 DEF FlushFails, manifests
<1>18. CASE SaveFails
  BY <1>2, <1>18 DEF SaveFails, store, manifests
<1>19. CASE ReviewDies
  <2>1. held' \subseteq Items /\ durable' \subseteq Items /\ promised' \subseteq Items
    BY <1>19 DEF ReviewDies, Die
  <2>2. QED
    BY <1>2, <1>19, <2>1 DEF ReviewDies, manifests
<1>20. QED
  BY <1>4, <1>5, <1>6, <1>7, <1>8, <1>10, <1>11, <1>12, <1>13, <1>14, <1>15, <1>16, <1>17, <1>18, <1>19
     DEF ReviewNext, RunSteps

LEMMA BudgetTypesStay == ASSUME BudgetTypes, used <= ModelCalls, ReviewNext PROVE BudgetTypes'
<1> USE DEF BudgetTypes
<1>1. CASE UNCHANGED <<allot, used, made>>
  BY <1>1
<1>2. CASE NoRun
  BY <1>2 DEF NoRun, NoFiles
<1>3. CASE Dispatch
  <2> DEFINE f == First(Pending)
  <2>1. /\ made' = made
        /\ \/ UNCHANGED <<allot, used>>
           \/ allot' = [allot EXCEPT ![f] = Reserve(f)] /\ used' = used + Reserve(f)
    BY <1>3 DEF Dispatch
  <2>2. Reserve(f) \in Nat
    BY Reserving
  <2> HIDE DEF f
  <2>3. QED
    BY <2>1, <2>2
<1>4. CASE \E f \in Files : \E s \in Sections : Ask(f, s)
  BY <1>4 DEF Ask
<1>5. CASE Compare
  <2>1. PICK n \in 0..(ModelCalls - used) : used' = used + n /\ made' = made + n
    BY <1>5 DEF Compare
  <2>2. allot' = allot
    BY <1>5 DEF Compare
  <2>3. QED
    BY <2>1, <2>2
<1>6. ASSUME ReviewNext
      PROVE  \/ UNCHANGED <<allot, used, made>> \/ NoRun \/ Dispatch \/ Compare
             \/ \E f \in Files : \E s \in Sections : Ask(f, s)
  BY <1>6 DEF ReviewNext, RunSteps, Start, Pull, Read, Answer, ApplyUnread, ApplyBinary, ApplyUnjudged,
              ApplyJudged, Drained, LoopEnds, Abort, Retire, Flush, FlushFails, SaveAwaiting, SaveFiles,
              SaveJudged, SaveOwed, SaveFails, Checkpoint, Edit, ReviewDies, pipeline
<1>7. QED
  BY <1>1, <1>2, <1>3, <1>4, <1>5, <1>6

LEMMA ControlStays == ASSUME ControlTypes, ReviewNext PROVE ControlTypes'
<1> USE DEF ControlTypes, Phases
<1>1. CASE Start
  BY <1>1 DEF Start, pipeline, signals
<1>2. CASE Pull \/ Dispatch \/ Drained \/ LoopEnds \/ Retire \/ Compare \/ Flush
  BY <1>2 DEF Pull, Dispatch, Drained, LoopEnds, Retire, Compare, Flush, pipeline, signals, bounds
<1>3. CASE Abort
  BY <1>3 DEF Abort, pipeline, bounds
<1>4. CASE \E f \in Files : Read(f) \/ ApplyUnread(f) \/ ApplyBinary(f) \/ ApplyUnjudged(f) \/ ApplyJudged(f)
  BY <1>4 DEF Read, ApplyUnread, ApplyBinary, ApplyUnjudged, ApplyJudged, signals, bounds
<1>5. ASSUME NEW f \in Files, NEW s \in Sections, Ask(f, s) \/ Answer(f, s) PROVE ControlTypes'
  <2>1. UNCHANGED <<phase, aborted, cut, halfSaved, runs, edits, crashes>>
    BY <1>5 DEF Ask, Answer, signals, bounds
  <2>2. streak' = streak \/ streak' = 0 \/ streak' = streak + 1
    BY <1>5 DEF Ask, Answer
  <2>3. stopped' = stopped \/ stopped' = (stopped \/ streak' = FailLimit)
    BY <1>5 DEF Ask, Answer
  <2>4. streak' \in Nat
    BY <2>2
  <2>5. stopped' \in BOOLEAN
    BY ONLY <2>3, stopped \in BOOLEAN
  <2>6. QED
    BY <2>1, <2>4, <2>5
<1>6. CASE SaveAwaiting \/ SaveFiles \/ SaveJudged \/ Checkpoint
  BY <1>6 DEF SaveAwaiting, SaveFiles, SaveJudged, Checkpoint, pipeline, signals, bounds
<1>7. ASSUME NoRun, halfSaved' \in BOOLEAN, runs' \in Nat, edits' \in Nat, crashes' \in Nat
      PROVE  ControlTypes'
  BY <1>7 DEF NoRun
<1>8. CASE SaveOwed \/ FlushFails
  BY <1>7, <1>8 DEF SaveOwed, FlushFails, bounds
<1>9. CASE SaveFails \/ ReviewDies
  <2>1. /\ NoRun /\ crashes' = crashes + 1 /\ UNCHANGED <<runs, edits>>
        /\ halfSaved' = (halfSaved \/ Saving)
    BY <1>9 DEF SaveFails, ReviewDies
  <2>2. halfSaved' \in BOOLEAN
    BY <2>1 DEF Saving
  <2>3. QED
    BY <1>7, <2>1, <2>2
<1>10. CASE \E f \in Files : Edit(f)
  BY <1>10 DEF Edit, pipeline, signals
<1>11. QED
  BY <1>1, <1>2, <1>3, <1>4, <1>5, <1>6, <1>8, <1>9, <1>10 DEF ReviewNext, RunSteps

LEMMA TypesStay ==
  ASSUME ReviewInv, ReviewTypeOK, used <= ModelCalls, ReviewNext PROVE ReviewTypeOK'
<1>1. ReviewShape' /\ LearnedTypes' /\ BudgetTypes' /\ ControlTypes'
  BY TypesInParts, ShapeStays, LearnedStays, BudgetTypesStay, ControlStays DEF ReviewInv
<1>2. QED
  BY <1>1 DEF ReviewTypeOK, ReviewShape, LearnedTypes, BudgetTypes, ControlTypes, Phases

-----------------------------------------------------------------------------
(* The calls are counted. *)

\* A step that asks nothing and reserves nothing.
LEMMA CountsUntouched ==
  ASSUME CallsAreCounted, UNCHANGED <<allot, used, made>>, \A f \in Files : Asked(f)' = Asked(f)
  PROVE  CallsAreCounted'
<1>1. \A x \in Files \X (1..ModelCalls) : Asked(x[1])' = Asked(x[1])
  OBVIOUS
<1>2. Unspent' = Unspent
  BY <1>1 DEF Unspent
<1>3. QED
  BY <1>2 DEF CallsAreCounted

LEMMA CallsUntouched ==
  ASSUME CallsAreCounted, UNCHANGED <<allot, used, made, call>>
  PROVE  CallsAreCounted'
<1>1. \A f \in Files : Asked(f)' = Asked(f)
  BY DEF Asked
<1>2. QED
  BY <1>1, CountsUntouched

LEMMA UnspentIsFinite == IsFiniteSet(Unspent) /\ Cardinality(Unspent) \in Nat
<1>1. IsFiniteSet(1..ModelCalls) /\ IsFiniteSet(Files)
  BY ReviewAssumption, FS_Interval
<1>2. IsFiniteSet(Files \X (1..ModelCalls))
  BY <1>1, FS_Product
<1>3. Unspent \in SUBSET (Files \X (1..ModelCalls))
  BY DEF Unspent
<1>4. QED
  BY <1>2, <1>3, FS_Subset, FS_CardinalityType

LEMMA RunEndsCounted == ASSUME NoRun PROVE CallsAreCounted'
<1>1. allot' = NoFiles /\ used' = 0 /\ made' = 0
  BY DEF NoRun
<1>2. \A f \in Files : allot'[f] = 0
  BY <1>1 DEF NoFiles
<1>3. ASSUME NEW x \in Files \X (1..ModelCalls) PROVE ~(x[2] <= allot'[x[1]])
  <2>1. allot'[x[1]] = 0 /\ x[2] \in 1..ModelCalls
    BY <1>2, <1>3
  <2>2. QED
    BY <2>1, ReviewAssumption
<1>4. Unspent' = {}
  BY <1>3 DEF Unspent
<1>5. QED
  BY <1>1, <1>2, <1>4, FS_EmptySet, ReviewAssumption DEF CallsAreCounted

\* The reserved calls of a file are added to those that are not made.
LEMMA DispatchCounts ==
  ASSUME ReviewShape, BudgetTypes, CallsAreCounted, NEW f \in Files, allot[f] = 0, NEW n \in Nat,
         used + n <= ModelCalls,
         allot' = [allot EXCEPT ![f] = n], used' = used + n, made' = made,
         \A g \in Files \ {f} : Asked(g)' = Asked(g), Asked(f)' = 0
  PROVE  CallsAreCounted'
<1> DEFINE new == {f} \X (1..n)
<1>1. used \in Nat /\ made \in Nat /\ ModelCalls \in Nat /\ n <= ModelCalls
  BY ReviewAssumption DEF BudgetTypes
<1>2. /\ allot'[f] = n
      /\ \A g \in Files \ {f} : allot'[g] = allot[g]
  BY DEF BudgetTypes
<1>3. ASSUME NEW g \in Files, NEW i \in 1..ModelCalls
      PROVE  <<g, i>> \in Unspent' <=> <<g, i>> \in Unspent \union new
  <2>1. <<g, i>> \in Unspent' <=> Asked(g)' < i /\ i <= allot'[g]
    BY DEF Unspent
  <2>2. <<g, i>> \in Unspent <=> Asked(g) < i /\ i <= allot[g]
    BY DEF Unspent
  <2>3. CASE g = f
    <3>1. <<g, i>> \notin Unspent
      BY <1>1, <2>2, <2>3
    <3>2. <<g, i>> \in Unspent' <=> i <= n
      BY <1>1, <1>2, <2>1, <2>3
    <3>3. QED
      BY <1>1, <2>3, <3>1, <3>2
  <2>4. CASE g # f
    BY <1>2, <2>1, <2>2, <2>4
  <2>5. QED
    BY <2>3, <2>4
<1>4. Unspent' = Unspent \union new
  <2>1. new \subseteq Files \X (1..ModelCalls)
    BY <1>1
  <2>2. Unspent \subseteq Files \X (1..ModelCalls) /\ Unspent' \subseteq Files \X (1..ModelCalls)
    BY DEF Unspent
  <2>3. \A x \in Files \X (1..ModelCalls) : \E g \in Files, i \in 1..ModelCalls : x = <<g, i>>
    OBVIOUS
  <2> HIDE DEF new
  <2>4. QED
    BY <1>3, <2>1, <2>2, <2>3
<1>5. Unspent \intersect new = {}
  <2>1. ASSUME NEW i \in 1..n, <<f, i>> \in Unspent PROVE FALSE
    <3>1. i <= allot[f]
      BY <2>1 DEF Unspent
    <3>2. QED
      BY <3>1
  <2>2. QED
    BY <2>1
<1>6. IsFiniteSet(new) /\ Cardinality(new) = n
  <2>1. IsFiniteSet({f}) /\ Cardinality({f}) = 1
    BY FS_Singleton
  <2>2. IsFiniteSet(1..n) /\ Cardinality(1..n) = n
    BY FS_Interval
  <2>3. IsFiniteSet(new) /\ Cardinality(new) = Cardinality({f}) * Cardinality(1..n)
    BY <2>1, <2>2, FS_Product
  <2>4. QED
    BY <2>1, <2>2, <2>3
<1> HIDE DEF new
<1>7. Cardinality(Unspent') = Cardinality(Unspent) + n
  <2>1. IsFiniteSet(Unspent) /\ Cardinality(Unspent) \in Nat
    BY UnspentIsFinite
  <2>2. Cardinality(Unspent \union new) = Cardinality(Unspent) + n - Cardinality(Unspent \intersect new)
    BY <1>6, <2>1, FS_Union
  <2>3. QED
    BY <1>4, <1>5, <2>1, <2>2, FS_EmptySet
<1>8. \A g \in Files : allot'[g] <= ModelCalls
  BY <1>1, <1>2 DEF CallsAreCounted
<1>9. used' <= ModelCalls /\ used' = made' + Cardinality(Unspent)'
  BY <1>1, <1>7, UnspentIsFinite DEF CallsAreCounted
<1>10. QED
  BY <1>8, <1>9 DEF CallsAreCounted

\* A call that is made is no longer among them.
LEMMA AskCounts ==
  ASSUME BudgetTypes, CallsAreCounted, NEW f \in Files, Asked(f) < allot[f],
         UNCHANGED <<allot, used>>, made' = made + 1,
         \A g \in Files \ {f} : Asked(g)' = Asked(g), Asked(f)' = Asked(f) + 1
  PROVE  CallsAreCounted'
<1> DEFINE x == <<f, Asked(f) + 1>>
<1>1. /\ used \in Nat /\ made \in Nat /\ ModelCalls \in Nat /\ Asked(f) \in Nat
      /\ allot[f] \in Nat /\ allot[f] <= ModelCalls
  BY ReviewAssumption, AskedIsNumber DEF BudgetTypes, CallsAreCounted
<1>2. Asked(f) + 1 \in 1..ModelCalls /\ Asked(f) + 1 <= allot[f]
  BY <1>1
<1>3. x \in Unspent
  BY <1>1, <1>2 DEF Unspent
<1>4. ASSUME NEW g \in Files, NEW i \in 1..ModelCalls
      PROVE  <<g, i>> \in Unspent' <=> <<g, i>> \in Unspent \ {x}
  <2>1. <<g, i>> \in Unspent' <=> Asked(g)' < i /\ i <= allot[g]
    BY DEF Unspent
  <2>2. <<g, i>> \in Unspent <=> Asked(g) < i /\ i <= allot[g]
    BY DEF Unspent
  <2>3. CASE g = f
    <3>1. Asked(f) + 1 < i <=> Asked(f) < i /\ i # Asked(f) + 1
      BY <1>1
    <3>2. QED
      BY <2>1, <2>2, <2>3, <3>1
  <2>4. CASE g # f
    BY <2>1, <2>2, <2>4
  <2>5. QED
    BY <2>3, <2>4
<1> HIDE DEF x
<1>5. Unspent' = Unspent \ {x}
  <2>1. Unspent \subseteq Files \X (1..ModelCalls) /\ Unspent' \subseteq Files \X (1..ModelCalls)
    BY DEF Unspent
  <2>2. \A y \in Files \X (1..ModelCalls) : \E g \in Files, i \in 1..ModelCalls : y = <<g, i>>
    OBVIOUS
  <2>3. QED
    BY <1>4, <2>1, <2>2
<1>6. Cardinality(Unspent') = Cardinality(Unspent) - 1 /\ Cardinality(Unspent) \in Nat
  BY <1>3, <1>5, UnspentIsFinite, FS_RemoveElement
<1>7. used' <= ModelCalls /\ used' = made' + Cardinality(Unspent)'
  BY <1>1, <1>6 DEF CallsAreCounted
<1>8. QED
  BY <1>7 DEF CallsAreCounted

\* What a step of one section does to the counts of the files.
LEMMA AskedMoves ==
  ASSUME ReviewShape, NEW f \in Files, NEW s \in Sections, NEW what,
         call' = [call EXCEPT ![<<f, s>>] = what]
  PROVE  /\ \A g \in Files \ {f} : Asked(g)' = Asked(g)
         /\ call[<<f, s>>] = "todo" /\ what = "asked" => Asked(f)' = Asked(f) + 1
         /\ call[<<f, s>>] = "todo" /\ what = "unasked" => Asked(f)' = Asked(f)
         /\ call[<<f, s>>] = "asked" /\ what \in {"judged", "failed", "void"} => Asked(f)' = Asked(f)
<1> DEFINE Of(g) == {t \in Sections : call[<<g, t>>] \in {"asked", "judged", "failed", "void"}}
<1>1. \A g : Asked(g) = Cardinality(Of(g)) /\ Asked(g)' = Cardinality(Of(g)')
  BY DEF Asked
<1>2. \A g \in Files, t \in Sections :
        call'[<<g, t>>] = IF g = f /\ t = s THEN what ELSE call[<<g, t>>]
  BY DEF ReviewShape
<1>3. \A g \in Files \ {f} : Of(g)' = Of(g)
  BY <1>2
<1>4. CASE call[<<f, s>>] = "todo" /\ what = "asked"
  <2>1. Of(f)' = Of(f) \union {s} /\ s \notin Of(f)
    BY <1>2, <1>4
  <2>2. IsFiniteSet(Of(f)) /\ Cardinality(Of(f)) \in Nat
    BY SectionsAreFinite
  <2> HIDE DEF Of
  <2>3. Cardinality(Of(f)') = Cardinality(Of(f)) + 1
    BY <2>1, <2>2, FS_AddElement
  <2>4. QED
    BY <1>1, <1>3, <1>4, <2>3
<1>5. CASE \/ call[<<f, s>>] = "todo" /\ what = "unasked"
           \/ call[<<f, s>>] = "asked" /\ what \in {"judged", "failed", "void"}
  <2>1. Of(f)' = Of(f)
    BY <1>2, <1>5
  <2> HIDE DEF Of
  <2>2. QED
    BY <1>1, <1>3, <1>5, <2>1
<1>6. \A g \in Files \ {f} : Asked(g)' = Asked(g)
  BY <1>1, <1>3
<1>7. QED
  BY <1>4, <1>5, <1>6

\* The file whose turn it is has no calls yet.
LEMMA DispatchStarts ==
  ASSUME ReviewShape, BudgetTypes, FilesInTurn, Dispatch
  PROVE  \E f \in Files :
           /\ f = First(Pending) /\ f \in Work /\ stage[f] \in {"read", "failed"}
           /\ \A g \in Pending : f <= g
           /\ allot[f] = 0 /\ \A s \in Sections : call[<<f, s>>] = "none"
           /\ stage' = [stage EXCEPT ![f] = IF @ = "read" THEN "queued" ELSE "skipped"]
           /\ \/ UNCHANGED <<allot, used, call>>
              \/ /\ f \in Judged /\ stage[f] = "read"
                 /\ allot' = [allot EXCEPT ![f] = Reserve(f)] /\ used' = used + Reserve(f)
                 /\ \A g \in Files \ {f}, s \in Sections : call'[<<g, s>>] = call[<<g, s>>]
                 /\ \A s \in Sections : call'[<<f, s>>] = IF s \in ToJudge(f) THEN "todo" ELSE "reuse"
           /\ UNCHANGED <<made, plan, removed, judgedM, judgedNow>>
<1> DEFINE f == First(Pending)
<1>1. /\ phase = "await" /\ stage[f] # "reading"
      /\ stage' = [stage EXCEPT ![f] = IF @ = "read" THEN "queued" ELSE "skipped"]
      /\ \/ UNCHANGED <<allot, used, call>>
         \/ /\ f \in Judged /\ stage[f] = "read"
            /\ allot' = [allot EXCEPT ![f] = Reserve(f)]
            /\ used' = used + Reserve(f)
            /\ call' = [x \in Files \X Sections |->
                          IF x[1] # f THEN call[x]
                          ELSE IF x[2] \in ToJudge(f) THEN "todo" ELSE "reuse"]
      /\ UNCHANGED <<made, plan, removed, judgedM, judgedNow>>
  BY DEF Dispatch, manifests, planned, learned
<1>2. Pending \in SUBSET Nat /\ Pending # {} /\ Pending \subseteq Files
  BY <1>1, ReviewAssumption DEF FilesInTurn, Pending, In
<1>3. f \in Pending /\ \A g \in Pending : f <= g
  <2>1. \E g \in Pending : \A h \in Pending : g <= h
    BY <1>2, SmallestFile
  <2>2. QED
    BY <2>1 DEF First
<1> HIDE DEF f
<1>4. f \in Files /\ stage[f] \in {"read", "failed"}
  BY <1>1, <1>3 DEF Pending, In
<1>5. f \in Work /\ allot[f] = 0 /\ \A s \in Sections : call[<<f, s>>] = "none"
  BY <1>4 DEF FilesInTurn, Ahead
<1>6. \/ UNCHANGED <<allot, used, call>>
      \/ /\ f \in Judged /\ stage[f] = "read"
         /\ allot' = [allot EXCEPT ![f] = Reserve(f)] /\ used' = used + Reserve(f)
         /\ \A g \in Files \ {f}, s \in Sections : call'[<<g, s>>] = call[<<g, s>>]
         /\ \A s \in Sections : call'[<<f, s>>] = IF s \in ToJudge(f) THEN "todo" ELSE "reuse"
  <2>1. CASE UNCHANGED <<allot, used, call>>
    BY <2>1
  <2>2. CASE ~UNCHANGED <<allot, used, call>>
    <3>1. call' = [x \in Files \X Sections |->
                          IF x[1] # f THEN call[x]
                          ELSE IF x[2] \in ToJudge(f) THEN "todo" ELSE "reuse"]
      BY <1>1, <2>2
    <3>2. \A g \in Files \ {f}, s \in Sections : call'[<<g, s>>] = call[<<g, s>>]
      BY <3>1
    <3>3. \A s \in Sections : call'[<<f, s>>] = IF s \in ToJudge(f) THEN "todo" ELSE "reuse"
      BY <1>4, <3>1
    <3>4. QED
      BY <1>1, <2>2, <3>2, <3>3
  <2>3. QED
    BY <2>1, <2>2
<1>7. f = First(Pending)
  BY DEF f
<1>8. QED
  BY <1>1, <1>3, <1>4, <1>5, <1>6, <1>7

LEMMA CountsStay ==
  ASSUME ReviewInv, BudgetInv, ReviewNext PROVE CallsAreCounted'
<1>1. ReviewShape /\ BudgetTypes /\ CallsAreCounted /\ FilesInTurn
  BY TypesInParts DEF BudgetInv
<1>2. used \in Nat /\ made \in Nat /\ used <= ModelCalls /\ ModelCalls \in Nat
  BY <1>1, ReviewAssumption DEF BudgetTypes, CallsAreCounted
<1>3. CASE Dispatch
  <2>1. PICK f \in Files :
           /\ allot[f] = 0 /\ \A s \in Sections : call[<<f, s>>] = "none"
           /\ \/ UNCHANGED <<allot, used, call>>
              \/ /\ allot' = [allot EXCEPT ![f] = Reserve(f)] /\ used' = used + Reserve(f)
                 /\ \A g \in Files \ {f}, s \in Sections : call'[<<g, s>>] = call[<<g, s>>]
                 /\ \A s \in Sections : call'[<<f, s>>] = IF s \in ToJudge(f) THEN "todo" ELSE "reuse"
           /\ made' = made
    BY <1>1, <1>3, DispatchStarts
  <2>2. CASE UNCHANGED <<allot, used, call>>
    BY <1>1, <2>1, <2>2, CallsUntouched
  <2>3. CASE ~UNCHANGED <<allot, used, call>>
    <3>1. \A g \in Files \ {f} : Asked(g)' = Asked(g)
      BY <2>1, <2>3 DEF Asked
    <3>2. Asked(f)' = 0
      <4>1. {s \in Sections : call'[<<f, s>>] \in {"asked", "judged", "failed", "void"}} = {}
        BY <2>1, <2>3
      <4>2. QED
        BY <4>1, FS_EmptySet DEF Asked
    <3>3. Reserve(f) \in Nat /\ used + Reserve(f) <= ModelCalls
      BY <1>2, Reserving
    <3>4. QED
      BY <1>1, <2>1, <2>3, <3>1, <3>2, <3>3, DispatchCounts
  <2>4. QED
    BY <2>2, <2>3
<1>4. ASSUME NEW f \in Files, NEW s \in Sections, Ask(f, s) PROVE CallsAreCounted'
  <2>1. call[<<f, s>>] = "todo" /\ UNCHANGED <<allot, used>>
    BY <1>4 DEF Ask
  <2>2. CASE Asked(f) < allot[f] /\ ~stopped
    <3>1. call' = [call EXCEPT ![<<f, s>>] = "asked"] /\ made' = made + 1
      BY <1>4, <2>2 DEF Ask
    <3>2. (\A g \in Files \ {f} : Asked(g)' = Asked(g)) /\ Asked(f)' = Asked(f) + 1
      BY <1>1, <2>1, <3>1, AskedMoves
    <3>3. QED
      BY <1>1, <2>1, <2>2, <3>1, <3>2, AskCounts
  <2>3. CASE ~(Asked(f) < allot[f] /\ ~stopped)
    <3>1. call' = [call EXCEPT ![<<f, s>>] = "unasked"] /\ made' = made
      BY <1>4, <2>3 DEF Ask
    <3>2. \A g \in Files : Asked(g)' = Asked(g)
      BY <1>1, <2>1, <3>1, AskedMoves
    <3>3. QED
      BY <1>1, <2>1, <3>1, <3>2, CountsUntouched
  <2>4. QED
    BY <2>2, <2>3
<1>5. ASSUME NEW f \in Files, NEW s \in Sections, Answer(f, s) PROVE CallsAreCounted'
  <2>1. PICK what \in {"judged", "failed", "void"} : call' = [call EXCEPT ![<<f, s>>] = what]
    BY <1>5 DEF Answer
  <2>2. call[<<f, s>>] = "asked" /\ UNCHANGED <<allot, used, made>>
    BY <1>5 DEF Answer
  <2>3. \A g \in Files : Asked(g)' = Asked(g)
    BY <1>1, <2>1, <2>2, AskedMoves
  <2>4. QED
    BY <1>1, <2>2, <2>3, CountsUntouched
<1>6. CASE Compare
  <2>1. PICK n \in 0..(ModelCalls - used) : used' = used + n /\ made' = made + n
    BY <1>6 DEF Compare
  <2>2. UNCHANGED <<allot, call>>
    BY <1>6 DEF Compare
  <2>3. \A g : Asked(g)' = Asked(g)
    BY <2>2 DEF Asked
  <2>4. Unspent' = Unspent
    BY <2>2, <2>3 DEF Unspent
  <2>5. used' <= ModelCalls /\ used' = made' + Cardinality(Unspent)'
    BY <1>1, <1>2, <2>1, <2>4, UnspentIsFinite DEF CallsAreCounted
  <2>6. QED
    BY <1>1, <2>2, <2>5 DEF CallsAreCounted
<1>7. CASE UNCHANGED <<allot, used, made, call>>
  BY <1>1, <1>7, CallsUntouched
<1>8. CASE NoRun
  BY <1>8, RunEndsCounted
<1>9. ASSUME ReviewNext
      PROVE  \/ UNCHANGED <<allot, used, made, call>> \/ NoRun \/ Dispatch \/ Compare
             \/ \E f \in Files : \E s \in Sections : Ask(f, s) \/ Answer(f, s)
  BY <1>9 DEF ReviewNext, RunSteps, Start, Pull, Read, ApplyUnread, ApplyBinary, ApplyUnjudged,
              ApplyJudged, Drained, LoopEnds, Abort, Retire, Flush, FlushFails, SaveAwaiting, SaveFiles,
              SaveJudged, SaveOwed, SaveFails, Checkpoint, Edit, ReviewDies, pipeline
<1>10. QED
  BY <1>3, <1>4, <1>5, <1>6, <1>7, <1>8, <1>9

-----------------------------------------------------------------------------
(* Files are dispatched in their turn. *)

LEMMA TurnsUntouched ==
  ASSUME FilesInTurn, UNCHANGED <<stage, plan, allot, call>>, phase' = "await" => phase = "await"
  PROVE  FilesInTurn'
  BY DEF FilesInTurn, Pending, In, Work

\* Reads start in the order of the plan, and at least one does.
LEMMA PullInTurn == ASSUME ReviewShape, FilesInTurn, Pull PROVE FilesInTurn'
<1> DEFINE Before(f) == {g \in Work : g < f /\ stage[g] = "none"}
           Room(f) == Cardinality(Pending) + Cardinality(Before(f)) < ReadAhead
<1>1. CASE aborted
  <2>1. UNCHANGED <<stage, plan, allot, call>> /\ phase' = "last"
    BY <1>1 DEF Pull, planned
  <2>2. QED
    BY <2>1, TurnsUntouched
<1>2. CASE ~aborted
  <2>1. /\ stage' = [f \in Files |-> IF f \in Work /\ stage[f] = "none" /\ Room(f)
                                       THEN "reading" ELSE stage[f]]
        /\ phase' = "await" => \E f \in Work : stage[f] \in Ahead \union {"none"}
        /\ UNCHANGED <<plan, allot, call>>
    BY <1>2 DEF Pull, planned, Ahead
  <2>2. /\ Work \subseteq Files /\ Work \in SUBSET Nat /\ IsFiniteSet(Work)
        /\ IsFiniteSet(Pending) /\ Cardinality(Pending) \in Nat /\ ReadAhead \in Nat \ {0}
    <3>1. Work \in SUBSET Files /\ Pending \in SUBSET Files
      BY DEF Work, Pending, In
    <3>2. QED
      BY <3>1, ReviewAssumption, FS_Subset, FS_CardinalityType
  <2>3. \A f : IsFiniteSet(Before(f)) /\ Cardinality(Before(f)) \in Nat
    <3>1. \A f : Before(f) \in SUBSET Work
      OBVIOUS
    <3>2. QED
      BY <2>2, <3>1, FS_Subset, FS_CardinalityType
  <2>4. ASSUME NEW f \in Files, NEW g \in Work, g < f, Room(f) PROVE Room(g)
    <3>1. Before(g) \in SUBSET Before(f)
      <4>1. f \in Nat /\ g \in Nat /\ \A h \in Work : h \in Nat
        BY <2>2, ReviewAssumption
      <4>2. \A h \in Work : h < g => h < f
        BY <2>4, <4>1
      <4>3. QED
        BY <4>2
    <3>2. Cardinality(Before(g)) <= Cardinality(Before(f))
      BY <2>3, <3>1, FS_Subset
    <3>3. QED
      BY <2>2, <2>3, <2>4, <3>2
  <2>5. ASSUME phase' = "await" PROVE Pending' # {}
    <3>1. CASE Pending # {}
      <4>1. PICK f \in Files : stage[f] \in Ahead
        BY <3>1 DEF Pending, In, Ahead
      <4>2. stage'[f] = stage[f]
        BY <2>1, <4>1 DEF Ahead
      <4>3. QED
        BY <4>1, <4>2 DEF Pending, In, Ahead
    <3>2. CASE Pending = {}
      <4>1. PICK e \in Work : stage[e] = "none"
        BY <2>1, <2>2, <2>5, <3>2 DEF Pending, In, Ahead
      <4>2. PICK f \in {h \in Work : stage[h] = "none"} : \A h \in Work : stage[h] = "none" => f <= h
        <5>1. {h \in Work : stage[h] = "none"} \in SUBSET Nat /\ {h \in Work : stage[h] = "none"} # {}
          BY <2>2, <4>1
        <5>2. \E f \in {h \in Work : stage[h] = "none"} :
                \A h \in {h \in Work : stage[h] = "none"} : f <= h
          BY <5>1, SmallestFile
        <5>3. QED
          BY <5>2
      <4>3. Before(f) = {}
        <5>1. f \in Nat /\ \A h \in Work : h \in Nat
          BY <2>2
        <5>2. \A h \in Work : h < f => stage[h] # "none"
          BY <4>2, <5>1
        <5>3. QED
          BY <5>2
      <4>4. Room(f)
        BY <2>2, <3>2, <4>3, FS_EmptySet
      <4>5. stage'[f] = "reading" /\ f \in Files
        BY <2>1, <2>2, <4>2, <4>4
      <4>6. QED
        BY <4>5 DEF Pending, In
    <3>3. QED
      BY <3>1, <3>2
  <2>6. \A f \in Files : \/ stage'[f] = stage[f]
                         \/ stage[f] = "none" /\ stage'[f] = "reading" /\ f \in Work /\ Room(f)
    BY <2>1
  <2>7. \A f \in Work : stage[f] = "none" /\ Room(f) => stage'[f] = "reading"
    BY <2>1, <2>2
  <2>8. Work' = Work
    BY <2>1 DEF Work
  <2> HIDE DEF Room, Before
  <2>9. ASSUME NEW f \in Files
        PROVE  /\ stage'[f] # "none" => f \in Work
               /\ stage'[f] \in Ahead \union {"none"} =>
                    allot[f] = 0 /\ \A s \in Sections : call[<<f, s>>] = "none"
    BY <2>6 DEF FilesInTurn, Ahead
  <2>10. ASSUME NEW f \in Files, NEW g \in Files, g < f
         PROVE  /\ stage'[f] # "none" /\ g \in Work => stage'[g] # "none"
                /\ stage'[f] \notin Ahead \union {"none"} => stage'[g] \notin Ahead
    <3>1. ASSUME stage'[f] # "none", g \in Work PROVE stage'[g] # "none"
      <4>1. CASE stage[g] # "none"
        BY <2>6, <4>1
      <4>2. CASE stage[g] = "none"
        <5>1. stage[f] = "none"
          BY <2>10, <3>1, <4>2 DEF FilesInTurn
        <5>2. Room(f)
          BY <2>6, <3>1, <5>1
        <5>3. Room(g)
          BY <2>4, <2>10, <3>1, <5>2
        <5>4. QED
          BY <2>7, <3>1, <4>2, <5>3
      <4>3. QED
        BY <4>1, <4>2
    <3>2. ASSUME stage'[f] \notin Ahead \union {"none"} PROVE stage'[g] \notin Ahead
      <4>1. stage[f] = stage'[f]
        BY <2>6, <3>2 DEF Ahead
      <4>2. stage[g] \notin Ahead /\ (g \in Work => stage[g] # "none")
        BY <2>10, <3>2, <4>1 DEF FilesInTurn
      <4>3. QED
        BY <2>6, <4>2
    <3>3. QED
      BY <3>1, <3>2
  <2>11. QED
    BY <2>1, <2>5, <2>8, <2>9, <2>10 DEF FilesInTurn
<1>3. QED
  BY <1>1, <1>2

LEMMA DispatchInTurn ==
  ASSUME ReviewShape, BudgetTypes, FilesInTurn, Dispatch PROVE FilesInTurn'
<1>1. PICK f \in Files :
           /\ f \in Work /\ stage[f] \in {"read", "failed"}
           /\ \A g \in Pending : f <= g
           /\ stage' = [stage EXCEPT ![f] = IF @ = "read" THEN "queued" ELSE "skipped"]
           /\ \/ UNCHANGED <<allot, used, call>>
              \/ /\ allot' = [allot EXCEPT ![f] = Reserve(f)]
                 /\ \A g \in Files \ {f}, s \in Sections : call'[<<g, s>>] = call[<<g, s>>]
           /\ plan' = plan
  BY DispatchStarts
<1>2. /\ stage'[f] \in {"queued", "skipped"}
      /\ \A g \in Files \ {f} : stage'[g] = stage[g]
  BY <1>1 DEF ReviewShape
<1>3. \A g \in Files \ {f} : /\ allot'[g] = allot[g]
                             /\ \A s \in Sections : call'[<<g, s>>] = call[<<g, s>>]
  BY <1>1 DEF BudgetTypes
<1>4. phase' = "drain" /\ Work' = Work
  BY <1>1 DEF Dispatch, Work
<1>5. ASSUME NEW g \in Files
      PROVE  /\ stage'[g] # "none" => g \in Work
             /\ stage'[g] \in Ahead \union {"none"} =>
                  allot'[g] = 0 /\ \A s \in Sections : call'[<<g, s>>] = "none"
  BY <1>1, <1>2, <1>3 DEF FilesInTurn, Ahead
<1>6. ASSUME NEW h \in Files, NEW g \in Files, g < h
      PROVE  /\ stage'[h] # "none" /\ g \in Work => stage'[g] # "none"
             /\ stage'[h] \notin Ahead \union {"none"} => stage'[g] \notin Ahead
  <2>1. stage'[h] # "none" => stage[h] # "none"
    BY <1>1, <1>2
  <2>2. stage[g] # "none" => stage'[g] # "none"
    BY <1>2
  <2>3. stage'[g] \in Ahead => stage[g] \in Ahead /\ g # f
    BY <1>2 DEF Ahead
  <2>4. CASE h = f
    <3>1. stage[g] \notin Ahead
      <4>1. g \notin Pending
        BY <1>1, <1>6, <2>4, ReviewAssumption
      <4>2. QED
        BY <4>1 DEF Pending, In, Ahead
    <3>2. QED
      BY <1>6, <2>1, <2>2, <2>3, <3>1 DEF FilesInTurn
  <2>5. CASE h # f
    BY <1>2, <1>6, <2>2, <2>3, <2>5 DEF FilesInTurn
  <2>6. QED
    BY <2>4, <2>5
<1>7. QED
  BY <1>4, <1>5, <1>6 DEF FilesInTurn

\* A file that is read, or applied, keeps its place.
LEMMA PlaceIsKept ==
  ASSUME FilesInTurn, NEW f \in Files, UNCHANGED <<plan, allot, call>>, phase' = phase,
         \A g \in Files \ {f} : stage'[g] = stage[g],
         \/ stage[f] = "reading" /\ stage'[f] \in {"read", "failed"}
         \/ /\ stage[f] \in {"queued", "skipped"} /\ stage'[f] \in {"applied", "abandoned"}
            /\ phase # "await"
  PROVE  FilesInTurn'
<1>1. Work' = Work
  BY DEF Work
<1>2. phase' = "await" => Pending' # {}
  BY DEF Pending, In
<1>3. \A g \in Files : /\ stage'[g] = "none" <=> stage[g] = "none"
                       /\ stage'[g] \in Ahead <=> stage[g] \in Ahead
  BY DEF Ahead
<1>4. QED
  BY <1>1, <1>2, <1>3 DEF FilesInTurn

LEMMA TurnsStay ==
  ASSUME ReviewInv, BudgetInv, ReviewNext PROVE FilesInTurn'
<1>1. ReviewShape /\ UntouchedUntilApplied /\ BudgetTypes /\ FilesInTurn
  BY TypesInParts DEF ReviewInv, BudgetInv
<1>2. CASE Start
  <2>1. phase = "idle" /\ phase' = "pull" /\ UNCHANGED <<stage, allot, call>>
    BY <1>2 DEF Start, pipeline
  <2>2. \A f \in Files : stage[f] = "none"
    BY <1>1, <2>1 DEF UntouchedUntilApplied
  <2>3. QED
    BY <1>1, <2>1, <2>2 DEF FilesInTurn
<1>3. CASE Pull
  BY <1>1, <1>3, PullInTurn
<1>4. CASE Dispatch
  BY <1>1, <1>4, DispatchInTurn
<1>5. ASSUME NEW f \in Files, Read(f) PROVE FilesInTurn'
  <2>1. /\ UNCHANGED <<plan, allot, call, phase>> /\ stage[f] = "reading"
        /\ stage' = [stage EXCEPT ![f] = "read"] \/ stage' = [stage EXCEPT ![f] = "failed"]
    BY <1>5 DEF Read, planned
  <2>2. stage'[f] \in {"read", "failed"} /\ \A g \in Files \ {f} : stage'[g] = stage[g]
    BY <1>1, <2>1 DEF ReviewShape
  <2>3. QED
    BY <1>1, <2>1, <2>2, PlaceIsKept
<1>6. ASSUME NEW f \in Files, ApplyUnread(f) \/ ApplyBinary(f) \/ ApplyUnjudged(f) \/ ApplyJudged(f)
      PROVE  FilesInTurn'
  <2>1. /\ UNCHANGED <<plan, allot, call, phase>> /\ phase # "await"
        /\ stage[f] \in {"queued", "skipped"}
        /\ stage' = [stage EXCEPT ![f] = "applied"] \/ stage' = [stage EXCEPT ![f] = "abandoned"]
    BY <1>6 DEF ApplyUnread, ApplyBinary, ApplyUnjudged, ApplyJudged, Turn, planned
  <2>2. stage'[f] \in {"applied", "abandoned"} /\ \A g \in Files \ {f} : stage'[g] = stage[g]
    BY <1>1, <2>1 DEF ReviewShape
  <2>3. QED
    BY <1>1, <2>1, <2>2, PlaceIsKept
<1>7. ASSUME NEW f \in Files, NEW s \in Sections, Ask(f, s) \/ Answer(f, s) PROVE FilesInTurn'
  <2>1. /\ UNCHANGED <<plan, allot, stage, phase>> /\ call[<<f, s>>] \in {"todo", "asked"}
        /\ \E what \in {"asked", "unasked", "judged", "failed", "void"} :
             call' = [call EXCEPT ![<<f, s>>] = what]
    BY <1>7 DEF Ask, Answer, planned
  <2>2. stage[f] \notin Ahead \union {"none"}
    BY <1>1, <2>1 DEF FilesInTurn
  <2>3. \A g \in Files \ {f}, t \in Sections : call'[<<g, t>>] = call[<<g, t>>]
    BY <1>1, <2>1 DEF ReviewShape
  <2>4. Work' = Work /\ Pending' = Pending
    BY <2>1 DEF Work, Pending, In
  <2>5. QED
    BY <1>1, <2>1, <2>2, <2>3, <2>4 DEF FilesInTurn
<1>8. CASE NoRun
  <2>1. /\ phase' = "idle" /\ allot' = NoFiles
        /\ stage' = [f \in Files |-> "none"] /\ call' = [x \in Files \X Sections |-> "none"]
    BY <1>8 DEF NoRun
  <2>2. QED
    BY <2>1 DEF FilesInTurn, NoFiles
<1>9. CASE UNCHANGED <<stage, plan, allot, call>> /\ (phase' = "await" => phase = "await")
  BY <1>1, <1>9, TurnsUntouched
<1>10. ASSUME Drained \/ LoopEnds \/ Abort \/ Retire \/ Compare \/ Flush \/ SaveAwaiting \/ SaveFiles
              \/ SaveJudged \/ Checkpoint \/ \E f \in Files : Edit(f)
       PROVE  UNCHANGED <<stage, plan, allot, call>> /\ (phase' = "await" => phase = "await")
  BY <1>10 DEF Drained, LoopEnds, Abort, Retire, Compare, Flush, SaveAwaiting, SaveFiles, SaveJudged,
               Checkpoint, Edit, planned, pipeline
<1>11. SaveOwed \/ FlushFails \/ SaveFails \/ ReviewDies => NoRun
  BY DEF SaveOwed, FlushFails, SaveFails, ReviewDies
<1>12. QED
  BY <1>2, <1>3, <1>4, <1>5, <1>6, <1>7, <1>8, <1>9, <1>10, <1>11 DEF ReviewNext, RunSteps

-----------------------------------------------------------------------------
(* What a run judges, and who got too little. *)

LEMMA PlannedStays == ASSUME ReviewInv, BudgetInv, ReviewNext PROVE JudgedAsPlanned'
<1>1. ReviewShape /\ JudgedAsPlanned
  BY DEF ReviewInv, BudgetInv
<1>2. CASE Start
  <2>1. /\ plan' = [f \in Files |-> IF Changed(f) THEN source[f] ELSE 0]
        /\ removed' = {f \in Files : source[f] = 0 /\ filesM[f] # 0}
        /\ judgedNow' = judgedM /\ judgedM' = judgedM
    BY <1>2 DEF Start, manifests
  <2>2. \A f \in Work' : source[f] # 0
    BY <2>1 DEF Work, Changed
  <2>3. QED
    BY <2>1, <2>2 DEF JudgedAsPlanned, Work
<1>3. CASE NoRun
  <2>1. plan' = NoFiles
    BY <1>3 DEF NoRun
  <2>2. Work' = {}
    BY <2>1 DEF Work, NoFiles
  <2>3. QED
    BY <2>2 DEF JudgedAsPlanned
<1>4. ASSUME NEW f \in Files, ApplyJudged(f) PROVE JudgedAsPlanned'
  <2>1. /\ judgedNow' = [x \in Files \X Sections |->
                           IF x[1] = f /\ call[x] = "judged" THEN plan[f] ELSE judgedNow[x]]
        /\ UNCHANGED <<plan, removed, judgedM>>
    BY <1>4 DEF ApplyJudged, manifests, planned
  <2>2. \A g \in Files, s \in Sections :
          judgedNow'[<<g, s>>] = judgedNow[<<g, s>>] \/ (g = f /\ judgedNow'[<<g, s>>] = plan[g])
    BY <2>1
  <2>3. QED
    BY <1>1, <2>1, <2>2 DEF JudgedAsPlanned, Work
<1>5. CASE Retire
  <2>1. /\ judgedNow' = [x \in Files \X Sections |-> IF x[1] \in removed THEN 0 ELSE judgedNow[x]]
        /\ UNCHANGED <<plan, removed, judgedM>>
    BY <1>5 DEF Retire, manifests, planned
  <2>2. \A f \in Files, s \in Sections : f \notin removed => judgedNow'[<<f, s>>] = judgedNow[<<f, s>>]
    BY <2>1
  <2>3. QED
    BY <1>1, <2>1, <2>2 DEF JudgedAsPlanned, Work
<1>6. CASE SaveJudged
  <2>1. judgedM' = judgedNow /\ UNCHANGED <<plan, removed, judgedNow>>
    BY <1>6 DEF SaveJudged, planned, learned
  <2>2. QED
    BY <1>1, <2>1 DEF JudgedAsPlanned, Work
<1>7. CASE UNCHANGED <<plan, removed, judgedM, judgedNow>>
  BY <1>1, <1>7 DEF JudgedAsPlanned, Work
<1>8. ASSUME \/ Pull \/ Dispatch \/ Drained \/ LoopEnds \/ Abort \/ Compare \/ Flush \/ SaveAwaiting
             \/ SaveFiles \/ Checkpoint
             \/ \E f \in Files : \/ Edit(f) \/ Read(f) \/ ApplyUnread(f) \/ ApplyBinary(f) \/ ApplyUnjudged(f)
                                 \/ \E s \in Sections : Ask(f, s) \/ Answer(f, s)
      PROVE  UNCHANGED <<plan, removed, judgedM, judgedNow>>
  BY <1>8 DEF Pull, Dispatch, Drained, LoopEnds, Abort, Compare, Flush, SaveAwaiting, SaveFiles, Checkpoint,
              Edit, Read, ApplyUnread, ApplyBinary, ApplyUnjudged, Ask, Answer, manifests, planned, learned
<1>9. SaveOwed \/ FlushFails \/ SaveFails \/ ReviewDies => NoRun
  BY DEF SaveOwed, FlushFails, SaveFails, ReviewDies
<1>10. QED
  BY <1>2, <1>3, <1>4, <1>5, <1>6, <1>7, <1>8, <1>9 DEF ReviewNext, RunSteps

\* A step that leaves the budget and the calls alone, and asks for no more.
LEMMA ShortUntouched ==
  ASSUME BudgetTypes, CallsAreCounted, ShortTakesLast, UNCHANGED allot,
         used' \in Nat, used <= used', used' <= ModelCalls,
         \A f \in Judged : Is(f, Due)' # {} => Is(f, Due) # {} /\ ToJudge(f)' \subseteq ToJudge(f)
  PROVE  ShortTakesLast'
<1>1. used \in Nat /\ ModelCalls \in Nat /\ used <= ModelCalls
  BY ReviewAssumption DEF BudgetTypes, CallsAreCounted
<1>2. SUFFICES ASSUME NEW f \in Judged, Is(f, Due)' # {}, allot[f] < Cardinality(ToJudge(f)')
               PROVE  used' = ModelCalls /\ \A g \in Judged : f < g => allot[g] = 0
  BY DEF ShortTakesLast
<1>3. Cardinality(ToJudge(f)') <= Cardinality(ToJudge(f))
  BY <1>2, SectionsAreFinite, FS_Subset DEF ToJudge
<1>4. /\ Cardinality(ToJudge(f)) \in Nat /\ Cardinality(ToJudge(f)') \in Nat /\ allot[f] \in Nat
  <2>1. ToJudge(f) \in SUBSET Sections /\ ToJudge(f)' \in SUBSET Sections
    BY DEF ToJudge
  <2>2. QED
    BY <2>1, SectionsAreFinite, ReviewAssumption DEF BudgetTypes
<1>5. used = ModelCalls /\ \A g \in Judged : f < g => allot[g] = 0
  BY <1>2, <1>3, <1>4 DEF ShortTakesLast
<1>6. QED
  BY <1>1, <1>5

LEMMA ShortDispatch ==
  ASSUME ReviewShape, BudgetTypes, CallsAreCounted, FilesInTurn, ShortTakesLast, Dispatch
  PROVE  ShortTakesLast'
<1>1. PICK f \in Files :
           /\ f \in Work /\ stage[f] \in {"read", "failed"}
           /\ allot[f] = 0 /\ \A s \in Sections : call[<<f, s>>] = "none"
           /\ \/ UNCHANGED <<allot, used, call>>
              \/ /\ f \in Judged /\ stage[f] = "read"
                 /\ allot' = [allot EXCEPT ![f] = Reserve(f)] /\ used' = used + Reserve(f)
                 /\ \A g \in Files \ {f}, s \in Sections : call'[<<g, s>>] = call[<<g, s>>]
                 /\ \A s \in Sections : call'[<<f, s>>] = IF s \in ToJudge(f) THEN "todo" ELSE "reuse"
           /\ UNCHANGED <<made, plan, removed, judgedM, judgedNow>>
  BY DispatchStarts
<1>2. used \in Nat /\ ModelCalls \in Nat /\ used <= ModelCalls /\ Judged \subseteq Files
  BY ReviewAssumption DEF BudgetTypes, CallsAreCounted
<1>3. \A g : ToJudge(g)' = ToJudge(g)
  BY <1>1 DEF ToJudge
<1>4. CASE UNCHANGED <<allot, used, call>>
  BY <1>3, <1>4 DEF ShortTakesLast, Is
<1>5. CASE ~UNCHANGED <<allot, used, call>>
  <2>1. /\ f \in Judged /\ used' = used + Reserve(f) /\ allot'[f] = Reserve(f)
        /\ \A g \in Files \ {f} : allot'[g] = allot[g]
        /\ \A g \in Files \ {f}, s \in Sections : call'[<<g, s>>] = call[<<g, s>>]
    BY <1>1, <1>5 DEF BudgetTypes
  <2>2. /\ Reserve(f) \in Nat /\ used + Reserve(f) <= ModelCalls
        /\ Reserve(f) < Cardinality(ToJudge(f)) => used + Reserve(f) = ModelCalls
    BY <1>2, Reserving
  <2>3. SUFFICES ASSUME NEW h \in Judged, Is(h, Due)' # {}, allot'[h] < Cardinality(ToJudge(h))
                 PROVE  used' = ModelCalls /\ \A g \in Judged : h < g => allot'[g] = 0
    BY <1>3 DEF ShortTakesLast
  <2>4. CASE h = f
    <3>1. used' = ModelCalls
      BY <2>1, <2>2, <2>3, <2>4
    <3>2. ASSUME NEW g \in Judged, f < g PROVE allot'[g] = 0
      <4>1. g \in Files /\ g # f
        BY <1>2, <3>2, ReviewAssumption
      <4>2. stage[g] \in Ahead \union {"none"}
        BY <1>1, <3>2, <4>1 DEF FilesInTurn, Ahead
      <4>3. QED
        BY <2>1, <4>1, <4>2 DEF FilesInTurn
    <3>3. QED
      BY <2>4, <3>1, <3>2
  <2>5. CASE h # f
    <3>1. h \in Files /\ Is(h, Due)' = Is(h, Due)
      BY <1>2, <2>1, <2>5 DEF Is
    <3>2. used = ModelCalls /\ \A g \in Judged : h < g => allot[g] = 0
      BY <2>1, <2>3, <2>5, <3>1 DEF ShortTakesLast
    <3>3. Reserve(f) = 0
      BY <1>2, <2>2, <3>2
    <3>4. QED
      BY <1>2, <2>1, <3>2, <3>3
  <2>6. QED
    BY <2>4, <2>5
<1>6. QED
  BY <1>4, <1>5

LEMMA ShortStays == ASSUME ReviewInv, BudgetInv, ReviewNext PROVE ShortTakesLast'
<1>1. /\ ReviewShape /\ UntouchedUntilApplied /\ BudgetTypes
      /\ CallsAreCounted /\ FilesInTurn /\ ShortTakesLast /\ JudgedAsPlanned
  BY TypesInParts DEF ReviewInv, BudgetInv
<1>2. used \in Nat /\ ModelCalls \in Nat /\ used <= ModelCalls /\ Judged \subseteq Files
  BY <1>1, ReviewAssumption DEF BudgetTypes, CallsAreCounted
<1>3. CASE Start
  <2>1. phase = "idle" /\ call' = call
    BY <1>3 DEF Start, pipeline
  <2>2. \A f \in Files, s \in Sections : call'[<<f, s>>] = "none"
    BY <1>1, <2>1 DEF UntouchedUntilApplied, FilesInTurn
  <2>3. \A f \in Judged : Is(f, Due)' = {}
    BY <1>2, <2>2 DEF Is, Due
  <2>4. QED
    BY <2>3 DEF ShortTakesLast
<1>4. CASE NoRun
  <2>1. call' = [x \in Files \X Sections |-> "none"]
    BY <1>4 DEF NoRun
  <2>2. \A f \in Judged : Is(f, Due)' = {}
    BY <1>2, <2>1 DEF Is, Due
  <2>3. QED
    BY <2>2 DEF ShortTakesLast
<1>5. CASE Dispatch
  BY <1>1, <1>5, ShortDispatch
<1>6. ASSUME NEW f \in Files, NEW s \in Sections, Ask(f, s) \/ Answer(f, s) PROVE ShortTakesLast'
  <2>1. /\ UNCHANGED <<allot, used, plan, judgedM>> /\ call[<<f, s>>] \in {"todo", "asked"}
        /\ \E what \in {"asked", "unasked", "judged", "failed", "void"} :
             call' = [call EXCEPT ![<<f, s>>] = what]
    BY <1>6 DEF Ask, Answer, manifests, planned
  <2>2. \A g \in Files, t \in Sections : call'[<<g, t>>] \in Due <=> call[<<g, t>>] \in Due
    BY <1>1, <2>1 DEF ReviewShape, Due
  <2>3. \A g \in Judged : Is(g, Due)' = Is(g, Due) /\ ToJudge(g)' = ToJudge(g)
    BY <1>2, <2>1, <2>2 DEF Is, ToJudge
  <2>4. QED
    BY <1>1, <1>2, <2>1, <2>3, ShortUntouched
<1>7. CASE Compare
  <2>1. PICK n \in 0..(ModelCalls - used) : used' = used + n
    BY <1>7 DEF Compare
  <2>2. UNCHANGED <<allot, call, plan, judgedM>>
    BY <1>7 DEF Compare, manifests, planned
  <2>3. used' \in Nat /\ used <= used' /\ used' <= ModelCalls
    BY <1>2, <2>1
  <2>4. \A g \in Judged : Is(g, Due)' = Is(g, Due) /\ ToJudge(g)' = ToJudge(g)
    BY <2>2 DEF Is, ToJudge
  <2>5. QED
    BY <1>1, <2>2, <2>3, <2>4, ShortUntouched
<1>8. CASE SaveJudged
  <2>1. judgedM' = judgedNow /\ UNCHANGED <<allot, used, call, plan>>
    BY <1>8 DEF SaveJudged, planned, pipeline
  <2>2. ASSUME NEW f \in Judged, Is(f, Due)' # {}
        PROVE  Is(f, Due) # {} /\ ToJudge(f)' \subseteq ToJudge(f)
    <3>1. Is(f, Due)' = Is(f, Due)
      BY <2>1 DEF Is
    <3>2. PICK s \in Sections : call[<<f, s>>] # "none"
      BY <2>2, <3>1 DEF Is, Due
    <3>3. f \in Work
      BY <1>1, <1>2, <3>2 DEF FilesInTurn
    <3>4. \A t \in Sections : judgedNow[<<f, t>>] # plan[f] => judgedM[<<f, t>>] # plan[f]
      BY <1>1, <3>3 DEF JudgedAsPlanned
    <3>5. QED
      BY <2>1, <2>2, <3>1, <3>4 DEF ToJudge
  <2>3. QED
    BY <1>1, <1>2, <2>1, <2>2, ShortUntouched
<1>9. CASE UNCHANGED <<allot, used, call, plan, judgedM>>
  <2>1. \A g \in Judged : Is(g, Due)' = Is(g, Due) /\ ToJudge(g)' = ToJudge(g)
    BY <1>9 DEF Is, ToJudge
  <2>2. QED
    BY <1>1, <1>2, <1>9, <2>1, ShortUntouched
<1>10. ASSUME \/ Pull \/ Drained \/ LoopEnds \/ Abort \/ Retire \/ Flush \/ SaveAwaiting \/ SaveFiles \/ Checkpoint
              \/ \E f \in Files : \/ Edit(f) \/ Read(f) \/ ApplyUnread(f) \/ ApplyBinary(f)
                                  \/ ApplyUnjudged(f) \/ ApplyJudged(f)
       PROVE  UNCHANGED <<allot, used, call, plan, judgedM>>
  BY <1>10 DEF Pull, Drained, LoopEnds, Abort, Retire, Flush, SaveAwaiting, SaveFiles, Checkpoint,
               Edit, Read, ApplyUnread, ApplyBinary, ApplyUnjudged, ApplyJudged, manifests, planned, pipeline
<1>11. SaveOwed \/ FlushFails \/ SaveFails \/ ReviewDies => NoRun
  BY DEF SaveOwed, FlushFails, SaveFails, ReviewDies
<1>12. QED
  BY <1>3, <1>4, <1>5, <1>6, <1>7, <1>8, <1>9, <1>10, <1>11 DEF ReviewNext, RunSteps

-----------------------------------------------------------------------------
(* The second invariant, and what follows from it. *)

LEMMA BudgetStarts == ASSUME ReviewInit PROVE BudgetInv
<1> USE ReviewAssumption
<1>1. 0 \in Contents /\ NoFiles \in [Files -> Contents] /\ NoSections \in [Files \X Sections -> Contents]
  BY DEF Contents, NoFiles, NoSections
<1>2. /\ phase = "idle" /\ plan = NoFiles /\ allot = NoFiles /\ used = 0 /\ made = 0
      /\ stage = [f \in Files |-> "none"] /\ call = [x \in Files \X Sections |-> "none"]
  BY DEF ReviewInit
<1>3. ReviewTypeOK
  <2>1. ReviewShape
    BY ReviewStarts DEF ReviewInv
  <2>2. LearnedTypes
    BY DEF ReviewInit, StoreInit, LearnedTypes
  <2>3. BudgetTypes
    BY <1>2 DEF BudgetTypes, NoFiles
  <2>4. ControlTypes
    BY DEF ReviewInit, ControlTypes, Phases
  <2>5. QED
    BY <2>1, <2>2, <2>3, <2>4, TypesInParts
<1>4. CallsAreCounted
  <2>1. \A f \in Files : allot[f] = 0
    BY <1>2 DEF NoFiles
  <2>2. \A x \in Files \X (1..ModelCalls) : ~(x[2] <= allot[x[1]])
    <3>1. ASSUME NEW x \in Files \X (1..ModelCalls) PROVE ~(x[2] <= allot[x[1]])
      <4>1. x[2] \in 1..ModelCalls /\ allot[x[1]] = 0
        BY <2>1
      <4>2. QED
        BY <4>1
    <3>2. QED
      BY <3>1
  <2>3. Unspent = {}
    BY <2>2 DEF Unspent
  <2>4. QED
    BY <1>2, <2>1, <2>3, FS_EmptySet DEF CallsAreCounted
<1>5. FilesInTurn
  BY <1>2 DEF FilesInTurn, NoFiles
<1>6. ShortTakesLast
  <2>1. \A f \in Judged : Is(f, Due) = {}
    BY <1>2 DEF Is, Due
  <2>2. QED
    BY <2>1 DEF ShortTakesLast
<1>7. JudgedAsPlanned
  BY <1>2 DEF JudgedAsPlanned, Work, NoFiles
<1>8. QED
  BY <1>3, <1>4, <1>5, <1>6, <1>7 DEF BudgetInv

LEMMA BudgetStutters == ASSUME BudgetInv, UNCHANGED reviewVars PROVE BudgetInv'
<1> USE DEF reviewVars, store, manifests, planned, pipeline, signals, learned, bounds
<1>1. ReviewTypeOK'
  BY DEF BudgetInv, ReviewTypeOK
<1>2. CallsAreCounted'
  BY CallsUntouched DEF BudgetInv
<1>3. FilesInTurn'
  BY TurnsUntouched DEF BudgetInv
<1>4. ShortTakesLast'
  BY DEF BudgetInv, ShortTakesLast, Is, ToJudge
<1>5. JudgedAsPlanned'
  BY DEF BudgetInv, JudgedAsPlanned, Work
<1>6. QED
  BY <1>1, <1>2, <1>3, <1>4, <1>5 DEF BudgetInv

\* The calls of a run are accounted for, and its files take their turns, whatever
\* the widths and wherever it is cut, fails or dies.
THEOREM BudgetInvariance == ReviewSpec => []BudgetInv
<1>1. ReviewInit => BudgetInv
  BY BudgetStarts
<1>2. ReviewInv /\ BudgetInv /\ [ReviewNext]_reviewVars => BudgetInv'
  <2>1. ASSUME ReviewInv, BudgetInv, ReviewNext PROVE BudgetInv'
    <3>1. ReviewTypeOK'
      BY <2>1, TypesStay DEF BudgetInv, CallsAreCounted
    <3>2. QED
      BY <2>1, <3>1, CountsStay, TurnsStay, ShortStays, PlannedStays DEF BudgetInv
  <2>2. QED
    BY <2>1, BudgetStutters
<1>3. QED
  BY <1>1, <1>2, ReviewInvariance, PTL DEF ReviewSpec

\* Every variable of a review keeps its type.
THEOREM ReviewTypes == ReviewSpec => []ReviewTypeOK
<1>1. BudgetInv => ReviewTypeOK
  BY DEF BudgetInv
<1>2. QED
  BY <1>1, BudgetInvariance, PTL

\* A run makes no more calls than it has, and a file that got less than it needs
\* leaves none to later ones (the reservation in order of review).
THEOREM BudgetInOrder == ReviewSpec => []BudgetInFileOrder
<1>1. BudgetInv => BudgetInFileOrder
  <2>1. ASSUME BudgetInv PROVE BudgetInFileOrder
    <3>1. made <= used /\ used <= ModelCalls
      <4>1. /\ made \in Nat /\ Cardinality(Unspent) \in Nat
            /\ used = made + Cardinality(Unspent) /\ used <= ModelCalls
        BY <2>1, UnspentIsFinite, TypesInParts DEF BudgetInv, BudgetTypes, CallsAreCounted
      <4>2. QED
        BY <4>1
    <3>2. \A f, g \in Judged :
            f < g /\ Is(f, Due) # {} /\ allot[f] < Cardinality(ToJudge(f)) => allot[g] = 0
      BY <2>1 DEF BudgetInv, ShortTakesLast
    <3>3. QED
      BY <3>1, <3>2 DEF BudgetInFileOrder, Due
  <2>2. QED
    BY <2>1
<1>2. QED
  BY <1>1, BudgetInvariance, PTL

-----------------------------------------------------------------------------
(* Reviews and their store. *)

\* A review takes no step on its store but those DurableStore promises, which are
\* the steps that SnapshotStore implements (KnowledgeStore in review.ts).
THEOREM StoreIsUsedAsPromised == ReviewSpec => StoreSpec
<1>1. ReviewInit => StoreInit
  BY DEF ReviewInit
<1>2. ASSUME NEW S, Apply(S) PROVE StoreNext
  <2>1. Apply(held' \ held)
    BY <1>2 DEF Apply
  <2>2. QED
    BY <2>1 DEF StoreNext
<1>3. ASSUME NEW S, NEW P, Persist(S, P) PROVE StoreNext
  <2>1. Persist(durable' \ durable, promised' \ promised)
    BY <1>3 DEF Persist
  <2>2. QED
    BY <2>1 DEF StoreNext
<1>4. ASSUME NEW S, Die(S) PROVE StoreNext
  <2>1. Die(durable' \ durable)
    BY <1>4 DEF Die
  <2>2. QED
    BY <2>1 DEF StoreNext
<1>5. ASSUME NEW f \in Files, ApplyUnjudged(f) \/ ApplyJudged(f) PROVE StoreNext
  <2>1. \E S : Apply(S)
    BY <1>5 DEF ApplyUnjudged, ApplyJudged
  <2>2. QED
    BY <1>2, <2>1
<1>6. ASSUME Flush \/ FlushFails \/ Checkpoint PROVE StoreNext
  <2>1. \E S, P : Persist(S, P)
    BY <1>6 DEF Flush, FlushFails, Checkpoint
  <2>2. QED
    BY <1>3, <2>1
<1>7. ASSUME ReviewDies PROVE StoreNext
  <2>1. \E S : Die(S)
    BY <1>7 DEF ReviewDies
  <2>2. QED
    BY <1>4, <2>1
<1>8. ASSUME \/ Start \/ Pull \/ Dispatch \/ Drained \/ LoopEnds \/ Abort \/ Retire \/ Compare
             \/ SaveAwaiting \/ SaveFiles \/ SaveJudged \/ SaveOwed \/ SaveFails
             \/ \E f \in Files : \/ Edit(f) \/ Read(f) \/ ApplyUnread(f) \/ ApplyBinary(f)
                                 \/ \E s \in Sections : Ask(f, s) \/ Answer(f, s)
      PROVE  UNCHANGED store
  BY <1>8 DEF Start, Pull, Dispatch, Drained, LoopEnds, Abort, Retire, Compare, SaveAwaiting, SaveFiles,
              SaveJudged, SaveOwed, SaveFails, Edit, Read, ApplyUnread, ApplyBinary, Ask, Answer
<1>9. [ReviewNext]_reviewVars => [StoreNext]_store
  <2>1. ReviewNext => StoreNext \/ UNCHANGED store
    BY <1>5, <1>6, <1>7, <1>8 DEF ReviewNext, RunSteps
  <2>2. UNCHANGED reviewVars => UNCHANGED store
    BY DEF reviewVars
  <2>3. QED
    BY <2>1, <2>2
<1>10. QED
  BY <1>1, <1>9, PTL DEF ReviewSpec, StoreSpec

\* What was promised is durable, and what is durable can be read, in every store
\* that keeps to DurableStore.
THEOREM PromisesAreKept == StoreSpec => [](promised \subseteq durable /\ durable \subseteq held)
<1> DEFINE Kept == promised \subseteq durable /\ durable \subseteq held
<1>1. StoreInit => Kept
  BY DEF StoreInit
<1>2. Kept /\ [StoreNext]_store => Kept'
  BY DEF StoreNext, Apply, Persist, Die, store
<1>3. QED
  BY <1>1, <1>2, PTL DEF StoreSpec
=============================================================================
