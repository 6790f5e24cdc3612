---------------------------- MODULE JobQueueProofs ----------------------------
(***************************************************************************)
(* The queue keeps the prevailing request, for every set of units and      *)
(* every clock.                                                            *)
(***************************************************************************)
EXTENDS JobQueue, TLAPS

(* The three ways to compare two jobs: sources are totally ordered, and    *)
(* within one source the clock decides.                                    *)
LEMMA RankIsInjective ==
  /\ \A s \in Sources : Rank(s) \in 0 .. 3
  /\ \A s, t \in Sources : Rank(s) = Rank(t) => s = t
BY DEF Sources, Rank

(* Superseding is irreflexive, and a job that supersedes the holder        *)
(* supersedes whatever the holder was not superseded by.                   *)
LEMMA SupersedesOrder ==
  ASSUME NEW new \in Job, NEW old \in Job, NEW other \in Job
  PROVE  /\ ~Supersedes(new, new)
         /\ Supersedes(new, old) /\ ~Supersedes(other, old)
              => ~Supersedes(other, new)
BY RankIsInjective DEF Supersedes, Job

(* The queue's variables hold what they are declared to. *)
LEMMA TypeCorrect == JobSpec => []TypeOK
<1>1. JobInit => TypeOK
  BY DEF JobInit, TypeOK, States
<1>2. ASSUME TypeOK, [JobNext]_jobVars
      PROVE  TypeOK'
  <2> USE <1>2 DEF TypeOK
  <2>1. CASE PassTime
    BY <2>1 DEF PassTime
  <2>2. ASSUME NEW u \in QueueUnits, Move(u)
        PROVE  TypeOK'
    BY <2>2 DEF Move
  <2>3. ASSUME NEW u \in QueueUnits, NEW t \in Targets, NEW s \in Sources, request(u, t, s)
        PROVE  TypeOK'
    <3> DEFINE job == [target |-> t, source |-> s, at |-> clock]
    <3>1. job \in Job
      BY DEF Job
    <3>2. merged' \in [QueueUnits -> SUBSET Job]
      BY <2>3, <3>1 DEF request, Submit
    <3>3. asked' \in [QueueUnits -> SUBSET Job]
      BY <2>3, <3>1 DEF request
    <3>4. QED
      BY <2>3, <3>2, <3>3 DEF request
  <2>4. CASE UNCHANGED jobVars
    BY <2>4 DEF jobVars
  <2>5. QED
    BY <2>1, <2>2, <2>3, <2>4
       DEF JobNext, request_start, request_stop, Targets, Sources
<1>3. QED
  BY <1>1, <1>2, PTL DEF JobSpec

(* What a cell of the transition table asks of the caller. *)
EffectOf(cell) == IF cell.to = NotAllowed THEN "Wait" ELSE cell.effect

(* The queue decides what a request means by a table of its own            *)
(* (JobQueue::reconcile), beside the transition table of the units.  They  *)
(* are one table: the queue waits where an event is not allowed, and asks  *)
(* for the effect of the cell everywhere else.                             *)
THEOREM TablesAgree ==
  \A state \in States :
    /\ Reconcile("Started", state) = EffectOf(StartCell(state))
    /\ Reconcile("Stopped", state) = EffectOf(StopCell(state))
BY DEF States, Satisfied, Failed, Reconcile, EffectOf, StartCell, StopCell, Cell, NotAllowed

(* The request that holds a unit's target is never superseded by one made  *)
(* since the target was last forgotten, in any order of requests and with  *)
(* any equal timestamps.                                                   *)
THEOREM HolderAlwaysPrevails == JobSpec => []HolderPrevails
<1>1. JobInit => HolderPrevails
  BY DEF JobInit, HolderPrevails
<1>2. ASSUME TypeOK, HolderPrevails, [JobNext]_jobVars
      PROVE  HolderPrevails'
  <2> USE <1>2
  <2>1. CASE PassTime
    BY <2>1 DEF PassTime, HolderPrevails
  <2>2. ASSUME NEW u \in QueueUnits, Move(u)
        PROVE  HolderPrevails'
    BY <2>2 DEF Move, HolderPrevails
  <2>3. ASSUME NEW u \in QueueUnits, NEW t \in Targets, NEW s \in Sources, request(u, t, s)
        PROVE  HolderPrevails'
    <3> DEFINE job    == [target |-> t, source |-> s, at |-> clock]
               before == IF Spent(u) THEN {} ELSE merged[u]
               known  == IF Spent(u) THEN {} ELSE asked[u]
    <3>1. job \in Job
      BY DEF Job, TypeOK
    <3>2. before \subseteq Job /\ known \subseteq Job
      BY DEF TypeOK
    <3>3. /\ before \subseteq known
          /\ before = {} => known = {}
          /\ \A h \in before, j \in known : ~Supersedes(j, h)
          /\ \A h1, h2 \in before : h1 = h2
      BY DEF HolderPrevails
    <3>4. /\ merged' = [merged EXCEPT ![u] = Submit(before, job)]
          /\ asked' = [asked EXCEPT ![u] = {job} \cup known]
      BY <2>3 DEF request
    <3> HIDE DEF job, before, known
    <3>5. /\ Submit(before, job) \subseteq {job} \cup known
          /\ Submit(before, job) # {}
          /\ \A h1, h2 \in Submit(before, job) : h1 = h2
      BY <3>3 DEF Submit
    <3>6. \A h \in Submit(before, job), j \in {job} \cup known : ~Supersedes(j, h)
      <4>1. CASE \A old \in before : Supersedes(job, old)
        <5>1. Submit(before, job) = {job}
          BY <4>1 DEF Submit
        <5>2. ASSUME NEW j \in known PROVE ~Supersedes(j, job)
          <6>1. PICK old \in before : TRUE
            BY <3>3
          <6>2. Supersedes(job, old) /\ ~Supersedes(j, old)
            BY <3>3, <4>1
          <6>3. QED
            BY <3>1, <3>2, <6>2, SupersedesOrder
        <5>3. QED
          BY <3>1, <5>1, <5>2, SupersedesOrder
      <4>2. CASE \E old \in before : ~Supersedes(job, old)
        <5>1. Submit(before, job) = before
          BY <4>2 DEF Submit
        <5>2. QED
          BY <3>3, <4>2, <5>1
      <4>3. QED
        BY <4>1, <4>2
    <3>7. /\ \A v \in QueueUnits : v # u => merged'[v] = merged[v] /\ asked'[v] = asked[v]
          /\ merged'[u] = Submit(before, job)
          /\ asked'[u] = {job} \cup known
      BY <3>4 DEF TypeOK
    <3>8. QED
      BY <3>5, <3>6, <3>7 DEF HolderPrevails
  <2>4. CASE UNCHANGED jobVars
    BY <2>4 DEF jobVars, HolderPrevails
  <2>5. QED
    BY <2>1, <2>2, <2>3, <2>4
       DEF JobNext, request_start, request_stop, Targets, Sources
<1>3. QED
  BY <1>1, <1>2, TypeCorrect, PTL DEF JobSpec

-------------------------------------------------------------------------------
(* A job that asks for a stop is one of a stop's sources, and the other    *)
(* way round: what `request`'s callers pass.                               *)
StopSources == {"UserStop", "ShutdownStop"}
Fits(job) == job.target = "Stopped" <=> job.source \in StopSources
HoldersFit == \A u \in QueueUnits : \A job \in merged[u] : Fits(job)

(* The holder after a submit is the new job or one that was there, and a   *)
(* start that was there gives way to a stop.                               *)
LEMMA SubmitKeeps ==
  ASSUME NEW holder \in SUBSET Job, NEW job \in Job, Fits(job),
         \A old \in holder : Fits(old)
  PROVE  /\ Submit(holder, job) \subseteq {job} \cup holder
         /\ \A h \in Submit(holder, job) : Fits(h)
         /\ /\ job.target = "Stopped"
            /\ \A h1, h2 \in holder : h1 = h2
            => \A h \in Submit(holder, job) : h.target = "Stopped"
<1>1. /\ Submit(holder, job) \subseteq {job} \cup holder
      /\ \A h \in Submit(holder, job) : Fits(h)
  BY DEF Submit
<1>2. ASSUME job.target = "Stopped", \A h1, h2 \in holder : h1 = h2,
             NEW h \in Submit(holder, job)
      PROVE  h.target = "Stopped"
  <2>1. CASE \A old \in holder : Supersedes(job, old)
    BY <1>2, <2>1 DEF Submit
  <2>2. CASE \E old \in holder : ~Supersedes(job, old)
    <3>1. h \in holder /\ ~Supersedes(job, h)
      BY <1>2, <2>2 DEF Submit
    <3>2. job.source \in StopSources /\ h.source \in Sources
      BY <1>2, <3>1 DEF Fits, Job
    <3>3. h.source \in StopSources
      BY <3>1, <3>2 DEF Supersedes, Rank, Sources, StopSources
    <3>4. QED
      BY <3>1, <3>3 DEF Fits
  <2>3. QED
    BY <2>1, <2>2
<1>3. QED
  BY <1>1, <1>2

(* What a request makes of a unit, in any state and after any requests, is *)
(* what somebody asked for: a start of a unit at rest starts it, and a     *)
(* stop stops, waits or does nothing (JobQueue::submit after               *)
(* forget_spent_target).                                                   *)
THEOREM EffectsAreAlwaysMeant == JobSpec => []EffectsAreMeant
<1> DEFINE EInv == HoldersFit /\ EffectsAreMeant
<1>1. JobInit => EInv
  BY DEF JobInit, HoldersFit, EffectsAreMeant, StartNotVetoed, StopNeverStarts
<1>2. ASSUME TypeOK, HolderPrevails, EInv, [JobNext]_jobVars
      PROVE  EInv'
  <2> USE <1>2
  <2>1. ASSUME effect' = NoEffect, UNCHANGED merged PROVE EInv'
    BY <2>1 DEF HoldersFit, EffectsAreMeant, StartNotVetoed, StopNeverStarts, Fits
  <2>2. CASE PassTime
    BY <2>1, <2>2 DEF PassTime
  <2>3. ASSUME NEW u \in QueueUnits, Move(u)
        PROVE  EInv'
    BY <2>1, <2>3 DEF Move
  <2>4. ASSUME NEW u \in QueueUnits, NEW t \in Targets, NEW s \in Sources,
               t = "Stopped" <=> s \in StopSources, request(u, t, s)
        PROVE  EInv'
    <3> DEFINE job    == [target |-> t, source |-> s, at |-> clock]
               before == IF Spent(u) THEN {} ELSE merged[u]
    <3>1. job \in Job /\ Fits(job)
      BY <2>4 DEF Job, Fits, TypeOK
    <3>2. /\ before \in SUBSET Job
          /\ \A old \in before : Fits(old)
          /\ \A h1, h2 \in before : h1 = h2
      BY DEF TypeOK, HoldersFit, HolderPrevails
    <3>3. /\ merged' = [merged EXCEPT ![u] = Submit(before, job)]
          /\ \E holder \in merged'[u] :
               effect' = [unit |-> u, target |-> t, state |-> actual[u],
                          effect |-> Reconcile(holder.target, actual[u])]
      BY <2>4 DEF request
    <3>4. \A old \in before : old.target = "Stopped" =>
            actual[u] \notin Failed \cup {"Inactive"}
      BY DEF Spent, Reconcile, Failed, Satisfied
    <3>5. job.target = t
      OBVIOUS
    <3> HIDE DEF job, before
    <3>6. /\ Submit(before, job) \subseteq {job} \cup before
          /\ \A h \in Submit(before, job) : Fits(h)
          /\ t = "Stopped" => \A h \in Submit(before, job) : h.target = "Stopped"
      BY <3>1, <3>2, <3>5, SubmitKeeps
    <3>7. HoldersFit'
      BY <3>3, <3>6 DEF HoldersFit, TypeOK, Fits
    <3>8. PICK holder \in Submit(before, job) :
               effect' = [unit |-> u, target |-> t, state |-> actual[u],
                          effect |-> Reconcile(holder.target, actual[u])]
      BY <3>3 DEF TypeOK
    <3>9. holder.target \in Targets
      BY <3>1, <3>2, <3>6 DEF Job
    <3>10. actual[u] \in States
      BY DEF TypeOK
    <3>11. StartNotVetoed'
      <4>1. ASSUME t = "Started", actual[u] \in Failed \cup {"Inactive"}
            PROVE  Reconcile(holder.target, actual[u])
                     \in {"SpawnProcess", "ClearStartLimitAndStart"}
        <5>1. holder.target = "Started"
          BY <3>4, <3>5, <3>6, <3>9, <4>1 DEF Targets
        <5>2. QED
          BY <4>1, <5>1 DEF Reconcile, Failed, Satisfied
      <4>2. effect'.target = t /\ effect'.state = actual[u]
            /\ effect'.effect = Reconcile(holder.target, actual[u])
        BY <3>8
      <4>3. QED
        BY <4>1, <4>2 DEF StartNotVetoed
    <3>12. StopNeverStarts'
      <4>1. ASSUME t = "Stopped"
            PROVE  Reconcile(holder.target, actual[u])
                     \in {"None", "Wait", "SendStopSignal", "CancelBackoffAndStop"}
        <5>1. holder.target = "Stopped"
          BY <3>6, <4>1
        <5>2. QED
          BY <3>10, <5>1 DEF Reconcile, Failed, Satisfied, States
      <4>2. effect'.target = t
            /\ effect'.effect = Reconcile(holder.target, actual[u])
        BY <3>8
      <4>3. QED
        BY <4>1, <4>2 DEF StopNeverStarts
    <3>13. QED
      BY <3>7, <3>11, <3>12 DEF EffectsAreMeant
  <2>5. CASE UNCHANGED jobVars
    BY <2>5 DEF jobVars, HoldersFit, Fits, EffectsAreMeant, StartNotVetoed, StopNeverStarts, NoEffect
  <2>6. QED
    BY <2>2, <2>3, <2>4, <2>5
       DEF JobNext, request_start, request_stop, Targets, Sources, StopSources
<1>3. EInv => EffectsAreMeant
  OBVIOUS
<1>4. QED
  BY <1>1, <1>2, <1>3, TypeCorrect, HolderAlwaysPrevails, PTL DEF JobSpec
===============================================================================
