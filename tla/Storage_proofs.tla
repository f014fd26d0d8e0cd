--------------------------- MODULE Storage_proofs ---------------------------
(***************************************************************************)
(* Proofs about what a device keeps on disk.                               *)
(*                                                                         *)
(* RecordLog, for any set of records and any number of crashes: the        *)
(* invariant adds to the properties how they look at the caller's index,   *)
(* which is what a poisoned handle is cut back to, and that contents only  *)
(* hold records that were passed in.                                       *)
(*                                                                         *)
(* CausalOrder: a published order is the canonical order of the events     *)
(* retained, for any set of events, any parents and any priorities.        *)
(***************************************************************************)
EXTENDS RecordLog, CausalOrder, WellFoundedInduction, FiniteSetTheorems, TLAPS

OnlyUsed ==
    /\ \A c \in disk \cup old : c.recs \subseteq used
    /\ index \subseteq used
    /\ acked \subseteq used
    /\ refused \subseteq used
    /\ \A b \in batches : b \subseteq used

\* The caller's view keeps the promises too, so cutting back to it is safe.
IndexKeeps ==
    phase \in {"open", "poisoned"} =>
        /\ acked \subseteq index
        /\ \A b \in batches : b \subseteq index \/ b \cap index = {}
        /\ refused \cap index = {}
        /\ \A c \in old : refused \cap c.recs = {}

\* A file without its header holds nothing, and nothing was promised of it.
NewFile == phase = "creating" => file = Blank /\ disk = {Blank, Whole({})}

RecordInv ==
    /\ TypeOK
    /\ NewFile
    /\ OnlyUsed
    /\ IndexKeeps
    /\ IndexMatchesFile
    /\ DurableSurvives
    /\ BatchWhole
    /\ FailedStaysOut

-----------------------------------------------------------------------------
\* The fields of the contents the actions build.
LEMMA Fields ==
    /\ Absent.recs = {} /\ Blank.recs = {}
    /\ \A S : Whole(S).recs = S /\ Torn(S).recs = S
BY Zenon DEF Absent, Blank, Whole, Torn

\* The actions build contents of the right type.
LEMMA Built ==
    /\ Absent \in Contents /\ Blank \in Contents
    /\ \A S \in SUBSET Records : Whole(S) \in Contents /\ Torn(S) \in Contents
    /\ \A c \in Contents : c.recs \in SUBSET Records
BY Zenon DEF Absent, Blank, Whole, Torn, Contents

\* A new log is empty.
LEMMA InitRecord == Init => RecordInv
<1> SUFFICES ASSUME Init PROVE RecordInv
  BY Zenon
<1>1. TypeOK
  BY RecordAssumption, Built DEF Init, TypeOK
<1>2. OnlyUsed /\ DurableSurvives
  BY Zenon, Fields DEF Init, OnlyUsed, DurableSurvives
<1>3. NewFile /\ IndexKeeps /\ IndexMatchesFile /\ BatchWhole /\ FailedStaysOut
  BY Zenon DEF Init, NewFile, IndexKeeps, IndexMatchesFile, BatchWhole, FailedStaysOut
<1>. QED
  BY Zenon, <1>1, <1>2, <1>3 DEF RecordInv

\* On an open handle the file is the caller's index, so the next frame is
\* readable.
LEMMA OpenFile ==
    ASSUME RecordInv, phase = "open", NEW r
    PROVE  /\ file.recs = index
           /\ Framed(r) = Whole(index \cup {r})
           /\ Partial = Torn(index)
<1>1. file = Whole(index)
  BY Zenon DEF RecordInv, IndexMatchesFile
<1>2. file.recs = index /\ file.state # "torn"
  BY Zenon, <1>1 DEF Whole
<1>. QED
  BY Zenon, <1>2 DEF Framed, Partial

\* Creating the file: nothing was acknowledged before it existed.
LEMMA CreateInv == ASSUME RecordInv, Create PROVE RecordInv'
<1>. USE Fields, Built
<1>1. TypeOK'
  BY Zenon DEF RecordInv, TypeOK, NewFile, Create, ghosts
<1>2. NewFile'
  BY Zenon DEF RecordInv, NewFile, Create, ghosts
<1>3. OnlyUsed'
  BY Zenon DEF RecordInv, TypeOK, OnlyUsed, Kept, IndexMatchesFile, Create, ghosts
<1>4. IndexKeeps'
  BY Zenon DEF RecordInv, TypeOK, NewFile, OnlyUsed, IndexKeeps, Kept, IndexMatchesFile, DurableSurvives, BatchWhole, FailedStaysOut, Create, ghosts
<1>5. IndexMatchesFile'
  BY Zenon DEF RecordInv, IndexMatchesFile, Create, ghosts
<1>6. DurableSurvives'
  BY Zenon DEF RecordInv, TypeOK, NewFile, IndexKeeps, DurableSurvives, IndexMatchesFile, Create, ghosts
<1>7. BatchWhole'
  BY Zenon DEF RecordInv, TypeOK, OnlyUsed, IndexKeeps, BatchWhole, IndexMatchesFile, Kept, Create, ghosts
<1>8. FailedStaysOut'
  BY Zenon DEF RecordInv, TypeOK, OnlyUsed, IndexKeeps, FailedStaysOut, IndexMatchesFile, Create, ghosts
<1>. QED
  BY Zenon, <1>1, <1>2, <1>3, <1>4, <1>5, <1>6, <1>7, <1>8 DEF RecordInv

\* Writing the header.
LEMMA HeaderInv == ASSUME RecordInv, WriteHeader PROVE RecordInv'
<1>. USE Fields, Built
<1>1. TypeOK'
  BY Zenon DEF RecordInv, TypeOK, NewFile, WriteHeader, ghosts
<1>2. NewFile'
  BY Zenon DEF RecordInv, NewFile, WriteHeader, ghosts
<1>3. OnlyUsed'
  BY Zenon DEF RecordInv, TypeOK, OnlyUsed, Kept, IndexMatchesFile, WriteHeader, ghosts
<1>4. IndexKeeps'
  BY Zenon DEF RecordInv, TypeOK, NewFile, OnlyUsed, IndexKeeps, Kept, IndexMatchesFile, DurableSurvives, BatchWhole, FailedStaysOut, WriteHeader, ghosts
<1>5. IndexMatchesFile'
  BY Zenon DEF RecordInv, IndexMatchesFile, WriteHeader, ghosts
<1>6. DurableSurvives'
  BY Zenon DEF RecordInv, TypeOK, NewFile, IndexKeeps, DurableSurvives, IndexMatchesFile, WriteHeader, ghosts
<1>7. BatchWhole'
  BY DEF RecordInv, TypeOK, OnlyUsed, IndexKeeps, BatchWhole, IndexMatchesFile, Kept, WriteHeader, ghosts
<1>8. FailedStaysOut'
  BY Zenon DEF RecordInv, TypeOK, OnlyUsed, IndexKeeps, FailedStaysOut, IndexMatchesFile, WriteHeader, ghosts
<1>. QED
  BY Zenon, <1>1, <1>2, <1>3, <1>4, <1>5, <1>6, <1>7, <1>8 DEF RecordInv

\* Loading takes over what the file holds.
LEMMA LoadInv == ASSUME RecordInv, load PROVE RecordInv'
<1>. USE Fields, Built
<1>1. file.recs = file.recs /\ file \in disk /\ file \in Contents
  BY Zenon DEF RecordInv, TypeOK
<1>2. file.state = "whole" => file = Whole(file.recs)
  BY Zenon, <1>1 DEF Whole, Contents
<1>3. TypeOK'
  BY Zenon, <1>1, <1>2 DEF RecordInv, TypeOK, NewFile, load, ghosts
<1>4. NewFile'
  BY Zenon, <1>1, <1>2 DEF RecordInv, NewFile, load, ghosts
<1>5. OnlyUsed'
  BY <1>1, <1>2 DEF RecordInv, TypeOK, OnlyUsed, Kept, IndexMatchesFile, load, ghosts
<1>6. IndexKeeps'
  BY Zenon, <1>1, <1>2 DEF RecordInv, TypeOK, NewFile, OnlyUsed, IndexKeeps, Kept, IndexMatchesFile, DurableSurvives, BatchWhole, FailedStaysOut, load, ghosts
<1>7. IndexMatchesFile'
  BY Zenon, <1>1, <1>2 DEF RecordInv, IndexMatchesFile, load, ghosts
<1>8. DurableSurvives'
  BY <1>1, <1>2 DEF RecordInv, TypeOK, NewFile, IndexKeeps, DurableSurvives, IndexMatchesFile, load, ghosts
<1>9. BatchWhole'
  BY <1>1, <1>2 DEF RecordInv, TypeOK, OnlyUsed, IndexKeeps, BatchWhole, IndexMatchesFile, Kept, load, ghosts
<1>10. FailedStaysOut'
  BY Zenon, <1>1, <1>2 DEF RecordInv, TypeOK, OnlyUsed, IndexKeeps, FailedStaysOut, IndexMatchesFile, load, ghosts
<1>. QED
  BY Zenon, <1>3, <1>4, <1>5, <1>6, <1>7, <1>8, <1>9, <1>10 DEF RecordInv

\* A plain append.
LEMMA AppendInv == ASSUME RecordInv, NEW r \in Records, append(r) PROVE RecordInv'
<1>. USE Fields, Built
<1>1. phase = "open"
  BY Zenon DEF RecordInv, append, Healthy
<1>2. file.recs = index /\ Framed(r) = Whole(index \cup {r}) /\ Partial = Torn(index)
  BY Zenon, <1>1, OpenFile
<1>3. TypeOK'
  BY <1>1, <1>2 DEF RecordInv, TypeOK, NewFile, append
<1>4. NewFile'
  BY Zenon, <1>1, <1>2 DEF RecordInv, NewFile, append
<1>5. OnlyUsed'
  BY <1>1, <1>2 DEF RecordInv, TypeOK, OnlyUsed, Kept, IndexMatchesFile, append
<1>6. IndexKeeps'
  BY <1>1, <1>2 DEF RecordInv, TypeOK, NewFile, OnlyUsed, IndexKeeps, Kept, IndexMatchesFile, DurableSurvives, BatchWhole, FailedStaysOut, append
<1>7. IndexMatchesFile'
  BY Zenon, <1>1, <1>2 DEF RecordInv, IndexMatchesFile, append
<1>8. DurableSurvives'
  BY <1>1, <1>2 DEF RecordInv, TypeOK, NewFile, IndexKeeps, DurableSurvives, IndexMatchesFile, append
<1>9. BatchWhole'
  BY <1>1, <1>2 DEF RecordInv, TypeOK, OnlyUsed, IndexKeeps, BatchWhole, IndexMatchesFile, Kept, append
<1>10. FailedStaysOut'
  BY <1>1, <1>2 DEF RecordInv, TypeOK, OnlyUsed, IndexKeeps, FailedStaysOut, IndexMatchesFile, append
<1>. QED
  BY Zenon, <1>3, <1>4, <1>5, <1>6, <1>7, <1>8, <1>9, <1>10 DEF RecordInv

\* A durable append.
LEMMA DurableInv == ASSUME RecordInv, NEW r \in Records, append_durable(r) PROVE RecordInv'
<1>. USE Fields, Built
<1>1. phase = "open"
  BY Zenon DEF RecordInv, append_durable, Healthy
<1>2. file.recs = index /\ Framed(r) = Whole(index \cup {r}) /\ Partial = Torn(index)
  BY Zenon, <1>1, OpenFile
<1>3. TypeOK'
  BY <1>1, <1>2 DEF RecordInv, TypeOK, NewFile, append_durable
<1>4. NewFile'
  BY Zenon, <1>1, <1>2 DEF RecordInv, NewFile, append_durable
<1>5. OnlyUsed'
  BY <1>1, <1>2 DEF RecordInv, TypeOK, OnlyUsed, Kept, IndexMatchesFile, append_durable
<1>6. IndexKeeps'
  BY <1>1, <1>2 DEF RecordInv, TypeOK, NewFile, OnlyUsed, IndexKeeps, Kept, IndexMatchesFile, DurableSurvives, BatchWhole, FailedStaysOut, append_durable
<1>7. IndexMatchesFile'
  BY Zenon, <1>1, <1>2 DEF RecordInv, IndexMatchesFile, append_durable
<1>8. DurableSurvives'
  BY <1>1, <1>2 DEF RecordInv, TypeOK, NewFile, IndexKeeps, DurableSurvives, IndexMatchesFile, append_durable
<1>9. BatchWhole'
  BY <1>1, <1>2 DEF RecordInv, TypeOK, OnlyUsed, IndexKeeps, BatchWhole, IndexMatchesFile, Kept, append_durable
<1>10. FailedStaysOut'
  BY <1>1, <1>2 DEF RecordInv, TypeOK, OnlyUsed, IndexKeeps, FailedStaysOut, IndexMatchesFile, append_durable
<1>. QED
  BY Zenon, <1>3, <1>4, <1>5, <1>6, <1>7, <1>8, <1>9, <1>10 DEF RecordInv

\* A failed append, rolled back or not.
LEMMA FailsInv == ASSUME RecordInv, NEW r \in Records, append_fails(r) PROVE RecordInv'
<1>. USE Fields, Built
<1>1. phase = "open"
  BY Zenon DEF RecordInv, append_fails, Healthy
<1>2. file.recs = index /\ Framed(r) = Whole(index \cup {r}) /\ Partial = Torn(index)
  BY Zenon, <1>1, OpenFile
<1>3. TypeOK'
  <2>1. index \cup {r} \in SUBSET Records /\ index \in SUBSET Records
    BY Zenon DEF RecordInv, TypeOK
  <2>2. Framed(r) \in Contents /\ Partial \in Contents
    BY Zenon, <1>2, <2>1
  <2>3. file' \in disk' /\ disk' \subseteq Contents
    BY Zenon, <2>2 DEF RecordInv, TypeOK, append_fails
  <2>4. boundary' \subseteq Records /\ refused' \subseteq Records /\ used' \subseteq Records
    BY Zenon, <1>2, <2>1 DEF RecordInv, TypeOK, append_fails
  <2>5. phase' \in {"closed", "creating", "open", "poisoned"}
    BY Zenon DEF RecordInv, TypeOK, append_fails
  <2>. QED
    BY Zenon, <2>3, <2>4, <2>5 DEF RecordInv, TypeOK, append_fails
<1>4. NewFile'
  BY Zenon, <1>1, <1>2 DEF RecordInv, NewFile, append_fails
<1>5. OnlyUsed'
  BY <1>1, <1>2 DEF RecordInv, TypeOK, OnlyUsed, Kept, IndexMatchesFile, append_fails
<1>6. IndexKeeps'
  BY <1>1, <1>2 DEF RecordInv, TypeOK, NewFile, OnlyUsed, IndexKeeps, Kept, IndexMatchesFile, DurableSurvives, BatchWhole, FailedStaysOut, append_fails
<1>7. IndexMatchesFile'
  BY Zenon, <1>1, <1>2 DEF RecordInv, IndexMatchesFile, append_fails
<1>8. DurableSurvives'
  BY <1>1, <1>2 DEF RecordInv, TypeOK, NewFile, IndexKeeps, DurableSurvives, IndexMatchesFile, append_fails
<1>9. BatchWhole'
  BY <1>1, <1>2 DEF RecordInv, TypeOK, OnlyUsed, IndexKeeps, BatchWhole, IndexMatchesFile, Kept, append_fails
<1>10. FailedStaysOut'
  BY <1>1, <1>2 DEF RecordInv, TypeOK, OnlyUsed, IndexKeeps, FailedStaysOut, IndexMatchesFile, append_fails
<1>. QED
  BY Zenon, <1>3, <1>4, <1>5, <1>6, <1>7, <1>8, <1>9, <1>10 DEF RecordInv

\* Cutting a poisoned handle back.
LEMMA RecoverInv == ASSUME RecordInv, recover_failed_append PROVE RecordInv'
<1>. USE Fields, Built
<1>1. TypeOK'
  BY Zenon DEF RecordInv, TypeOK, NewFile, recover_failed_append, ghosts
<1>2. NewFile'
  BY Zenon DEF RecordInv, NewFile, recover_failed_append, ghosts
<1>3. OnlyUsed'
  BY DEF RecordInv, TypeOK, OnlyUsed, Kept, IndexMatchesFile, recover_failed_append, ghosts
<1>4. IndexKeeps'
  BY Zenon DEF RecordInv, TypeOK, NewFile, OnlyUsed, IndexKeeps, Kept, IndexMatchesFile, DurableSurvives, BatchWhole, FailedStaysOut, recover_failed_append, ghosts
<1>5. IndexMatchesFile'
  BY Zenon DEF RecordInv, IndexMatchesFile, recover_failed_append, ghosts
<1>6. DurableSurvives'
  BY Zenon DEF RecordInv, TypeOK, NewFile, IndexKeeps, DurableSurvives, IndexMatchesFile, recover_failed_append, ghosts
<1>7. BatchWhole'
  BY DEF RecordInv, TypeOK, OnlyUsed, IndexKeeps, BatchWhole, IndexMatchesFile, Kept, recover_failed_append, ghosts
<1>8. FailedStaysOut'
  BY DEF RecordInv, TypeOK, OnlyUsed, IndexKeeps, FailedStaysOut, IndexMatchesFile, recover_failed_append, ghosts
<1>. QED
  BY Zenon, <1>1, <1>2, <1>3, <1>4, <1>5, <1>6, <1>7, <1>8 DEF RecordInv

\* A sync, with or without the directory.
LEMMA SyncInv == ASSUME RecordInv, sync PROVE RecordInv'
<1>. USE Fields, Built
<1>1. phase = "open" /\ file = Whole(index) /\ file.recs = index
  BY Zenon DEF RecordInv, sync, Healthy, IndexMatchesFile
<1>2. TypeOK'
  BY Zenon, <1>1 DEF RecordInv, TypeOK, NewFile, sync
<1>3. NewFile'
  BY Zenon, <1>1 DEF RecordInv, NewFile, sync
<1>4. OnlyUsed'
  BY Zenon, <1>1 DEF RecordInv, TypeOK, OnlyUsed, Kept, IndexMatchesFile, sync
<1>5. IndexKeeps'
  BY Zenon, <1>1 DEF RecordInv, TypeOK, NewFile, OnlyUsed, IndexKeeps, Kept, IndexMatchesFile, DurableSurvives, BatchWhole, FailedStaysOut, sync
<1>6. IndexMatchesFile'
  BY Zenon, <1>1 DEF RecordInv, IndexMatchesFile, sync
<1>7. DurableSurvives'
  BY Zenon, <1>1 DEF RecordInv, TypeOK, NewFile, IndexKeeps, DurableSurvives, IndexMatchesFile, sync
<1>8. BatchWhole'
  BY Zenon, <1>1 DEF RecordInv, TypeOK, OnlyUsed, IndexKeeps, BatchWhole, IndexMatchesFile, Kept, sync
<1>9. FailedStaysOut'
  BY Zenon, <1>1 DEF RecordInv, TypeOK, OnlyUsed, IndexKeeps, FailedStaysOut, IndexMatchesFile, sync
<1>. QED
  BY Zenon, <1>2, <1>3, <1>4, <1>5, <1>6, <1>7, <1>8, <1>9 DEF RecordInv

\* A replacement of the file.
LEMMA ReplaceInv == ASSUME RecordInv, NEW keep \in SUBSET index, NEW fresh \in SUBSET Records, replace(keep, fresh) PROVE RecordInv'
<1>. USE Fields, Built
<1>1. phase = "open"
  BY Zenon DEF replace, Healthy
<1>2. TypeOK'
  <2>1. keep \cup fresh \in SUBSET Records
    BY Zenon DEF RecordInv, TypeOK
  <2>2. file' \in disk' /\ disk' \cup old' \subseteq Contents
    BY Zenon, <2>1 DEF RecordInv, TypeOK, replace
  <2>3. batches' \subseteq SUBSET Records
    BY Zenon DEF RecordInv, TypeOK, replace, Kept
  <2>4. index' \subseteq Records /\ acked' \subseteq Records /\ used' \subseteq Records
    BY Zenon, <2>1 DEF RecordInv, TypeOK, replace
  <2>. QED
    BY Zenon, <2>2, <2>3, <2>4 DEF RecordInv, TypeOK, replace
<1>3. NewFile'
  BY Zenon, <1>1 DEF RecordInv, NewFile, replace
<1>4. OnlyUsed'
  BY <1>1 DEF RecordInv, TypeOK, OnlyUsed, Kept, IndexMatchesFile, replace
<1>5. IndexKeeps'
  BY <1>1 DEF RecordInv, TypeOK, NewFile, OnlyUsed, IndexKeeps, Kept, IndexMatchesFile, DurableSurvives, BatchWhole, FailedStaysOut, replace
<1>6. IndexMatchesFile'
  BY Zenon, <1>1 DEF RecordInv, IndexMatchesFile, replace
<1>7. DurableSurvives'
  BY <1>1 DEF RecordInv, TypeOK, NewFile, IndexKeeps, DurableSurvives, IndexMatchesFile, replace
<1>8. BatchWhole'
  BY <1>1 DEF RecordInv, TypeOK, OnlyUsed, IndexKeeps, BatchWhole, IndexMatchesFile, Kept, replace
<1>9. FailedStaysOut'
  BY <1>1 DEF RecordInv, TypeOK, OnlyUsed, IndexKeeps, FailedStaysOut, IndexMatchesFile, replace
<1>. QED
  BY Zenon, <1>2, <1>3, <1>4, <1>5, <1>6, <1>7, <1>8, <1>9 DEF RecordInv

\* The end of the process.
LEMMA ExitInv == ASSUME RecordInv, NEW kept \in BOOLEAN, Exit(kept) PROVE RecordInv'
<1>. USE Fields, Built
<1>1. TypeOK'
  <2>1. crashes' \in 0 .. MaxCrashes
    BY RecordAssumption DEF RecordInv, TypeOK, Exit
  <2>2. file' \in disk' /\ disk' \cup old' \subseteq Contents
    BY Zenon DEF RecordInv, TypeOK, Exit
  <2>. QED
    BY Zenon, <2>1, <2>2 DEF RecordInv, TypeOK, Exit, ghosts
<1>2. NewFile'
  BY Zenon DEF RecordInv, NewFile, Exit, ghosts
<1>3. OnlyUsed'
  BY Zenon DEF RecordInv, TypeOK, OnlyUsed, Kept, IndexMatchesFile, Exit, ghosts
<1>4. IndexKeeps'
  BY Zenon DEF RecordInv, TypeOK, NewFile, OnlyUsed, IndexKeeps, Kept, IndexMatchesFile, DurableSurvives, BatchWhole, FailedStaysOut, Exit, ghosts
<1>5. IndexMatchesFile'
  BY Zenon DEF RecordInv, IndexMatchesFile, Exit, ghosts
<1>6. DurableSurvives'
  BY Zenon DEF RecordInv, TypeOK, NewFile, IndexKeeps, DurableSurvives, IndexMatchesFile, Exit, ghosts
<1>7. BatchWhole'
  BY DEF RecordInv, TypeOK, OnlyUsed, IndexKeeps, BatchWhole, IndexMatchesFile, Kept, Exit, ghosts
<1>8. FailedStaysOut'
  BY Zenon DEF RecordInv, TypeOK, OnlyUsed, IndexKeeps, FailedStaysOut, IndexMatchesFile, Exit, ghosts
<1>. QED
  BY Zenon, <1>1, <1>2, <1>3, <1>4, <1>5, <1>6, <1>7, <1>8 DEF RecordInv

\* Every step keeps the invariant.
LEMMA StepRecord == RecordInv /\ [Next]_vars => RecordInv'
<1> SUFFICES ASSUME RecordInv, [Next]_vars PROVE RecordInv'
  BY Zenon
<1>1. CASE UNCHANGED vars
  BY Zenon, <1>1 DEF vars, RecordInv, NewFile, TypeOK, OnlyUsed, IndexKeeps, IndexMatchesFile, DurableSurvives,
     BatchWhole, FailedStaysOut
<1>2. CASE Next
  BY Zenon, <1>2, CreateInv, HeaderInv, LoadInv, AppendInv, DurableInv, FailsInv, RecoverInv, SyncInv,
     ReplaceInv, ExitInv DEF Next
<1>. QED
  BY Zenon, <1>1, <1>2

\* The inductive invariant holds of every behaviour.
THEOREM RecordInvariance == Spec => []RecordInv
BY InitRecord, StepRecord, PTL DEF Spec

\* For any records and any number of crashes and failed writes, a record
\* acknowledged by append_durable or sync is in every content a power loss can
\* leave, until a rewrite leaves it out.
THEOREM DurableRecordsSurvive == Spec => []DurableSurvives
<1>1. RecordInv => DurableSurvives
  BY Zenon DEF RecordInv
<1>. QED
  BY <1>1, RecordInvariance, PTL

\* What callers were told agrees with the file, a failed append stays out, and a
\* batch is stored whole or not at all.
THEOREM CallersAreRight == Spec => [](TypeOK /\ AnswersHold)
<1>1. RecordInv => TypeOK /\ AnswersHold
  BY Zenon DEF RecordInv, AnswersHold
<1>. QED
  BY <1>1, RecordInvariance, PTL

-----------------------------------------------------------------------------
(***************************************************************************)
(* The order of a conversation.                                            *)
(***************************************************************************)
Live == job.phase \notin {"NONE", "OBSOLETE"}
First(s, n) == {s[i] : i \in 1..n}
Distinct(s, n) == \A i, k \in 1..n : s[i] = s[k] => i = k
Base == First(log, job.base)

\* The first n rows of s are the canonical choices out of B.
Greedy(s, n, B) ==
    \A i \in 1..n :
        /\ Parents[s[i]] \subseteq First(s, i - 1)
        /\ \A e \in B \ First(s, i - 1) :
            Parents[e] \subseteq First(s, i - 1) => Priority[s[i]] <= Priority[e]

Phases == {"NONE", "SEED", "RUN", "TAIL", "READY", "OBSOLETE"}
JobType ==
    [id : Nat, phase : Phases, source : Nat, base : Nat, seeded : Nat,
     status : [Events -> {"absent", "waiting", "draining", "done"}],
     degree : [Events -> Nat], rows : Seq(Events), pop : Events \cup {None}, child : Nat]

TypeInv ==
    /\ log \in Seq(Events)
    /\ job \in JobType
    /\ current \in [job : Nat, source : Nat]

\* Every event is retained once, after its parents.
LogInv ==
    /\ Distinct(log, Len(log))
    /\ \A k \in 1..Len(log) : Parents[log[k]] \subseteq First(log, k - 1)

\* The events a job has yet to catch up with rank above all those before them.
LiveInv ==
    Live =>
        /\ job.source = Len(log)
        /\ job.base <= Len(log)
        /\ \A k \in 1..Len(log) : k > job.base =>
            \A i \in 1..k - 1 : Priority[log[i]] < Priority[log[k]]

SeedInv ==
    job.phase = "SEED" =>
        /\ job.rows = <<>>
        /\ job.pop = None
        /\ job.seeded <= job.base
        /\ \A k \in 1..job.seeded : job.degree[log[k]] = Cardinality(Parents[log[k]])
        /\ \A e \in Events : job.status[e] = "waiting" <=> e \in First(log, job.seeded)

\* The parents of the kth event whose edges to it are not drained yet.
Remaining(k) ==
    Parents[log[k]] \ {p \in First(job.rows, Len(job.rows)) : p # job.pop \/ k <= job.child}

RunInv ==
    job.phase = "RUN" =>
        /\ First(job.rows, Len(job.rows)) \subseteq Base
        /\ Distinct(job.rows, Len(job.rows))
        /\ Greedy(job.rows, Len(job.rows), Base)
        /\ job.pop # None => job.pop \in First(job.rows, Len(job.rows))
        /\ \A e \in Events : job.status[e] = "waiting"
                                <=> e \in Base \ First(job.rows, Len(job.rows))
        /\ \A k \in 1..job.base : log[k] \notin First(job.rows, Len(job.rows)) =>
            job.degree[log[k]] = Cardinality(Remaining(k))

TailInv ==
    job.phase \in {"TAIL", "READY"} =>
        /\ job.base <= Len(job.rows) /\ Len(job.rows) <= Len(log)
        /\ job.phase = "READY" => Len(job.rows) = Len(log)
        /\ First(job.rows, job.base) = Base
        /\ Distinct(job.rows, job.base)
        /\ Greedy(job.rows, job.base, Base)
        /\ \A i \in 1..Len(job.rows) : i > job.base => job.rows[i] = log[i]

CurrentInv ==
    current = IF job.phase = "READY" THEN [job |-> job.id, source |-> Len(log)] ELSE Unpublished

OrderInv == TypeInv /\ LogInv /\ LiveInv /\ SeedInv /\ RunInv /\ TailInv /\ CurrentInv

-----------------------------------------------------------------------------

\* Every non-empty set of numbers has a least one, so a minimum can be chosen.
LEMMA LeastNat ==
    ASSUME NEW T, T \subseteq Nat, T # {}
    PROVE  \E x \in T : \A y \in T : x <= y
<1> DEFINE U == {0..n : n \in T}
<1>1. \A n \in T : IsFiniteSet(0..n) /\ (0..n) \in SUBSET Nat
    BY FS_Interval
<1>2. \A n \in T : (0..n) \in FiniteSubsetsOf(Nat)
    BY Zenon, <1>1 DEF FiniteSubsetsOf
<1>3. U \subseteq FiniteSubsetsOf(Nat) /\ U # {}
    BY ZenonT(30), <1>2
<1>4. PICK x \in U : \A y \in U : <<y, x>> \notin StrictSubsetOrdering(Nat)
    BY ZenonT(30), <1>3, FS_StrictSubsetOrderingWellFounded, WFMin
<1>5. PICK n \in T : x = 0..n
    BY Zenon
<1>6. ASSUME NEW m \in T, m < n PROVE FALSE
    <2>1. /\ (0..m) \in SUBSET Nat /\ (0..n) \in SUBSET Nat
          /\ (0..m) # (0..n) /\ (0..m) \subseteq (0..n)
        BY <1>6
    <2>2. <<0..m, 0..n>> \in StrictSubsetOrdering(Nat)
        BY Zenon, <2>1 DEF StrictSubsetOrdering
    <2> QED BY ZenonT(30), <2>2, <1>4, <1>5
<1>7. QED
    BY <1>6

\* What CHOOSE finds when rank looks for the next event.
LEMMA LeastEvent ==
    ASSUME NEW S, S \subseteq Events, S # {}
    PROVE  \E e \in S : \A f \in S : Priority[e] <= Priority[f]
<1> DEFINE T == {Priority[e] : e \in S}
<1>1. T \subseteq Nat /\ T # {}
    BY OrderAssumption
<1>2. PICK x \in T : \A y \in T : x <= y
    BY ZenonT(30), <1>1, LeastNat
<1>3. QED
    BY Zenon, <1>2

\* A prefix without repetitions has as many elements as its length.
LEMMA CountFirst ==
    ASSUME NEW s, NEW n \in Nat, Distinct(s, n)
    PROVE  IsFiniteSet(First(s, n)) /\ Cardinality(First(s, n)) = n
<1> DEFINE f == [i \in 1..n |-> s[i]]
<1>1. n \in Int /\ 1 \in Int /\ (1 > n => n = 0)
    OBVIOUS
<1>2. IsFiniteSet(1..n) /\ Cardinality(1..n) = n
    BY <1>1, FS_Interval
<1>3. f \in Surjection(1..n, First(s, n))
    BY Zenon DEF Surjection, First
<1>4. f \in Injection(1..n, First(s, n))
    BY Zenon DEF Injection, First, IsInjective, Distinct
<1>5. QED
    BY Zenon, <1>2, <1>3, <1>4, FS_Surjection

\* Appending to a sequence leaves what was said of a prefix of it.
LEMMA FirstAppend ==
    ASSUME NEW S, NEW s \in Seq(S), NEW x \in S, NEW n \in Nat, n <= Len(s)
    PROVE  First(Append(s, x), n) = First(s, n)
<1>1. \A i \in 1..n : Append(s, x)[i] = s[i]
    OBVIOUS
<1>2. QED
    BY Zenon, <1>1 DEF First

\* Appending an event adds it to the set of all events of the sequence.
LEMMA FirstAll ==
    ASSUME NEW S, NEW s \in Seq(S), NEW x \in S
    PROVE  First(Append(s, x), Len(s) + 1) = First(s, Len(s)) \cup {x}
<1>1. \A i \in 1..Len(s) : Append(s, x)[i] = s[i]
    OBVIOUS
<1>2. Append(s, x)[Len(s) + 1] = x
    OBVIOUS
<1>3. QED
    BY <1>1, <1>2 DEF First

\* Ranks already given do not depend on what is appended.
LEMMA GreedyAppend ==
    ASSUME NEW s \in Seq(Events), NEW x \in Events, NEW n \in Nat, n <= Len(s), NEW B,
           Greedy(s, n, B)
    PROVE  Greedy(Append(s, x), n, B)
<1>1. \A i \in 1..n : Append(s, x)[i] = s[i]
    OBVIOUS
<1>2. \A i \in 1..n : First(Append(s, x), i - 1) = First(s, i - 1)
    BY FirstAppend
<1>3. QED
    BY Zenon, <1>1, <1>2 DEF Greedy

\* Neither do they become equal.
LEMMA DistinctAppend ==
    ASSUME NEW s \in Seq(Events), NEW x \in Events, NEW n \in Nat, n <= Len(s), Distinct(s, n)
    PROVE  Distinct(Append(s, x), n)
BY DEF Distinct

\* Appending an event that is not there keeps the sequence free of repetitions.
LEMMA DistinctExtend ==
    ASSUME NEW s \in Seq(Events), NEW x \in Events,
           Distinct(s, Len(s)), x \notin First(s, Len(s))
    PROVE  Distinct(Append(s, x), Len(s) + 1)
<1>1. \A i \in 1..Len(s) : s[i] # x /\ Append(s, x)[i] = s[i]
    BY DEF First
<1>2. Append(s, x)[Len(s) + 1] = x /\ Len(s) \in Nat
    OBVIOUS
<1>3. SUFFICES ASSUME NEW i \in 1..Len(s) + 1, NEW k \in 1..Len(s) + 1,
                      Append(s, x)[i] = Append(s, x)[k]
               PROVE  i = k
    BY Zenon DEF Distinct
<1>4. CASE i \in 1..Len(s) /\ k \in 1..Len(s)
    BY Zenon, <1>1, <1>3, <1>4 DEF Distinct
<1>5. CASE i = Len(s) + 1 \/ k = Len(s) + 1
    BY <1>1, <1>2, <1>3, <1>5
<1>6. QED
    BY <1>2, <1>4, <1>5

\* Appending the least ready event extends a greedy order.
LEMMA GreedyExtend ==
    ASSUME NEW s \in Seq(Events), NEW x \in Events, NEW B, Greedy(s, Len(s), B),
           Parents[x] \subseteq First(s, Len(s)),
           \A f \in B \ First(s, Len(s)) :
                Parents[f] \subseteq First(s, Len(s)) => Priority[x] <= Priority[f]
    PROVE  Greedy(Append(s, x), Len(s) + 1, B)
<1>1. Len(s) \in Nat /\ (Len(s) + 1) - 1 = Len(s)
    OBVIOUS
<1>2. Greedy(Append(s, x), Len(s), B)
    BY <1>1, GreedyAppend
<1>3. Append(s, x)[Len(s) + 1] = x /\ First(Append(s, x), Len(s)) = First(s, Len(s))
    BY <1>1, FirstAppend
<1>4. \A i \in 1..Len(s) + 1 : i \in 1..Len(s) \/ i = Len(s) + 1
    BY <1>1
<1>5. QED
    BY Zenon, <1>1, <1>2, <1>3, <1>4 DEF Greedy

-----------------------------------------------------------------------------

\* No job and no event.
LEMMA InitInv == OrderInit => OrderInv
<1> SUFFICES ASSUME OrderInit PROVE OrderInv
    BY Zenon
<1>1. job = NewJob(0, 0) /\ job.phase = "NONE" /\ log = <<>> /\ current = Unpublished
    BY Zenon DEF OrderInit, NewJob
<1>2. TypeInv
    BY <1>1 DEF TypeInv, JobType, NewJob, Phases, Unpublished
<1>3. LogInv
    BY <1>1 DEF LogInv, Distinct
<1>4. QED
    BY Zenon, <1>1, <1>2, <1>3
    DEF OrderInv, LiveInv, Live, SeedInv, RunInv, TailInv, CurrentInv

\* What an append does to the log, whatever it does to the job.
LEMMA LogAppend ==
    ASSUME OrderInv, NEW e \in Events, append_with_gate(e)
    PROVE  /\ log' \in Seq(Events) /\ Len(log') = Len(log) + 1
           /\ \A k \in 1..Len(log) : log'[k] = log[k]
           /\ log'[Len(log) + 1] = e
           /\ \A n \in 0..Len(log) : First(log', n) = First(log, n)
           /\ LogInv'
<1>1. log \in Seq(Events) /\ log' = Append(log, e)
    BY Zenon DEF OrderInv, TypeInv, append_with_gate
<1>2. /\ log' \in Seq(Events) /\ Len(log') = Len(log) + 1 /\ Len(log) \in Nat
      /\ \A k \in 1..Len(log) : log'[k] = log[k]
      /\ log'[Len(log) + 1] = e
    BY <1>1
<1>3. \A n \in 0..Len(log) : First(log', n) = First(log, n)
    BY <1>1, <1>2, FirstAppend
<1>4. First(log, Len(log)) = Range(log)
    BY <1>1 DEF First, Range
<1>5. e \notin First(log, Len(log)) /\ Parents[e] \subseteq First(log, Len(log))
    BY Zenon, <1>4 DEF append_with_gate
<1>6. Distinct(log', Len(log'))
    <2>1. \A k \in 1..Len(log) : log'[k] # e
        BY Zenon, <1>2, <1>5 DEF First
    <2>2. Distinct(log, Len(log))
        BY Zenon DEF OrderInv, LogInv
    <2>3. QED
        BY <1>2, <2>1, <2>2 DEF Distinct
<1>7. \A k \in 1..Len(log') : Parents[log'[k]] \subseteq First(log', k - 1)
    <2>1. SUFFICES ASSUME NEW k \in 1..Len(log') PROVE Parents[log'[k]] \subseteq First(log', k - 1)
        BY Zenon
    <2>2. k - 1 \in 0..Len(log)
        BY <1>2
    <2>3. CASE k \in 1..Len(log)
        BY Zenon, <1>2, <1>3, <2>2, <2>3 DEF OrderInv, LogInv
    <2>4. CASE k = Len(log) + 1
        BY <1>2, <1>3, <1>5, <2>2, <2>4
    <2>5. QED
        BY <1>2, <2>3, <2>4
<1>8. QED
    BY Zenon, <1>2, <1>3, <1>6, <1>7 DEF LogInv

\* An append keeps what the job has done with its base.
LEMMA AppendOrderInv ==
    ASSUME OrderInv, NEW e \in Events, append_with_gate(e)
    PROVE  OrderInv'
<1>1. /\ log \in Seq(Events) /\ Len(log) \in Nat /\ job \in JobType
      /\ current \in [job : Nat, source : Nat]
    BY DEF OrderInv, TypeInv
<1>2. /\ log' \in Seq(Events) /\ Len(log') = Len(log) + 1
      /\ \A k \in 1..Len(log) : log'[k] = log[k]
      /\ log'[Len(log) + 1] = e
      /\ \A n \in 0..Len(log) : First(log', n) = First(log, n)
      /\ LogInv'
    BY Zenon, LogAppend
<1>3. CASE append_unordered
    <2>1. job' = job /\ current' = current /\ job.phase \in {"NONE", "OBSOLETE"}
        BY Zenon, <1>3 DEF append_unordered
    <2>2. QED
        BY Zenon, <1>1, <1>2, <2>1
        DEF OrderInv, TypeInv, LiveInv, Live, SeedInv, RunInv, TailInv, CurrentInv
<1>4. CASE append_unsafe(e)
    <2>1. /\ job' = [job EXCEPT !.phase = "OBSOLETE"] /\ current' = Unpublished
          /\ job'.phase = "OBSOLETE"
        BY Zenon, <1>1, <1>4 DEF append_unsafe, JobType
    <2>2. job' \in JobType /\ current' \in [job : Nat, source : Nat]
        BY ZenonT(30), <1>1, <2>1 DEF JobType, Phases, Unpublished
    <2>3. QED
        BY Zenon, <1>2, <2>1, <2>2
        DEF OrderInv, TypeInv, LiveInv, Live, SeedInv, RunInv, TailInv, CurrentInv
<1>5. CASE append_safe(e)
    <2>1. /\ Live /\ AboveAll(e)
          /\ job.source = Len(log) /\ job.base <= Len(log) /\ job.base \in 0..Len(log)
        BY <1>1, <1>5 DEF append_safe, OrderInv, LiveInv, Live, JobType
    <2>2. /\ job' \in JobType
          /\ job'.phase = job.phase /\ job'.base = job.base /\ job'.id = job.id
          /\ job'.source = Len(log) + 1
          /\ job'.seeded = job.seeded /\ job'.status = job.status /\ job'.degree = job.degree
          /\ job'.pop = job.pop /\ job'.child = job.child
          /\ job.phase # "READY" => job'.rows = job.rows
          /\ job.phase = "READY" => job'.rows = Append(job.rows, e)
        <3> DEFINE r == IF job.phase = "READY" THEN Append(job.rows, e) ELSE job.rows
        <3>1. job' = [job EXCEPT !.source = Len(log) + 1, !.rows = r]
            BY Zenon, <1>5 DEF append_safe, revision
        <3>2. r \in Seq(Events) /\ Len(log) + 1 \in Nat
            BY <1>1 DEF JobType
        <3> HIDE DEF r
        <3>3. /\ job' \in JobType
              /\ job'.phase = job.phase /\ job'.base = job.base /\ job'.id = job.id
              /\ job'.source = Len(log) + 1
              /\ job'.seeded = job.seeded /\ job'.status = job.status /\ job'.degree = job.degree
              /\ job'.pop = job.pop /\ job'.child = job.child
              /\ job'.rows = r
            BY ZenonT(30), <1>1, <3>1, <3>2 DEF JobType
        <3>4. QED
            BY Zenon, <3>3 DEF r
    <2>3. Base' = Base
        BY Zenon, <1>2, <2>1, <2>2 DEF Base
    <2>4. \A k \in 1..Len(log) : Priority[log[k]] < Priority[e]
        BY <1>1, <2>1 DEF AboveAll, Range
    <2>5. LiveInv'
        <3>0. job'.source = Len(log') /\ job'.base = job.base /\ job'.base <= Len(log')
            <4>1. Len(log') = Len(log) + 1 /\ job'.source = Len(log) + 1 /\ job'.base = job.base
                BY Zenon, <1>2, <2>2
            <4>2. job.base <= Len(log) + 1
                BY <1>1, <2>1
            <4>3. QED
                BY Zenon, <4>1, <4>2
        <3>1. SUFFICES ASSUME NEW k \in 1..Len(log'), k > job.base, NEW i \in 1..k - 1
                       PROVE  Priority[log'[i]] < Priority[log'[k]]
            BY Zenon, <3>0 DEF LiveInv
        <3>2. CASE k \in 1..Len(log)
            <4>1. Priority[log[i]] < Priority[log[k]]
                BY Zenon, <2>1, <3>1, <3>2 DEF OrderInv, LiveInv
            <4>2. log'[i] = log[i] /\ log'[k] = log[k]
                BY <1>1, <1>2, <3>2
            <4>3. QED
                BY Zenon, <4>1, <4>2
        <3>3. CASE k = Len(log) + 1
            <4>1. i \in 1..Len(log)
                BY <1>1, <3>3
            <4>2. log'[i] = log[i] /\ log'[k] = e
                BY Zenon, <1>2, <3>3, <4>1
            <4>3. QED
                BY Zenon, <2>4, <4>1, <4>2
        <3>4. k \in 1..Len(log) \/ k = Len(log) + 1
            BY <1>1, <1>2
        <3>5. QED
            BY Zenon, <3>2, <3>3, <3>4
    <2>6. SeedInv'
        <3>1. SUFFICES ASSUME job.phase = "SEED" PROVE SeedInv'
            BY Zenon, <2>2 DEF SeedInv
        <3>2. job.seeded \in 0..Len(log)
            BY <1>1, <2>1, <3>1 DEF OrderInv, SeedInv, JobType
        <3>3. First(log', job.seeded) = First(log, job.seeded)
              /\ \A k \in 1..job.seeded : log'[k] = log[k]
            BY <1>1, <1>2, <3>2
        <3>4. QED
            BY Zenon, <2>2, <3>1, <3>3 DEF OrderInv, SeedInv
    <2>7. RunInv'
        <3>1. SUFFICES ASSUME job.phase = "RUN" PROVE RunInv'
            BY Zenon, <2>2 DEF RunInv
        <3>2. \A k \in 1..job.base : log'[k] = log[k] /\ Remaining(k)' = Remaining(k)
            BY <1>1, <1>2, <2>1, <2>2, <3>1 DEF Remaining
        <3>3. job'.rows = job.rows
            BY Zenon, <2>2, <3>1
        <3>4. QED
            BY <2>2, <2>3, <3>1, <3>2, <3>3 DEF OrderInv, RunInv
    <2>8. TailInv'
        <3>1. SUFFICES ASSUME job.phase \in {"TAIL", "READY"} PROVE TailInv'
            BY Zenon, <2>2 DEF TailInv
        <3>2. TailInv /\ job.rows \in Seq(Events) /\ Len(job.rows) \in Nat
            BY <1>1 DEF OrderInv, JobType
        <3>3. CASE job.phase = "TAIL"
            <4>1. /\ job'.phase = "TAIL" /\ job'.base = job.base /\ job'.rows = job.rows
                  /\ Len(log') = Len(log) + 1 /\ \A i \in 1..Len(log) : log'[i] = log[i]
                BY Zenon, <1>2, <2>2, <3>3
            <4>2. /\ Len(job.rows) <= Len(log)
                  /\ \A i \in 1..Len(job.rows) : i > job.base => job.rows[i] = log[i]
                BY Zenon, <3>2, <3>3 DEF TailInv
            <4>3. Len(job.rows) <= Len(log) + 1 /\ \A i \in 1..Len(job.rows) : i \in 1..Len(log)
                BY <1>1, <3>2, <4>2
            <4>4. \A i \in 1..Len(job.rows) : i > job.base => job.rows[i] = log'[i]
                BY Zenon, <4>1, <4>2, <4>3
            <4>5. QED
                BY Zenon, <2>3, <3>2, <3>3, <4>1, <4>3, <4>4 DEF TailInv
        <3>4. CASE job.phase = "READY"
            <4>1. /\ job.base \in Nat /\ job.base <= Len(job.rows) /\ Len(job.rows) = Len(log)
                  /\ job'.rows = Append(job.rows, e)
                BY <1>1, <2>1, <2>2, <3>2, <3>4 DEF TailInv
            <4>2. /\ First(job'.rows, job.base) = First(job.rows, job.base)
                  /\ Distinct(job'.rows, job.base)
                  /\ Greedy(job'.rows, job.base, Base)
                BY <3>2, <3>4, <4>1, FirstAppend, DistinctAppend, GreedyAppend DEF TailInv
            <4>3. Len(job'.rows) = Len(log') /\ \A i \in 1..Len(job'.rows) :
                                                    i > job.base => job'.rows[i] = log'[i]
                BY <1>1, <1>2, <3>2, <3>4, <4>1 DEF TailInv
            <4>4. QED
                BY <1>2, <2>2, <2>3, <3>2, <3>4, <4>1, <4>2, <4>3 DEF TailInv
        <3>5. QED
            BY Zenon, <3>1, <3>3, <3>4
    <2>9. CurrentInv' /\ current' \in [job : Nat, source : Nat]
        <3>1. CASE job.phase = "READY"
            <4>1. current = [job |-> job.id, source |-> Len(log)]
                BY Zenon, <3>1 DEF OrderInv, CurrentInv
            <4>2. current' = [current EXCEPT !.source = Len(log) + 1]
                BY Zenon, <1>5, <3>1 DEF append_safe, revision
            <4>3. current' = [job |-> job.id, source |-> Len(log) + 1]
                BY Zenon, <4>1, <4>2
            <4>4. job.id \in Nat /\ Len(log) + 1 \in Nat
                BY <1>1 DEF JobType
            <4>5. QED
                BY Zenon, <1>2, <2>2, <3>1, <4>3, <4>4 DEF CurrentInv
        <3>2. CASE job.phase # "READY"
            BY Zenon, <1>1, <1>5, <2>2, <3>2 DEF OrderInv, CurrentInv, append_safe
        <3>3. QED
            BY Zenon, <3>1, <3>2
    <2>10. QED
        BY Zenon, <1>2, <2>2, <2>5, <2>6, <2>7, <2>8, <2>9 DEF OrderInv, TypeInv
<1>6. QED
    BY Zenon, <1>3, <1>4, <1>5 DEF append_with_gate

-----------------------------------------------------------------------------

\* The parts of the invariant that a step of the engine with the same base and
\* source leaves alone.
LEMMA EngineFrame ==
    ASSUME OrderInv, log' = log, Live, Live',
           job'.base = job.base, job'.source = job.source
    PROVE  LogInv' /\ LiveInv' /\ Base' = Base
<1>1. LogInv'
    BY Zenon DEF OrderInv, LogInv
<1>2. LiveInv'
    BY Zenon DEF OrderInv, LiveInv
<1>3. QED
    BY Zenon, <1>1, <1>2 DEF Base

\* A step that changes nothing.
LEMMA StutterInv ==
    ASSUME OrderInv, log' = log, job' = job, current' = current
    PROVE  OrderInv'
<1>1. TypeInv' /\ LogInv' /\ LiveInv' /\ SeedInv' /\ Base' = Base
    BY Zenon DEF OrderInv, TypeInv, LogInv, LiveInv, Live, SeedInv, Base
<1>2. \A k : Remaining(k)' = Remaining(k)
    BY Zenon DEF Remaining
<1>3. RunInv'
    BY Zenon, <1>1, <1>2 DEF OrderInv, RunInv
<1>4. TailInv' /\ CurrentInv'
    BY Zenon, <1>1 DEF OrderInv, TailInv, CurrentInv
<1>5. QED
    BY Zenon, <1>1, <1>3, <1>4 DEF OrderInv

\* A job that is absent or obsolete is replaced by a fresh one.
LEMMA RestartInv ==
    ASSUME OrderInv, commit_order(advance(job)), job.phase \in {"NONE", "OBSOLETE"}
    PROVE  OrderInv'
<1>1. /\ log \in Seq(Events) /\ Len(log) \in Nat /\ Len(log) > 0
      /\ log' = log /\ job.id \in Nat /\ job.phase # "READY"
    BY DEF OrderInv, TypeInv, JobType, commit_order
<1>2. job' = NewJob(job.id + 1, Len(log))
    BY Zenon DEF commit_order, advance, revision
<1>3. /\ job'.phase = "SEED" /\ job'.rows = <<>> /\ job'.pop = None
      /\ job'.source = Len(log) /\ job'.base = Len(log) /\ job'.seeded = 0
      /\ job'.status = [e \in Events |-> "absent"]
    BY <1>1, <1>2 DEF NewJob
<1>4. job' \in JobType
    BY <1>1, <1>2 DEF NewJob, JobType, Phases
<1>5. current' = Unpublished /\ current' \in [job : Nat, source : Nat]
    <2>1. current = Unpublished
        BY Zenon, <1>1 DEF OrderInv, CurrentInv
    <2>2. current' = current
        BY Zenon, <1>2, <1>3 DEF commit_order
    <2>3. QED
        BY Zenon, <2>1, <2>2 DEF Unpublished
<1>6. LogInv'
    BY Zenon, <1>1 DEF OrderInv, LogInv
<1>7. LiveInv'
    BY <1>1, <1>3 DEF LiveInv, Live
<1>8. SeedInv'
    <2>1. First(log', job'.seeded) = {}
        BY <1>3 DEF First
    <2>2. QED
        BY <1>1, <1>3, <2>1 DEF SeedInv
<1>9. QED
    BY Zenon, <1>1, <1>3, <1>4, <1>5, <1>6, <1>7, <1>8
    DEF OrderInv, TypeInv, RunInv, TailInv, CurrentInv

\* SEED: the next event of the base becomes a vertex with its parents as its degree.
LEMMA SeedStep ==
    ASSUME OrderInv, commit_order(advance(job)), job.phase = "SEED"
    PROVE  OrderInv'
<1>1. /\ log \in Seq(Events) /\ Len(log) \in Nat /\ job \in JobType
      /\ log' = log /\ Live
      /\ job.base \in Nat /\ job.base <= Len(log) /\ job.seeded \in Nat
      /\ job.seeded <= job.base /\ job.rows = <<>> /\ job.pop = None
    BY Zenon DEF OrderInv, TypeInv, JobType, commit_order, Live, LiveInv, SeedInv
<1>2. job' = seed(job) /\ current' = IF job'.phase = "READY" THEN current' ELSE current
    BY Zenon DEF commit_order, advance
<1>3. current = Unpublished /\ Unpublished \in [job : Nat, source : Nat]
    BY Zenon DEF OrderInv, CurrentInv, Unpublished
<1>4. CASE job.seeded < job.base
    <2> DEFINE e == log[job.seeded + 1]
               c == Cardinality(Parents[e])
    <2>1. e \in Events /\ c \in Nat
        <3>1. job.seeded + 1 \in 1..Len(log)
            BY <1>1, <1>4
        <3>2. e \in Events
            BY <1>1, <3>1
        <3>3. IsFiniteSet(Parents[e])
            BY Zenon, <3>2, OrderAssumption
        <3>4. QED
            BY Zenon, <3>2, <3>3, FS_CardinalityType
    <2>2. job' = [job EXCEPT !.seeded = job.seeded + 1, !.status[e] = "waiting", !.degree[e] = c]
        BY Zenon, <1>2, <1>4 DEF seed
    <2>3. \A k \in 1..job.seeded : log[k] # e /\ log[k] \in Events
        BY <1>1, <1>4 DEF OrderInv, LogInv, Distinct
    <2>4. First(log, job.seeded + 1) = First(log, job.seeded) \cup {e}
        BY <1>1, <1>4 DEF First
    <2> HIDE DEF e, c
    <2>5. /\ job' \in JobType
          /\ job'.phase = "SEED" /\ job'.rows = job.rows /\ job'.pop = job.pop
          /\ job'.source = job.source /\ job'.base = job.base /\ job'.seeded = job.seeded + 1
          /\ job'.status = [job.status EXCEPT ![e] = "waiting"]
          /\ job'.degree = [job.degree EXCEPT ![e] = c]
        <3> DEFINE st == [job.status EXCEPT ![e] = "waiting"]
                   dg == [job.degree EXCEPT ![e] = c]
        <3>1. job' = [job EXCEPT !.seeded = job.seeded + 1, !.status = st, !.degree = dg]
            BY Zenon, <1>1, <2>2 DEF JobType
        <3>2. /\ st \in [Events -> {"absent", "waiting", "draining", "done"}]
              /\ dg \in [Events -> Nat]
            BY Zenon, <1>1, <2>1 DEF JobType
        <3> HIDE DEF st, dg
        <3>3. job.seeded + 1 \in Nat
            BY <1>1
        <3>4. job' \in JobType
            BY ZenonT(30), <1>1, <3>1, <3>2, <3>3 DEF JobType
        <3>5. /\ job'.phase = "SEED" /\ job'.rows = job.rows /\ job'.pop = job.pop
              /\ job'.source = job.source /\ job'.base = job.base /\ job'.seeded = job.seeded + 1
              /\ job'.status = st /\ job'.degree = dg
            BY Zenon, <1>1, <3>1 DEF JobType
        <3>6. QED
            BY Zenon, <3>4, <3>5 DEF st, dg
    <2>6. LogInv' /\ LiveInv'
        BY Zenon, <1>1, <2>5, EngineFrame DEF Live
    <2>7. \A k \in 1..job.seeded + 1 : job'.degree[log[k]] = Cardinality(Parents[log[k]])
        <3>1. job'.degree[e] = c
            BY Zenon, <1>1, <2>1, <2>5 DEF JobType
        <3>2. \A k \in 1..job.seeded : job'.degree[log[k]] = job.degree[log[k]]
            BY ZenonT(30), <1>1, <2>3, <2>5 DEF JobType
        <3>3. \A k \in 1..job.seeded : job.degree[log[k]] = Cardinality(Parents[log[k]])
            BY Zenon DEF OrderInv, SeedInv
        <3>4. QED
            BY <1>1, <3>1, <3>2, <3>3 DEF e, c
    <2>8. \A f \in Events : job'.status[f] = "waiting" <=> f \in First(log, job.seeded + 1)
        BY Zenon, <1>1, <2>1, <2>4, <2>5 DEF OrderInv, SeedInv, JobType
    <2>9. SeedInv'
        BY <1>1, <1>4, <2>5, <2>7, <2>8 DEF SeedInv
    <2>10. QED
        BY Zenon, <1>1, <1>2, <1>3, <2>5, <2>6, <2>9
        DEF OrderInv, TypeInv, RunInv, TailInv, CurrentInv
<1>5. CASE ~(job.seeded < job.base)
    <2>1. job.seeded = job.base /\ job' = [job EXCEPT !.phase = "RUN"]
        BY <1>1, <1>2, <1>5 DEF seed
    <2>2. /\ job' \in JobType
          /\ job'.phase = "RUN" /\ job'.rows = <<>> /\ job'.pop = None
          /\ job'.source = job.source /\ job'.base = job.base
          /\ job'.status = job.status /\ job'.degree = job.degree
        BY ZenonT(30), <1>1, <2>1 DEF JobType, Phases
    <2>3. LogInv' /\ LiveInv' /\ Base' = Base
        BY Zenon, <1>1, <2>2, EngineFrame DEF Live
    <2>4. First(job'.rows, Len(job'.rows)) = {} /\ Len(job'.rows) = 0
        BY <2>2 DEF First
    <2>5. \A k \in 1..job.base : Remaining(k)' = Parents[log[k]]
        BY Zenon, <1>1, <2>4 DEF Remaining
    <2>6. \A k \in 1..job.base : job.degree[log[k]] = Cardinality(Parents[log[k]])
        BY Zenon, <2>1 DEF OrderInv, SeedInv
    <2>7. \A e \in Events : job.status[e] = "waiting" <=> e \in Base
        BY Zenon, <2>1 DEF OrderInv, SeedInv, Base
    <2>8. Distinct(job'.rows, 0) /\ Greedy(job'.rows, 0, Base)
        BY DEF Distinct, Greedy
    <2>9. RunInv'
        BY <1>1, <2>2, <2>3, <2>4, <2>5, <2>6, <2>7, <2>8 DEF RunInv
    <2>10. QED
        BY Zenon, <1>1, <1>2, <1>3, <2>2, <2>3, <2>9
        DEF OrderInv, TypeInv, SeedInv, TailInv, CurrentInv
<1>6. QED
    BY Zenon, <1>4, <1>5

\* A waiting event of the base has no edge left exactly when its parents are
\* all ranked.
LEMMA ReadyIsRankable ==
    ASSUME OrderInv, job.phase = "RUN", job.pop = None
    PROVE  Ready(job) = {e \in Base \ First(job.rows, Len(job.rows)) :
                            Parents[e] \subseteq First(job.rows, Len(job.rows))}
<1> DEFINE R == First(job.rows, Len(job.rows))
<1>1. /\ log \in Seq(Events) /\ Len(log) \in Nat /\ job \in JobType
      /\ job.base \in Nat /\ job.base <= Len(log) /\ job.rows \in Seq(Events)
    BY Zenon DEF OrderInv, TypeInv, JobType, Live, LiveInv
<1>2. R \subseteq Events /\ None \notin R
    BY <1>1, OrderAssumption DEF First
<1>3. Base \subseteq Events
    BY <1>1 DEF Base, First
<1>4. \A e \in Events : job.status[e] = "waiting" <=> e \in Base \ R
    BY Zenon DEF OrderInv, RunInv
<1>5. ASSUME NEW e \in Base \ R
      PROVE  job.degree[e] = 0 <=> Parents[e] \subseteq R
    <2>1. PICK k \in 1..job.base : e = log[k]
        BY Zenon, <1>5 DEF Base, First
    <2>2. job.degree[e] = Cardinality(Remaining(k))
        BY Zenon, <1>5, <2>1 DEF OrderInv, RunInv
    <2>3. Remaining(k) = Parents[e] \ R
        BY Zenon, <1>2, <2>1 DEF Remaining
    <2>4. IsFiniteSet(Parents[e] \ R)
        BY ZenonT(30), <1>3, <1>5, OrderAssumption, FS_Difference
    <2>5. Cardinality(Parents[e] \ R) = 0 <=> Parents[e] \ R = {}
        BY Zenon, <2>4, FS_EmptySet
    <2>6. QED
        BY Zenon, <2>2, <2>3, <2>5
<1>6. QED
    BY Zenon, <1>3, <1>4, <1>5 DEF Ready

\* As many rows as the base has events are the whole base.
LEMMA FullRowsAreBase ==
    ASSUME OrderInv, job.phase = "RUN"
    PROVE  Len(job.rows) = job.base <=> First(job.rows, Len(job.rows)) = Base
<1>1. /\ log \in Seq(Events) /\ Len(log) \in Nat
      /\ job.base \in Nat /\ job.base <= Len(log) /\ Len(job.rows) \in Nat
    BY DEF OrderInv, TypeInv, JobType, Live, LiveInv
<1>2. /\ First(job.rows, Len(job.rows)) \subseteq Base
      /\ Distinct(job.rows, Len(job.rows))
    BY Zenon DEF OrderInv, RunInv
<1>3. /\ IsFiniteSet(First(job.rows, Len(job.rows)))
      /\ Cardinality(First(job.rows, Len(job.rows))) = Len(job.rows)
    BY Zenon, <1>1, <1>2, CountFirst
<1>4. Distinct(log, job.base)
    BY <1>1 DEF OrderInv, LogInv, Distinct
<1>5. IsFiniteSet(Base) /\ Cardinality(Base) = job.base
    BY Zenon, <1>1, <1>4, CountFirst DEF Base
<1>6. QED
    BY Zenon, <1>2, <1>3, <1>5, FS_Subset

\* RUN with no event to drain: the least ready vertex gets the next rank.
LEMMA RankStep ==
    ASSUME OrderInv, commit_order(advance(job)), job.phase = "RUN", job.pop = None
    PROVE  OrderInv'
<1> DEFINE R == First(job.rows, Len(job.rows))
<1>1. /\ log \in Seq(Events) /\ Len(log) \in Nat /\ job \in JobType
      /\ log' = log /\ Live
      /\ job.base \in Nat /\ job.base <= Len(log)
      /\ job.rows \in Seq(Events) /\ Len(job.rows) \in Nat
    BY DEF OrderInv, TypeInv, JobType, commit_order, Live, LiveInv
<1>2. job' = rank(job) /\ (job'.phase # "READY" => current' = current)
    BY Zenon DEF commit_order, advance
<1>3. current = Unpublished /\ Unpublished \in [job : Nat, source : Nat]
    BY Zenon DEF OrderInv, CurrentInv, Unpublished
<1>4. /\ R \subseteq Base
      /\ Distinct(job.rows, Len(job.rows))
      /\ Greedy(job.rows, Len(job.rows), Base)
    BY Zenon DEF OrderInv, RunInv
<1>5. CASE Len(job.rows) = job.base
    <2>1. job' = [job EXCEPT !.phase = "TAIL"]
        BY Zenon, <1>2, <1>5 DEF rank
    <2>2. /\ job' \in JobType
          /\ job'.phase = "TAIL" /\ job'.rows = job.rows
          /\ job'.source = job.source /\ job'.base = job.base
        BY ZenonT(30), <1>1, <2>1 DEF JobType, Phases
    <2>3. LogInv' /\ LiveInv' /\ Base' = Base
        BY Zenon, <1>1, <2>2, EngineFrame DEF Live
    <2>4. R = Base
        BY Zenon, <1>5, FullRowsAreBase
    <2>5. TailInv'
        BY <1>1, <1>4, <1>5, <2>2, <2>3, <2>4 DEF TailInv
    <2>6. QED
        BY Zenon, <1>1, <1>2, <1>3, <2>2, <2>3, <2>5
        DEF OrderInv, TypeInv, SeedInv, RunInv, CurrentInv
<1>6. CASE Len(job.rows) # job.base /\ Ready(job) = {}
    <2>1. job' = job /\ current' = current
        BY Zenon, <1>2, <1>6 DEF rank
    <2>2. QED
        BY Zenon, <1>1, <2>1, StutterInv
<1>7. CASE Len(job.rows) # job.base /\ Ready(job) # {}
    <2> DEFINE e == CHOOSE x \in Ready(job) : \A f \in Ready(job) : Priority[x] <= Priority[f]
    <2>1. Ready(job) = {x \in Base \ R : Parents[x] \subseteq R}
        BY Zenon, ReadyIsRankable
    <2>2. Ready(job) \subseteq Events
        BY Zenon DEF Ready
    <2>3. e \in Ready(job) /\ \A f \in Ready(job) : Priority[e] <= Priority[f]
        BY Zenon, <1>7, <2>2, LeastEvent
    <2>4. job' = [job EXCEPT !.rows = Append(job.rows, e), !.status[e] = "draining",
                             !.pop = e, !.child = 0]
        BY Zenon, <1>2, <1>7 DEF rank
    <2> HIDE DEF e
    <2>5. e \in Events /\ e \in Base /\ e \notin R /\ Parents[e] \subseteq R
        BY Zenon, <2>1, <2>2, <2>3
    <2>6. /\ job' \in JobType
          /\ job'.phase = "RUN" /\ job'.rows = Append(job.rows, e)
          /\ job'.pop = e /\ job'.child = 0
          /\ job'.source = job.source /\ job'.base = job.base
          /\ job'.status = [job.status EXCEPT ![e] = "draining"]
          /\ job'.degree = job.degree
        <3> DEFINE st == [job.status EXCEPT ![e] = "draining"]
                   rs == Append(job.rows, e)
        <3>1. job' = [job EXCEPT !.rows = rs, !.status = st, !.pop = e, !.child = 0]
            BY Zenon, <1>1, <2>4 DEF JobType
        <3>2. /\ st \in [Events -> {"absent", "waiting", "draining", "done"}]
              /\ rs \in Seq(Events)
            BY <1>1, <2>5 DEF JobType
        <3> HIDE DEF st, rs
        <3>3. job' \in JobType
            BY ZenonT(30), <1>1, <2>5, <3>1, <3>2 DEF JobType
        <3>4. /\ job'.phase = "RUN" /\ job'.rows = rs /\ job'.pop = e /\ job'.child = 0
              /\ job'.source = job.source /\ job'.base = job.base
              /\ job'.status = st /\ job'.degree = job.degree
            BY Zenon, <1>1, <3>1 DEF JobType
        <3>5. QED
            BY Zenon, <3>3, <3>4 DEF st, rs
    <2>7. LogInv' /\ LiveInv' /\ Base' = Base
        BY Zenon, <1>1, <2>6, EngineFrame DEF Live
    <2>8. Len(job'.rows) = Len(job.rows) + 1 /\ First(job'.rows, Len(job'.rows)) = R \cup {e}
        BY <1>1, <2>5, <2>6, FirstAll
    <2>9. Distinct(job'.rows, Len(job'.rows))
        BY <1>1, <1>4, <2>5, <2>6, <2>8, DistinctExtend
    <2>10. Greedy(job'.rows, Len(job'.rows), Base)
        <3>1. \A f \in Base \ R : Parents[f] \subseteq R => Priority[e] <= Priority[f]
            BY Zenon, <2>1, <2>3
        <3>2. QED
            BY <1>1, <1>4, <2>5, <2>6, <2>8, <3>1, GreedyExtend
    <2>11. \A f \in Events : job'.status[f] = "waiting" <=> f \in Base \ (R \cup {e})
        BY Zenon, <1>1, <2>5, <2>6 DEF OrderInv, RunInv, JobType
    <2>12. \A k \in 1..job.base : log[k] \notin R \cup {e} =>
                job.degree[log[k]] = Cardinality(Remaining(k)')
        <3>1. SUFFICES ASSUME NEW k \in 1..job.base, log[k] \notin R \cup {e}
                       PROVE  job.degree[log[k]] = Cardinality(Remaining(k)')
            BY Zenon
        <3>2. job.degree[log[k]] = Cardinality(Remaining(k))
            BY Zenon, <3>1 DEF OrderInv, RunInv
        <3>3. None \notin R
            BY <1>1, OrderAssumption DEF First
        <3>4. Remaining(k) = Parents[log[k]] \ R
            BY Zenon, <3>3 DEF Remaining
        <3>5. Remaining(k)' = Parents[log[k]] \ R
            BY <1>1, <2>5, <2>6, <2>8 DEF Remaining
        <3>6. QED
            BY Zenon, <3>2, <3>4, <3>5
    <2>13. RunInv'
        BY Zenon, <1>1, <1>4, <2>5, <2>6, <2>7, <2>8, <2>9, <2>10, <2>11, <2>12 DEF RunInv
    <2>14. QED
        BY Zenon, <1>1, <1>2, <1>3, <2>6, <2>7, <2>13
        DEF OrderInv, TypeInv, SeedInv, TailInv, CurrentInv
<1>8. QED
    BY Zenon, <1>5, <1>6, <1>7

\* RUN with an event to drain: the degree of its next child goes down by one.
LEMMA DrainStep ==
    ASSUME OrderInv, commit_order(advance(job)), job.phase = "RUN", job.pop # None
    PROVE  OrderInv'
<1> DEFINE R == First(job.rows, Len(job.rows))
<1>1. /\ log \in Seq(Events) /\ Len(log) \in Nat /\ job \in JobType
      /\ log' = log /\ Live
      /\ job.base \in Nat /\ job.base <= Len(log) /\ job.child \in Nat /\ job.pop \in Events
      /\ job.rows \in Seq(Events) /\ Len(job.rows) \in Nat
    BY DEF OrderInv, TypeInv, JobType, commit_order, Live, LiveInv
<1>2. job' = drain(job) /\ (job'.phase # "READY" => current' = current)
    BY Zenon DEF commit_order, advance
<1>3. current = Unpublished /\ Unpublished \in [job : Nat, source : Nat]
    BY Zenon DEF OrderInv, CurrentInv, Unpublished
<1>4. /\ R \subseteq Base /\ job.pop \in R
      /\ Distinct(job.rows, Len(job.rows))
      /\ Greedy(job.rows, Len(job.rows), Base)
      /\ \A e \in Events : job.status[e] = "waiting" <=> e \in Base \ R
      /\ \A k \in 1..job.base : log[k] \notin R => job.degree[log[k]] = Cardinality(Remaining(k))
    BY Zenon DEF OrderInv, RunInv
<1>5. CASE Undrained(job) = {}
    <2>1. job' = [job EXCEPT !.status[job.pop] = "done", !.pop = None, !.child = 0]
        BY Zenon, <1>2, <1>5 DEF drain
    <2>2. /\ job' \in JobType
          /\ job'.phase = "RUN" /\ job'.rows = job.rows /\ job'.pop = None
          /\ job'.source = job.source /\ job'.base = job.base
          /\ job'.status = [job.status EXCEPT ![job.pop] = "done"]
          /\ job'.degree = job.degree
        <3> DEFINE st == [job.status EXCEPT ![job.pop] = "done"]
        <3>1. job' = [job EXCEPT !.status = st, !.pop = None, !.child = 0]
            BY Zenon, <1>1, <2>1 DEF JobType
        <3>2. st \in [Events -> {"absent", "waiting", "draining", "done"}]
            BY Zenon, <1>1 DEF JobType
        <3> HIDE DEF st
        <3>3. job' \in JobType
            BY ZenonT(30), <1>1, <3>1, <3>2 DEF JobType
        <3>4. /\ job'.phase = "RUN" /\ job'.rows = job.rows /\ job'.pop = None
              /\ job'.source = job.source /\ job'.base = job.base
              /\ job'.status = st /\ job'.degree = job.degree
            BY Zenon, <1>1, <3>1 DEF JobType
        <3>5. QED
            BY Zenon, <3>3, <3>4 DEF st
    <2>3. LogInv' /\ LiveInv' /\ Base' = Base
        BY Zenon, <1>1, <2>2, EngineFrame DEF Live
    <2>4. \A e \in Events : job'.status[e] = "waiting" <=> e \in Base \ R
        BY <1>1, <1>4, <2>2 DEF JobType
    <2>5. \A k \in 1..job.base : Remaining(k)' = Remaining(k)
        <3>1. SUFFICES ASSUME NEW k \in 1..job.base PROVE Remaining(k)' = Remaining(k)
            BY Zenon
        <3>2. k <= job.child \/ job.pop \notin Parents[log[k]]
            BY <1>1, <1>5, <3>1 DEF Undrained
        <3>3. None \notin R
            BY SMTT(30), <1>1, OrderAssumption DEF First
        <3>4. Remaining(k)' = Parents[log[k]] \ R
            BY Zenon, <1>1, <2>2, <3>3 DEF Remaining
        <3>5. Remaining(k) = Parents[log[k]] \ R
            BY Zenon, <3>2 DEF Remaining
        <3>6. QED
            BY Zenon, <3>4, <3>5
    <2>6. RunInv'
        BY <1>1, <1>4, <2>2, <2>3, <2>4, <2>5 DEF RunInv
    <2>7. QED
        BY Zenon, <1>1, <1>2, <1>3, <2>2, <2>3, <2>6
        DEF OrderInv, TypeInv, SeedInv, TailInv, CurrentInv
<1>6. CASE Undrained(job) # {}
    <2>1. Undrained(job) \subseteq Nat
        BY <1>1 DEF Undrained
    <2>2. PICK k \in Undrained(job) :
            /\ \A l \in Undrained(job) : k <= l
            /\ job' = IF job.status[log[k]] = "waiting" /\ job.degree[log[k]] > 0
                      THEN [job EXCEPT !.degree[log[k]] = job.degree[log[k]] - 1, !.child = k]
                      ELSE job
        <3> DEFINE n == CHOOSE x \in Undrained(job) : \A l \in Undrained(job) : x <= l
        <3>1. n \in Undrained(job) /\ \A l \in Undrained(job) : n <= l
            BY Zenon, <1>6, <2>1, LeastNat
        <3>2. job' = IF job.status[log[n]] = "waiting" /\ job.degree[log[n]] > 0
                     THEN [job EXCEPT !.degree[log[n]] = job.degree[log[n]] - 1, !.child = n]
                     ELSE job
            BY Zenon, <1>2, <1>6 DEF drain
        <3> HIDE DEF n
        <3>3. QED
            BY ZenonT(30), <3>1, <3>2
    <2> DEFINE c == log[k]
    <2>3. job' = IF job.status[c] = "waiting" /\ job.degree[c] > 0
                 THEN [job EXCEPT !.degree[c] = job.degree[c] - 1, !.child = k]
                 ELSE job
        BY Zenon, <2>2
    <2>4. /\ k \in Nat /\ k \in 1..job.base /\ k > job.child /\ job.pop \in Parents[c]
          /\ \A l \in 1..job.base : l > job.child /\ l < k => job.pop \notin Parents[log[l]]
        BY <1>1, <2>1, <2>2 DEF Undrained
    <2>5. c \in Events
        BY <1>1, <2>4
    <2> HIDE DEF c
    <2>6. CASE ~(job.status[c] = "waiting" /\ job.degree[c] > 0)
        <3>1. job' = job /\ current' = current
            BY Zenon, <1>2, <2>3, <2>6
        <3>2. QED
            BY Zenon, <1>1, <3>1, StutterInv
    <2>7. CASE job.status[c] = "waiting" /\ job.degree[c] > 0
        <3>1. /\ job' \in JobType
              /\ job'.phase = "RUN" /\ job'.rows = job.rows /\ job'.pop = job.pop
              /\ job'.child = k
              /\ job'.source = job.source /\ job'.base = job.base
              /\ job'.status = job.status
              /\ job'.degree = [job.degree EXCEPT ![c] = job.degree[c] - 1]
            <4> DEFINE dg == [job.degree EXCEPT ![c] = job.degree[c] - 1]
            <4>1. job' = [job EXCEPT !.degree = dg, !.child = k]
                BY Zenon, <1>1, <2>3, <2>7 DEF JobType
            <4>2. dg \in [Events -> Nat]
                BY <1>1, <2>5, <2>7 DEF JobType
            <4> HIDE DEF dg
            <4>3. job' \in JobType
                BY ZenonT(30), <1>1, <2>4, <4>1, <4>2 DEF JobType
            <4>4. /\ job'.phase = "RUN" /\ job'.rows = job.rows /\ job'.pop = job.pop
                  /\ job'.child = k
                  /\ job'.source = job.source /\ job'.base = job.base
                  /\ job'.status = job.status /\ job'.degree = dg
                BY Zenon, <1>1, <4>1 DEF JobType
            <4>5. QED
                BY Zenon, <4>3, <4>4 DEF dg
        <3>2. LogInv' /\ LiveInv' /\ Base' = Base
            BY Zenon, <1>1, <3>1, EngineFrame DEF Live
        <3>3. c \notin R
            BY Zenon, <1>4, <2>5, <2>7
        <3>4. \A l \in 1..job.base : log[l] = c => l = k
            BY <1>1, <2>4 DEF OrderInv, LogInv, Distinct, c
        <3>5. ASSUME NEW l \in 1..job.base, log[l] \notin R
              PROVE  job'.degree[log[l]] = Cardinality(Remaining(l)')
            <4>1. job.degree[log[l]] = Cardinality(Remaining(l)) /\ log[l] \in Events
                BY <1>1, <1>4, <3>5
            <4>2. CASE l = k
                <5>1. Remaining(k) = (Parents[c] \ R) \cup {job.pop}
                    BY <1>1, <1>4, <2>4 DEF Remaining, c
                <5>2. Remaining(k)' = Parents[c] \ R
                    BY <1>1, <2>4, <3>1 DEF Remaining, c
                <5>3. Remaining(k)' = Remaining(k) \ {job.pop} /\ job.pop \in Remaining(k)
                    BY Zenon, <1>4, <5>1, <5>2
                <5>4. IsFiniteSet(Parents[c]) /\ Remaining(k) \in SUBSET Parents[c]
                    BY Zenon, <2>5, OrderAssumption DEF Remaining, c
                <5>5. IsFiniteSet(Remaining(k))
                    BY Zenon, <5>4, FS_Subset
                <5>6. Cardinality(Remaining(k)') = Cardinality(Remaining(k)) - 1
                    BY ZenonT(30), <5>3, <5>5, FS_RemoveElement
                <5>7. job'.degree[c] = job.degree[c] - 1
                    BY Zenon, <1>1, <2>5, <3>1 DEF JobType
                <5>8. QED
                    BY Zenon, <4>1, <4>2, <5>6, <5>7 DEF c
            <4>3. CASE l # k
                <5>1. job'.degree[log[l]] = job.degree[log[l]]
                    BY ZenonT(30), <1>1, <2>5, <3>1, <3>4, <4>1, <4>3 DEF JobType
                <5>2. CASE l <= job.child
                    <6>1. l <= k
                        BY <1>1, <2>4, <5>2
                    <6>2. Remaining(l)' = Remaining(l)
                        BY Zenon, <1>1, <3>1, <5>2, <6>1 DEF Remaining
                    <6>3. QED
                        BY Zenon, <4>1, <5>1, <6>2
                <5>3. CASE l > job.child /\ l < k
                    <6>1. Remaining(l) = Parents[log[l]] \ R
                        BY Zenon, <2>4, <5>3 DEF Remaining
                    <6>2. Remaining(l)' = Parents[log[l]] \ R
                        BY <1>1, <2>4, <3>1, <5>3 DEF Remaining
                    <6>3. QED
                        BY Zenon, <4>1, <5>1, <6>1, <6>2
                <5>4. CASE l > k
                    <6>1. ~(l <= k) /\ ~(l <= job.child)
                        BY <1>1, <2>4, <5>4
                    <6>2. Remaining(l)' = Remaining(l)
                        BY Zenon, <1>1, <3>1, <6>1 DEF Remaining
                    <6>3. QED
                        BY Zenon, <4>1, <5>1, <6>2
                <5>5. QED
                    BY <1>1, <2>4, <4>3, <5>2, <5>3, <5>4
            <4>4. QED
                BY Zenon, <4>2, <4>3
        <3>6. RunInv'
            BY Zenon, <1>1, <1>4, <3>1, <3>2, <3>5 DEF RunInv
        <3>7. QED
            BY Zenon, <1>1, <1>2, <1>3, <3>1, <3>2, <3>6
            DEF OrderInv, TypeInv, SeedInv, TailInv, CurrentInv
    <2>8. QED
        BY Zenon, <2>6, <2>7
<1>7. QED
    BY Zenon, <1>5, <1>6

\* TAIL: the events past the base follow in commit order, and the job is published.
LEMMA TailStep ==
    ASSUME OrderInv, commit_order(advance(job)), job.phase = "TAIL"
    PROVE  OrderInv'
<1>1. /\ log \in Seq(Events) /\ Len(log) \in Nat /\ job \in JobType
      /\ log' = log /\ Live /\ job.source = Len(log)
      /\ job.base \in Nat /\ job.base <= Len(log)
      /\ job.rows \in Seq(Events) /\ Len(job.rows) \in Nat
    BY DEF OrderInv, TypeInv, JobType, commit_order, Live, LiveInv
<1>2. /\ job' = tail(job)
      /\ current' = IF job'.phase = "READY"
                    THEN [job |-> job'.id, source |-> job'.source] ELSE current
    BY Zenon DEF commit_order, advance
<1>3. current = Unpublished /\ Unpublished \in [job : Nat, source : Nat]
    BY Zenon DEF OrderInv, CurrentInv, Unpublished
<1>4. TailInv
    BY Zenon DEF OrderInv
<1>5. CASE Len(job.rows) < job.source
    <2> DEFINE e == log[Len(job.rows) + 1]
    <2>1. e \in Events
        BY <1>1, <1>5
    <2>2. job' = [job EXCEPT !.rows = Append(job.rows, e)]
        BY Zenon, <1>2, <1>5 DEF tail
    <2>3. /\ job' \in JobType
          /\ job'.phase = "TAIL" /\ job'.rows = Append(job.rows, e)
          /\ job'.source = job.source /\ job'.base = job.base
        <3> DEFINE rs == Append(job.rows, e)
        <3>1. rs \in Seq(Events) /\ job' = [job EXCEPT !.rows = rs]
            BY <1>1, <2>1, <2>2
        <3> HIDE DEF rs
        <3>2. job' \in JobType
            BY ZenonT(30), <1>1, <3>1 DEF JobType
        <3>3. /\ job'.phase = "TAIL" /\ job'.rows = rs
              /\ job'.source = job.source /\ job'.base = job.base
            BY Zenon, <1>1, <3>1 DEF JobType
        <3>4. QED
            BY Zenon, <3>2, <3>3 DEF rs
    <2>4. LogInv' /\ LiveInv' /\ Base' = Base
        BY Zenon, <1>1, <2>3, EngineFrame DEF Live
    <2>5. /\ First(job'.rows, job.base) = First(job.rows, job.base)
          /\ Distinct(job'.rows, job.base)
          /\ Greedy(job'.rows, job.base, Base)
        BY <1>1, <1>4, <2>1, <2>3, FirstAppend, DistinctAppend, GreedyAppend DEF TailInv
    <2>6. /\ Len(job'.rows) = Len(job.rows) + 1
          /\ \A i \in 1..Len(job'.rows) : i > job.base => job'.rows[i] = log[i]
        BY <1>1, <1>4, <2>1, <2>3 DEF TailInv
    <2>7. TailInv'
        BY SMTT(30), <1>1, <1>4, <1>5, <2>3, <2>4, <2>5, <2>6 DEF TailInv
    <2>8. QED
        BY Zenon, <1>1, <1>2, <1>3, <2>3, <2>4, <2>7
        DEF OrderInv, TypeInv, SeedInv, RunInv, CurrentInv
<1>6. CASE ~(Len(job.rows) < job.source)
    <2>1. job' = [job EXCEPT !.phase = "READY"]
        BY Zenon, <1>2, <1>6 DEF tail
    <2>2. /\ job' \in JobType
          /\ job'.phase = "READY" /\ job'.rows = job.rows /\ job'.id = job.id /\ job.id \in Nat
          /\ job'.source = job.source /\ job'.base = job.base
        BY ZenonT(30), <1>1, <2>1 DEF JobType, Phases
    <2>3. LogInv' /\ LiveInv' /\ Base' = Base
        BY Zenon, <1>1, <2>2, EngineFrame DEF Live
    <2>4. TailInv'
        BY <1>1, <1>4, <1>6, <2>2, <2>3 DEF TailInv
    <2>5. CurrentInv' /\ current' \in [job : Nat, source : Nat]
        BY Zenon, <1>1, <1>2, <2>2 DEF CurrentInv
    <2>6. QED
        BY Zenon, <1>1, <2>2, <2>3, <2>4, <2>5 DEF OrderInv, TypeInv, SeedInv, RunInv
<1>7. QED
    BY Zenon, <1>5, <1>6

-----------------------------------------------------------------------------

\* The canonical order of the base, continued by the rest of the log, is the
\* canonical order of the log.
LEMMA ReadyIsCanonical ==
    ASSUME OrderInv, job.phase = "READY"
    PROVE  IsCanonical(job.rows, Range(log))
<1>1. /\ log \in Seq(Events) /\ Len(log) \in Nat
      /\ job.rows \in Seq(Events) /\ Len(job.rows) = Len(log)
      /\ job.base \in Nat /\ job.base <= Len(log)
    BY Zenon DEF OrderInv, TypeInv, JobType, TailInv, Live, LiveInv
<1>2. /\ First(job.rows, job.base) = Base /\ Distinct(job.rows, job.base)
      /\ Greedy(job.rows, job.base, Base)
      /\ \A i \in 1..Len(log) : i > job.base => job.rows[i] = log[i]
    BY Zenon, <1>1 DEF OrderInv, TailInv
<1>3. /\ Distinct(log, Len(log))
      /\ \A k \in 1..Len(log) : Parents[log[k]] \subseteq First(log, k - 1)
    BY Zenon DEF OrderInv, LogInv
<1>4. \A k \in 1..Len(log) : k > job.base =>
        \A i \in 1..k - 1 : Priority[log[i]] < Priority[log[k]]
    BY Zenon DEF OrderInv, LiveInv, Live
<1>5. \A n \in job.base..Len(log) : First(job.rows, n) = First(log, n)
    <2>1. SUFFICES ASSUME NEW n \in job.base..Len(log)
                   PROVE  First(job.rows, n) = First(log, n)
        BY Zenon
    <2>2. \A s : First(s, n) = First(s, job.base) \cup {s[i] : i \in job.base + 1..n}
        BY <1>1 DEF First
    <2>3. {job.rows[i] : i \in job.base + 1..n} = {log[i] : i \in job.base + 1..n}
        BY <1>1, <1>2
    <2>4. QED
        BY ZenonT(30), <1>2, <2>2, <2>3 DEF Base
<1>6. Range(job.rows) = Range(log)
    <2>1. Range(job.rows) = First(job.rows, Len(log)) /\ Range(log) = First(log, Len(log))
        BY <1>1 DEF Range, First
    <2>2. QED
        BY <1>1, <1>5, <2>1
<1>7. IsInjective(job.rows)
    <2>1. SUFFICES ASSUME NEW i \in 1..Len(log), NEW k \in 1..Len(log), i < k,
                          job.rows[i] = job.rows[k]
                   PROVE  FALSE
        BY <1>1 DEF IsInjective
    <2>2. CASE k <= job.base
        BY <1>1, <1>2, <2>1, <2>2 DEF Distinct
    <2>3. CASE k > job.base
        <3>1. job.rows[k] = log[k]
            BY Zenon, <1>2, <2>3
        <3>2. job.rows[i] \in First(log, k - 1)
            <4>1. k - 1 \in job.base..Len(log)
                BY <1>1, <2>3
            <4>2. job.rows[i] \in First(job.rows, k - 1)
                BY <2>1 DEF First
            <4>3. QED
                BY Zenon, <1>5, <4>1, <4>2
        <3>3. PICK m \in 1..k - 1 : log[m] = log[k]
            BY Zenon, <2>1, <3>1, <3>2 DEF First
        <3>4. QED
            BY <1>1, <1>3, <3>3 DEF Distinct
    <2>4. QED
        BY <1>1, <2>2, <2>3
<1>8. ASSUME NEW i \in 1..Len(log)
      PROVE  /\ Parents[job.rows[i]] \subseteq Before(job.rows, i)
             /\ \A e \in Range(log) \ Before(job.rows, i) :
                    Parents[e] \subseteq Before(job.rows, i) =>
                        Priority[job.rows[i]] <= Priority[e]
    <2>1. Before(job.rows, i) = First(job.rows, i - 1)
        BY Zenon DEF Before, First
    <2>2. CASE i <= job.base
        <3>1. Parents[job.rows[i]] \subseteq First(job.rows, i - 1)
            BY <1>1, <1>2, <2>2 DEF Greedy
        <3>2. ASSUME NEW k \in 1..Len(log), log[k] \notin First(job.rows, i - 1),
                     Parents[log[k]] \subseteq First(job.rows, i - 1)
              PROVE  Priority[job.rows[i]] <= Priority[log[k]]
            <4>1. CASE k <= job.base
                <5>1. log[k] \in Base
                    BY <1>1, <4>1 DEF Base, First
                <5>2. QED
                    BY <1>1, <1>2, <2>2, <3>2, <5>1 DEF Greedy
            <4>2. CASE k > job.base
                <5>1. job.rows[i] \in Base
                    BY <1>1, <1>2, <2>2 DEF First
                <5>2. PICK m \in 1..job.base : job.rows[i] = log[m]
                    BY Zenon, <5>1 DEF Base, First
                <5>3. Priority[log[m]] < Priority[log[k]]
                    BY <1>1, <1>4, <4>2
                <5>4. log[m] \in Events /\ log[k] \in Events
                    BY <1>1
                <5>5. QED
                    BY <5>2, <5>3, <5>4, OrderAssumption
            <4>3. QED
                BY <1>1, <4>1, <4>2
        <3>3. QED
            BY <1>1, <2>1, <3>1, <3>2 DEF Range
    <2>3. CASE i > job.base
        <3>1. i - 1 \in job.base..Len(log) /\ job.rows[i] = log[i]
            BY <1>1, <1>2, <2>3
        <3>2. First(job.rows, i - 1) = First(log, i - 1)
            BY Zenon, <1>5, <3>1
        <3>3. ASSUME NEW k \in 1..Len(log), log[k] \notin First(log, i - 1)
              PROVE  Priority[log[i]] <= Priority[log[k]]
            <4>1. ~(k < i)
                BY <1>1, <3>3 DEF First
            <4>2. CASE k = i
                BY <1>1, <4>2, OrderAssumption
            <4>3. CASE k > i
                <5>1. Priority[log[i]] < Priority[log[k]]
                    BY <1>1, <1>4, <2>3, <4>3
                <5>2. log[i] \in Events /\ log[k] \in Events
                    BY <1>1
                <5>3. QED
                    BY <5>1, <5>2, OrderAssumption
            <4>4. QED
                BY <1>1, <4>1, <4>2, <4>3
        <3>4. QED
            BY <1>1, <1>3, <2>1, <3>1, <3>2, <3>3 DEF Range
    <2>4. QED
        BY <1>1, <2>2, <2>3
<1>9. QED
    BY Zenon, <1>1, <1>6, <1>7, <1>8 DEF IsCanonical

\* OrderInv is inductive: one lemma above for each kind of step.
LEMMA OrderStep ==
    ASSUME OrderInv, [OrderNext]_orderVars
    PROVE  OrderInv'
<1>1. CASE \E e \in Events : append_with_gate(e)
    BY Zenon, <1>1, AppendOrderInv
<1>2. CASE commit_order(advance(job))
    <2>1. job.phase \in Phases \ {"READY"}
        BY Zenon, <1>2 DEF OrderInv, TypeInv, JobType, commit_order
    <2>2. QED
        BY Zenon, <1>2, <2>1, RestartInv, SeedStep, RankStep, DrainStep, TailStep DEF Phases
<1>3. CASE UNCHANGED orderVars
    BY Zenon, <1>3, StutterInv DEF orderVars
<1>4. QED
    BY Zenon, <1>1, <1>2, <1>3 DEF OrderNext

LEMMA OrderInvariance == OrderSpec => []OrderInv
<1>1. OrderInit => OrderInv
    BY Zenon, InitInv
<1>2. OrderInv /\ [OrderNext]_orderVars => OrderInv'
    BY Zenon, OrderStep
<1>3. QED
    BY <1>1, <1>2, PTL DEF OrderSpec

(* The published order of a conversation is the canonical order of exactly    *)
(* the events retained, for any events, parents and priorities, however       *)
(* appends fall between the iterations of order_step (order_appended,         *)
(* order_step_on).                                                            *)
THEOREM PublishedIsCanonical == OrderSpec => []PublishedCanonical
<1>1. OrderInv => PublishedCanonical
    <2>1. SUFFICES ASSUME OrderInv, current # Unpublished
                   PROVE  /\ current = [job |-> job.id, source |-> revision]
                          /\ job.phase = "READY"
                          /\ IsCanonical(job.rows, Range(log))
        BY Zenon DEF PublishedCanonical
    <2>2. job.phase = "READY" /\ current = [job |-> job.id, source |-> Len(log)]
        BY Zenon, <2>1 DEF OrderInv, CurrentInv
    <2>3. QED
        BY Zenon, <2>1, <2>2, ReadyIsCanonical DEF revision
<1>2. QED
    BY <1>1, OrderInvariance, PTL

-----------------------------------------------------------------------------

\* The status of a vertex follows the phase of the job, and only the event
\* ranked last is being drained.
StatusInv ==
    /\ job.phase = "SEED" => \A e \in Events : job.status[e] \in {"absent", "waiting"}
    /\ job.phase = "RUN" =>
        /\ \A e \in Events : job.status[e] = "draining" => e = job.pop
        /\ job.pop # None => Len(job.rows) > 0 /\ job.pop = job.rows[Len(job.rows)]
    /\ job.phase = "TAIL" => \A e \in Events : job.status[e] \in {"absent", "done"}

\* What each kind of step does to the status of the vertices.
LEMMA StatusStep ==
    ASSUME OrderInv, StatusInv, [OrderNext]_orderVars
    PROVE  StatusInv'
<1>1. job \in JobType /\ job.rows \in Seq(Events) /\ Len(job.rows) \in Nat
    BY DEF OrderInv, TypeInv, JobType
<1>2. ASSUME NEW e \in Events, append_with_gate(e) PROVE StatusInv'
    <2>1. CASE append_unordered
        BY Zenon, <2>1 DEF append_unordered, StatusInv
    <2>2. CASE append_unsafe(e)
        <3>1. job'.phase = "OBSOLETE"
            BY Zenon, <1>1, <2>2 DEF append_unsafe, JobType
        <3>2. QED
            BY Zenon, <3>1 DEF StatusInv
    <2>3. CASE append_safe(e)
        <3>1. /\ job'.phase = job.phase /\ job'.status = job.status /\ job'.pop = job.pop
              /\ job.phase # "READY" => job'.rows = job.rows
            BY Zenon, <1>1, <2>3 DEF append_safe, JobType
        <3>2. QED
            BY Zenon, <3>1 DEF StatusInv
    <2>4. QED
        BY Zenon, <1>2, <2>1, <2>2, <2>3 DEF append_with_gate
<1>3. ASSUME commit_order(advance(job)) PROVE StatusInv'
    <2>1. job' = advance(job) /\ job.phase \in Phases \ {"READY"}
        BY Zenon, <1>1, <1>3 DEF commit_order, JobType
    <2>2. CASE job.phase \in {"NONE", "OBSOLETE"}
        <3>1. job' = NewJob(job.id + 1, revision)
            BY Zenon, <2>1, <2>2 DEF advance
        <3>2. job'.status = [e \in Events |-> "absent"] /\ job'.phase \in {"NONE", "SEED"}
            BY Zenon, <3>1 DEF NewJob
        <3>3. QED
            BY Zenon, <3>2 DEF StatusInv
    <2>3. CASE job.phase = "SEED"
        <3>1. job' = seed(job)
            BY Zenon, <2>1, <2>3 DEF advance
        <3>2. job.pop = None
            BY Zenon, <2>3 DEF OrderInv, SeedInv
        <3>3. CASE job.seeded < job.base
            <4> DEFINE e == log[job.seeded + 1]
            <4>1. job' = [job EXCEPT !.seeded = job.seeded + 1, !.status[e] = "waiting",
                                     !.degree[e] = Cardinality(Parents[e])]
                BY Zenon, <3>1, <3>3 DEF seed
            <4> HIDE DEF e
            <4>2. job'.phase = "SEED" /\ job'.status = [job.status EXCEPT ![e] = "waiting"]
                BY Zenon, <1>1, <2>3, <4>1 DEF JobType
            <4>3. \A f \in Events : job'.status[f] \in {job.status[f], "waiting"}
                BY Zenon, <1>1, <4>2 DEF JobType
            <4>4. QED
                BY Zenon, <2>3, <4>2, <4>3 DEF StatusInv
        <3>4. CASE ~(job.seeded < job.base)
            <4>1. job'.phase = "RUN" /\ job'.status = job.status /\ job'.pop = job.pop
                BY Zenon, <1>1, <3>1, <3>4 DEF seed, JobType
            <4>2. QED
                BY Zenon, <2>3, <3>2, <4>1 DEF StatusInv
        <3>5. QED
            BY Zenon, <3>3, <3>4
    <2>4. CASE job.phase = "RUN" /\ job.pop = None
        <3>1. job' = rank(job)
            BY Zenon, <2>1, <2>4 DEF advance
        <3>2. CASE Len(job.rows) = job.base
            <4>1. job'.phase = "TAIL" /\ job'.status = job.status /\ job'.rows = job.rows
                BY Zenon, <1>1, <3>1, <3>2 DEF rank, JobType
            <4>2. First(job.rows, Len(job.rows)) = Base
                BY Zenon, <2>4, <3>2, FullRowsAreBase
            <4>3. \A e \in Events : job.status[e] \notin {"waiting", "draining"}
                BY Zenon, <2>4, <4>2, OrderAssumption DEF OrderInv, RunInv, StatusInv
            <4>4. QED
                BY Zenon, <1>1, <4>1, <4>3 DEF StatusInv, JobType
        <3>3. CASE Len(job.rows) # job.base /\ Ready(job) = {}
            BY Zenon, <2>4, <3>1, <3>3 DEF rank, StatusInv
        <3>4. CASE Len(job.rows) # job.base /\ Ready(job) # {}
            <4> DEFINE e == CHOOSE x \in Ready(job) : \A f \in Ready(job) : Priority[x] <= Priority[f]
            <4>1. e \in Events
                BY ZenonT(30), <3>4, LeastEvent DEF Ready
            <4>2. job' = [job EXCEPT !.rows = Append(job.rows, e), !.status[e] = "draining",
                                     !.pop = e, !.child = 0]
                BY Zenon, <3>1, <3>4 DEF rank
            <4> HIDE DEF e
            <4>3. /\ job'.phase = "RUN" /\ job'.pop = e
                  /\ job'.rows = Append(job.rows, e)
                  /\ job'.status = [job.status EXCEPT ![e] = "draining"]
                BY Zenon, <1>1, <2>4, <4>2 DEF JobType
            <4>4. Len(job'.rows) > 0 /\ job'.rows[Len(job'.rows)] = e
                BY <1>1, <4>1, <4>3
            <4>5. \A f \in Events : job'.status[f] = "draining" => f = e
                <5>1. \A f \in Events : job.status[f] # "draining"
                    BY Zenon, <2>4, OrderAssumption DEF StatusInv
                <5>2. QED
                    BY Zenon, <1>1, <4>3, <5>1 DEF JobType
            <4>6. QED
                BY Zenon, <4>3, <4>4, <4>5 DEF StatusInv
        <3>5. QED
            BY Zenon, <3>2, <3>3, <3>4
    <2>5. CASE job.phase = "RUN" /\ job.pop # None
        <3>1. job' = drain(job) /\ job.pop \in Events
            BY Zenon, <1>1, <2>1, <2>5 DEF advance, JobType
        <3>2. CASE Undrained(job) = {}
            <4>1. job' = [job EXCEPT !.status[job.pop] = "done", !.pop = None, !.child = 0]
                BY Zenon, <3>1, <3>2 DEF drain
            <4>2. /\ job'.phase = "RUN" /\ job'.pop = None
                  /\ job'.status = [job.status EXCEPT ![job.pop] = "done"]
                BY Zenon, <1>1, <2>5, <4>1 DEF JobType
            <4>3. \A f \in Events : job'.status[f] # "draining"
                BY Zenon, <1>1, <2>5, <3>1, <4>2 DEF StatusInv, JobType
            <4>4. QED
                BY Zenon, <4>2, <4>3 DEF StatusInv
        <3>3. CASE Undrained(job) # {}
            <4> DEFINE k == CHOOSE k \in Undrained(job) : \A l \in Undrained(job) : k <= l
            <4>1. \/ job' = [job EXCEPT !.degree[log[k]] = job.degree[log[k]] - 1, !.child = k]
                  \/ job' = job
                BY Zenon, <3>1, <3>3 DEF drain
            <4> HIDE DEF k
            <4>2. /\ job'.phase = "RUN" /\ job'.pop = job.pop /\ job'.rows = job.rows
                  /\ job'.status = job.status
                BY ZenonT(30), <1>1, <2>5, <4>1 DEF JobType
            <4>3. QED
                BY Zenon, <2>5, <4>2 DEF StatusInv
        <3>4. QED
            BY Zenon, <3>2, <3>3
    <2>6. CASE job.phase = "TAIL"
        <3>1. job' = tail(job)
            BY Zenon, <2>1, <2>6 DEF advance
        <3>2. job'.status = job.status /\ job'.phase \in {"TAIL", "READY"}
            BY Zenon, <1>1, <2>6, <3>1 DEF tail, JobType
        <3>3. QED
            BY Zenon, <2>6, <3>2 DEF StatusInv
    <2>7. QED
        BY Zenon, <2>1, <2>2, <2>3, <2>4, <2>5, <2>6 DEF Phases
<1>4. CASE UNCHANGED orderVars
    BY Zenon, <1>4 DEF orderVars, StatusInv
<1>5. QED
    BY Zenon, <1>2, <1>3, <1>4 DEF OrderNext


\* A base with vertices left has a ready one: the first of them in commit order,
\* whose parents are all ranked.
LEMMA SomeReady ==
    ASSUME OrderInv, job.phase = "RUN", job.pop = None, Len(job.rows) # job.base
    PROVE  Ready(job) # {}
<1> DEFINE R == First(job.rows, Len(job.rows))
           T == {k \in 1..job.base : log[k] \notin R}
<1>1. /\ log \in Seq(Events) /\ Len(log) \in Nat /\ job.base \in Nat /\ job.base <= Len(log)
    BY Zenon DEF OrderInv, TypeInv, JobType, Live, LiveInv
<1>2. R \subseteq Base /\ R # Base
    BY Zenon, FullRowsAreBase DEF OrderInv, RunInv
<1>3. T # {} /\ T \subseteq Nat
    <2>1. PICK e \in Base : e \notin R
        BY ZenonT(30), <1>2
    <2>2. PICK k \in 1..job.base : e = log[k]
        BY Zenon, <2>1 DEF Base, First
    <2>3. k \in T
        BY Zenon, <2>1, <2>2
    <2>4. QED
        BY <1>1, <2>3
<1>4. PICK k \in T : \A l \in T : k <= l
    BY ZenonT(30), <1>3, LeastNat
<1>5. Parents[log[k]] \subseteq First(log, k - 1)
    BY <1>1 DEF OrderInv, LogInv
<1>6. First(log, k - 1) \subseteq R
    BY <1>1, <1>4 DEF First
<1>7. log[k] \in Base \ R
    BY Zenon, <1>1 DEF Base, First
<1>8. QED
    BY Zenon, <1>5, <1>6, <1>7, ReadyIsRankable

\* A child of the event being drained is not ranked yet, and the edge between
\* them is still counted.
LEMMA ChildWaits ==
    ASSUME OrderInv, StatusInv, job.phase = "RUN", job.pop # None, NEW k \in Undrained(job)
    PROVE  job.status[log[k]] = "waiting" /\ job.degree[log[k]] > 0
<1> DEFINE R == First(job.rows, Len(job.rows))
<1>1. /\ log \in Seq(Events) /\ Len(log) \in Nat /\ job.base \in Nat /\ job.base <= Len(log)
      /\ job.child \in Nat /\ job.rows \in Seq(Events) /\ Len(job.rows) \in Nat
    BY DEF OrderInv, TypeInv, JobType, Live, LiveInv
<1>2. k \in 1..job.base /\ k > job.child /\ job.pop \in Parents[log[k]]
    BY <1>1 DEF Undrained
<1>3. log[k] \in Events /\ log[k] \in Base
    BY <1>1, <1>2 DEF Base, First
<1>4. Len(job.rows) > 0 /\ job.pop = job.rows[Len(job.rows)] /\ job.pop \in R
    BY Zenon DEF StatusInv, OrderInv, RunInv
<1>5. log[k] \notin R
    <2>1. SUFFICES ASSUME NEW i \in 1..Len(job.rows), log[k] = job.rows[i] PROVE FALSE
        BY Zenon DEF First
    <2>2. job.pop \in First(job.rows, i - 1)
        BY ZenonT(30), <1>2, <2>1 DEF OrderInv, RunInv, Greedy
    <2>3. PICK m \in 1..i - 1 : job.pop = job.rows[m]
        BY Zenon, <2>2 DEF First
    <2>4. m = Len(job.rows)
        <3>1. Distinct(job.rows, Len(job.rows))
            BY Zenon DEF OrderInv, RunInv
        <3>2. m \in 1..Len(job.rows) /\ Len(job.rows) \in 1..Len(job.rows)
            BY <1>1, <1>4, <2>1
        <3>3. job.rows[m] = job.rows[Len(job.rows)]
            BY Zenon, <1>4, <2>3
        <3>4. QED
            BY Zenon, <3>1, <3>2, <3>3 DEF Distinct
    <2>5. QED
        BY <1>1, <2>1, <2>3, <2>4
<1>6. job.status[log[k]] = "waiting"
    BY Zenon, <1>3, <1>5 DEF OrderInv, RunInv
<1>7. job.degree[log[k]] = Cardinality(Remaining(k))
    BY Zenon, <1>2, <1>5 DEF OrderInv, RunInv
<1>8. job.pop \in Remaining(k)
    BY <1>1, <1>2 DEF Remaining
<1>9. IsFiniteSet(Parents[log[k]]) /\ Remaining(k) \in SUBSET Parents[log[k]]
    BY Zenon, <1>3, OrderAssumption DEF Remaining
<1>10. Cardinality(Remaining(k)) \in Nat /\ Cardinality(Remaining(k)) # 0
    <2>1. IsFiniteSet(Remaining(k))
        BY Zenon, <1>9, FS_Subset
    <2>2. QED
        BY Zenon, <1>8, <2>1, FS_CardinalityType, FS_EmptySet
<1>11. QED
    BY <1>6, <1>7, <1>10

\* An iteration of order_step on a job that is not published changes it.
LEMMA EngineAdvances ==
    ASSUME OrderInv, StatusInv, job.phase \notin {"NONE", "READY"}
    PROVE  advance(job) # job
<1>1. /\ job \in JobType /\ job.rows \in Seq(Events) /\ Len(job.rows) \in Nat
      /\ log \in Seq(Events) /\ Len(log) \in Nat
    BY DEF OrderInv, TypeInv, JobType
<1>2. CASE job.phase = "OBSOLETE"
    <2>1. advance(job) = NewJob(job.id + 1, revision)
        BY Zenon, <1>2 DEF advance
    <2>2. advance(job).id = job.id + 1 /\ job.id \in Nat
        BY <1>1, <2>1 DEF NewJob, JobType
    <2>3. QED
        BY <2>2
<1>3. CASE job.phase = "SEED"
    <2>1. advance(job) = seed(job) /\ job.seeded \in Nat
        BY Zenon, <1>1, <1>3 DEF advance, JobType
    <2>2. CASE job.seeded < job.base
        <3>1. advance(job).seeded = job.seeded + 1
            BY Zenon, <1>1, <2>1, <2>2 DEF seed, JobType
        <3>2. QED
            BY <2>1, <3>1
    <2>3. CASE ~(job.seeded < job.base)
        <3>1. advance(job).phase = "RUN"
            BY Zenon, <1>1, <2>1, <2>3 DEF seed, JobType
        <3>2. QED
            BY Zenon, <1>3, <3>1
    <2>4. QED
        BY Zenon, <2>2, <2>3
<1>4. CASE job.phase = "RUN" /\ job.pop = None
    <2>1. advance(job) = rank(job)
        BY Zenon, <1>4 DEF advance
    <2>2. CASE Len(job.rows) = job.base
        <3>1. advance(job).phase = "TAIL"
            BY Zenon, <1>1, <2>1, <2>2 DEF rank, JobType
        <3>2. QED
            BY Zenon, <1>4, <3>1
    <2>3. CASE Len(job.rows) # job.base
        <3> DEFINE e == CHOOSE x \in Ready(job) : \A f \in Ready(job) : Priority[x] <= Priority[f]
        <3>1. Ready(job) # {}
            BY Zenon, <1>4, <2>3, SomeReady
        <3>2. e \in Events
            BY ZenonT(30), <3>1, LeastEvent DEF Ready
        <3>3. advance(job) = [job EXCEPT !.rows = Append(job.rows, e), !.status[e] = "draining",
                                         !.pop = e, !.child = 0]
            BY Zenon, <2>1, <2>3, <3>1 DEF rank
        <3> HIDE DEF e
        <3>4. advance(job).pop = e
            BY Zenon, <1>1, <3>3 DEF JobType
        <3>5. QED
            BY Zenon, <1>4, <3>2, <3>4, OrderAssumption
    <2>4. QED
        BY Zenon, <2>2, <2>3
<1>5. CASE job.phase = "RUN" /\ job.pop # None
    <2>1. advance(job) = drain(job)
        BY Zenon, <1>5 DEF advance
    <2>2. CASE Undrained(job) = {}
        <3>1. advance(job) = [job EXCEPT !.status[job.pop] = "done", !.pop = None, !.child = 0]
            BY Zenon, <2>1, <2>2 DEF drain
        <3>2. advance(job).pop = None
            BY Zenon, <1>1, <3>1 DEF JobType
        <3>3. QED
            BY Zenon, <1>5, <3>2
    <2>3. CASE Undrained(job) # {}
        <3> DEFINE n == CHOOSE x \in Undrained(job) : \A l \in Undrained(job) : x <= l
        <3>1. Undrained(job) \subseteq Nat /\ job.child \in Nat
            BY <1>1 DEF Undrained, JobType
        <3>2. n \in Undrained(job)
            BY Zenon, <2>3, <3>1, LeastNat
        <3>3. advance(job) = IF job.status[log[n]] = "waiting" /\ job.degree[log[n]] > 0
                             THEN [job EXCEPT !.degree[log[n]] = job.degree[log[n]] - 1, !.child = n]
                             ELSE job
            BY Zenon, <2>1, <2>3 DEF drain
        <3> HIDE DEF n
        <3>4. advance(job) = [job EXCEPT !.degree[log[n]] = job.degree[log[n]] - 1, !.child = n]
            BY Zenon, <1>5, <3>2, <3>3, ChildWaits
        <3>5. advance(job).child = n /\ n > job.child
            BY <1>1, <3>1, <3>2, <3>4 DEF JobType, Undrained
        <3>6. QED
            BY <3>1, <3>5
    <2>4. QED
        BY Zenon, <2>2, <2>3
<1>6. CASE job.phase = "TAIL"
    <2>1. advance(job) = tail(job)
        BY Zenon, <1>6 DEF advance
    <2>2. CASE Len(job.rows) < job.source
        <3> DEFINE e == log[Len(job.rows) + 1]
        <3>1. e \in Events
            BY <1>1, <1>6, <2>2 DEF OrderInv, LiveInv, Live
        <3>2. advance(job) = [job EXCEPT !.rows = Append(job.rows, e)]
            BY Zenon, <2>1, <2>2 DEF tail
        <3> HIDE DEF e
        <3>3. advance(job).rows = Append(job.rows, e)
            BY Zenon, <1>1, <3>2 DEF JobType
        <3>4. Len(Append(job.rows, e)) # Len(job.rows)
            BY <1>1, <3>1
        <3>5. QED
            BY Zenon, <3>3, <3>4
    <2>3. CASE ~(Len(job.rows) < job.source)
        <3>1. advance(job).phase = "READY"
            BY Zenon, <1>1, <2>1, <2>3 DEF tail, JobType
        <3>2. QED
            BY Zenon, <1>6, <3>1
    <2>4. QED
        BY Zenon, <2>2, <2>3
<1>7. QED
    BY Zenon, <1>1, <1>2, <1>3, <1>4, <1>5, <1>6 DEF JobType, Phases

(* No exit of order_step that reports a corrupt order is ever reached, and    *)
(* every iteration on an unpublished job changes it, for any events, parents  *)
(* and priorities: Kahn's algorithm does not get stuck, whatever was appended *)
(* while it ran (order_step_on).                                              *)
THEOREM EngineNeverCorrupt == OrderSpec => []OrderNeverCorrupt
<1>1. OrderInit => StatusInv
    BY DEF OrderInit, NewJob, StatusInv
<1>2. OrderInv /\ StatusInv /\ [OrderNext]_orderVars => StatusInv'
    BY Zenon, StatusStep
<1>3. OrderInv /\ StatusInv => OrderNeverCorrupt
    <2>1. SUFFICES ASSUME OrderInv, StatusInv PROVE OrderNeverCorrupt
        BY Zenon
    <2>2. job.phase \notin {"NONE", "OBSOLETE"} => job.source = revision
        BY Zenon, <2>1 DEF OrderInv, LiveInv, Live, revision
    <2>3. job.phase \notin {"NONE", "READY"} => advance(job) # job
        BY Zenon, <2>1, EngineAdvances
    <2>4. job.phase = "RUN" /\ job.pop # None =>
            \A k \in Undrained(job) : job.status[log[k]] = "waiting" /\ job.degree[log[k]] > 0
        BY Zenon, <2>1, ChildWaits
    <2>5. QED
        BY Zenon, <2>1, <2>2, <2>3, <2>4 DEF OrderNeverCorrupt, StatusInv
<1>4. QED
    BY <1>1, <1>2, <1>3, OrderInvariance, PTL DEF OrderSpec
=============================================================================
