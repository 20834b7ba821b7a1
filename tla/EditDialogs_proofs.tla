-------------------------- MODULE EditDialogs_proofs --------------------------
(***************************************************************************)
(* Proofs about EditDialogDetect and EditDialogs for every value of their  *)
(* constants.  In the Pokemon dialog two answers to "Auto detect" never    *)
(* race, and a lookup that was overtaken by an edit, or one nobody asked   *)
(* for, cannot disturb what is on screen.  In none of the four dialogs     *)
(* does an answer that an edit overtook touch anything, and in all four    *)
(* "Next" moves on from what is on screen, for any sets, names, numbers    *)
(* and listings and any number of edits.                                   *)
(***************************************************************************)
EXTENDS EditDialogs, TLAPS

(***************************************************************************)
(* The Pokemon dialog (EditDialogDetect).                                  *)
(***************************************************************************)

\* A job is a record with these fields, and nothing else.
Shaped(j) ==
    j = [stage |-> j.stage, kind |-> j.kind, epoch |-> j.epoch, set |-> j.set, name |-> j.name,
         number |-> j.number, late |-> j.late, found |-> j.found]

\* The epoch a job carries tells whether it was overtaken.
Stamped(j, e) ==
    /\ Shaped(j)
    /\ j.epoch \in Nat /\ j.epoch <= e
    /\ j.late \in BOOLEAN
    /\ j.late <=> j.epoch < e

JobsAreStamped == epoch \in Nat /\ \A j \in jobs : Stamped(j, epoch)

\* While the button is enabled nobody is looking anything up for a click.
EnabledMeansIdle == button => \A j \in jobs : ~ Manual(j)

IInv == JobsAreStamped /\ EnabledMeansIdle /\ OneDetectAtATime

-----------------------------------------------------------------------------
\* The jobs that the actions build are what they should be.

\* An overtaken job differs from the job in one field.
LEMMA OvertakenJob ==
    ASSUME NEW j, Shaped(j)
    PROVE  [j EXCEPT !.late = TRUE] =
             [stage |-> j.stage, kind |-> j.kind, epoch |-> j.epoch, set |-> j.set,
              name |-> j.name, number |-> j.number, late |-> TRUE, found |-> j.found]
<1> DEFINE A == {j.stage}  B == {j.kind}  C == {j.epoch}  D == {j.set}
           E == {j.name}  F == {j.number}  G == {j.late, TRUE}  H == {j.found}
           r == [j EXCEPT !.late = TRUE]
<1>1. j \in [stage : A, kind : B, epoch : C, set : D, name : E, number : F, late : G, found : H]
  BY DEF Shaped
<1>2. TRUE \in G
  OBVIOUS
<1> HIDE DEF A, B, C, D, E, F, G, H
<1>3. r \in [stage : A, kind : B, epoch : C, set : D, name : E, number : F, late : G, found : H]
  BY <1>1, <1>2
<1>4. /\ r.stage = j.stage /\ r.kind = j.kind /\ r.epoch = j.epoch /\ r.set = j.set
      /\ r.name = j.name /\ r.number = j.number /\ r.late = TRUE /\ r.found = j.found
  BY <1>1, <1>2
<1> HIDE DEF r
<1>5. Shaped(r)
  BY <1>3 DEF Shaped
<1> QED BY <1>4, <1>5 DEF r, Shaped

\* An answered job differs from the job in two.
LEMMA AnsweredJob ==
    ASSUME NEW j, Shaped(j), NEW f
    PROVE  [j EXCEPT !.stage = "answered", !.found = f] =
             [stage |-> "answered", kind |-> j.kind, epoch |-> j.epoch, set |-> j.set,
              name |-> j.name, number |-> j.number, late |-> j.late, found |-> f]
<1> DEFINE A == {j.stage, "answered"}  B == {j.kind}  C == {j.epoch}  D == {j.set}
           E == {j.name}  F == {j.number}  G == {j.late}  H == {j.found, f}
           r == [j EXCEPT !.stage = "answered", !.found = f]
<1>1. j \in [stage : A, kind : B, epoch : C, set : D, name : E, number : F, late : G, found : H]
  BY DEF Shaped
<1>2. "answered" \in A /\ f \in H
  OBVIOUS
<1> HIDE DEF A, B, C, D, E, F, G, H
<1>3. r \in [stage : A, kind : B, epoch : C, set : D, name : E, number : F, late : G, found : H]
  BY <1>1, <1>2
<1>4. /\ r.stage = "answered" /\ r.kind = j.kind /\ r.epoch = j.epoch /\ r.set = j.set
      /\ r.name = j.name /\ r.number = j.number /\ r.late = j.late /\ r.found = f
  BY <1>1, <1>2
<1> HIDE DEF r
<1>5. Shaped(r)
  BY <1>3 DEF Shaped
<1> QED BY <1>4, <1>5 DEF r, Shaped

\* An overtaken job knows that it was.
LEMMA OvertakenIsStamped ==
    ASSUME NEW e \in Nat, NEW j, Stamped(j, e)
    PROVE  /\ Stamped([j EXCEPT !.late = TRUE], e + 1)
           /\ [j EXCEPT !.late = TRUE].epoch = j.epoch
           /\ [j EXCEPT !.late = TRUE].kind = j.kind
           /\ [j EXCEPT !.late = TRUE].late
           /\ j.late => [j EXCEPT !.late = TRUE] = j
<1> DEFINE k == [stage |-> j.stage, kind |-> j.kind, epoch |-> j.epoch, set |-> j.set,
                 name |-> j.name, number |-> j.number, late |-> TRUE, found |-> j.found]
<1>1. [j EXCEPT !.late = TRUE] = k
  BY OvertakenJob DEF Stamped
<1>2. Shaped(k) /\ k.epoch = j.epoch /\ k.kind = j.kind /\ k.late
  BY DEF Shaped
<1>3. Stamped(k, e + 1)
  BY <1>2 DEF Stamped
<1>4. j.late => k = j
  <2> SUFFICES ASSUME j.late PROVE k = j
    OBVIOUS
  <2>1. j.late = TRUE
    BY DEF Stamped
  <2> QED BY <2>1 DEF Stamped, Shaped
<1> QED BY <1>1, <1>2, <1>3, <1>4

\* A prefetch that starts now was not overtaken, and is nobody's click.
LEMMA NewJobsAreStamped ==
    ASSUME NEW e \in Nat
    PROVE  Stamped(Prefetch(e), e) /\ ~ Manual(Prefetch(e))
BY DEF Stamped, Shaped, Prefetch, Manual

\* A lookup that starts now was not overtaken.
LEMMA JobIsStamped ==
    ASSUME epoch \in Nat, NEW k, NEW s, NEW n, NEW m
    PROVE  Stamped(Job(k, s, n, m), epoch) /\ Job(k, s, n, m).kind = k
BY DEF Stamped, Shaped, Job

\* An answer changes neither the age of a job nor its kind.
LEMMA AnsweredIsStamped ==
    ASSUME NEW e \in Nat, NEW j, Stamped(j, e), NEW f
    PROVE  /\ Stamped([j EXCEPT !.stage = "answered", !.found = f], e)
           /\ [j EXCEPT !.stage = "answered", !.found = f].kind = j.kind
<1> DEFINE k == [stage |-> "answered", kind |-> j.kind, epoch |-> j.epoch, set |-> j.set,
                 name |-> j.name, number |-> j.number, late |-> j.late, found |-> f]
<1>1. [j EXCEPT !.stage = "answered", !.found = f] = k
  BY AnsweredJob DEF Stamped
<1>2. Shaped(k) /\ k.epoch = j.epoch /\ k.kind = j.kind /\ k.late = j.late
  BY DEF Shaped
<1> QED BY <1>1, <1>2 DEF Stamped

-----------------------------------------------------------------------------
\* Every edit that clears the ring keeps the invariant: all jobs become late,
\* and what it schedules is a prefetch of the new epoch.
LEMMA ClearKeepsIInv ==
    ASSUME IInv, NEW scheduled, ClearCachedPrintVariants(scheduled),
           scheduled \subseteq {Prefetch(epoch + 1)}, UNCHANGED button
    PROVE  IInv'
<1>1. epoch \in Nat /\ epoch' = epoch + 1 /\ jobs' = Overtaken \cup scheduled
  BY DEF IInv, JobsAreStamped, ClearCachedPrintVariants
<1>2. \A j \in scheduled : Stamped(j, epoch') /\ ~ Manual(j)
  BY <1>1, NewJobsAreStamped
<1>3. \A j \in jobs : /\ Stamped([j EXCEPT !.late = TRUE], epoch')
                      /\ Manual([j EXCEPT !.late = TRUE]) <=> Manual(j)
  BY <1>1, OvertakenIsStamped DEF IInv, JobsAreStamped, Manual
<1>4. JobsAreStamped'
  BY <1>1, <1>2, <1>3 DEF JobsAreStamped, Overtaken
<1>5. EnabledMeansIdle'
  BY <1>1, <1>2, <1>3 DEF IInv, EnabledMeansIdle, Overtaken
<1>6. OneDetectAtATime'
  <2> SUFFICES ASSUME NEW j \in jobs', NEW k \in jobs', Manual(j), Manual(k)
               PROVE  j = k
    BY DEF OneDetectAtATime
  <2>1. PICK a \in jobs : j = [a EXCEPT !.late = TRUE]
    BY <1>1, <1>2 DEF Overtaken
  <2>2. PICK b \in jobs : k = [b EXCEPT !.late = TRUE]
    BY <1>1, <1>2 DEF Overtaken
  <2>3. a = b
    BY <1>3, <2>1, <2>2 DEF IInv, OneDetectAtATime
  <2> QED BY <2>1, <2>2, <2>3
<1> QED BY <1>4, <1>5, <1>6 DEF IInv

\* A step that leaves jobs, epoch and button alone keeps the invariant.
LEMMA StutterKeepsIInv ==
    ASSUME IInv, UNCHANGED <<epoch, button, jobs>>
    PROVE  IInv'
BY DEF IInv, JobsAreStamped, EnabledMeansIdle, OneDetectAtATime

\* The invariant, at first.
LEMMA InitImpliesIInv ==
    ASSUME Init
    PROVE  IInv
<1>1. epoch = 0 /\ \A j \in jobs : j = Prefetch(0)
  BY DEF Init, InitCreate, InitEdit
<1>2. \A j \in jobs : Stamped(j, epoch) /\ ~ Manual(j)
  BY <1>1, NewJobsAreStamped
<1> QED BY <1>1, <1>2 DEF IInv, JobsAreStamped, EnabledMeansIdle, OneDetectAtATime

-----------------------------------------------------------------------------
\* The invariant, for an edit.
LEMMA EditKeepsIInv ==
    ASSUME IInv, Edit
    PROVE  IInv'
<1>1. ASSUME NEW n \in Names \cup {Blank}, EditName(n)
      PROVE  IInv'
  BY <1>1, ClearKeepsIInv DEF EditName
<1>2. ASSUME NEW m \in Numbers \cup {NoNumber}, EditNumber(m)
      PROVE  IInv'
  BY <1>2, ClearKeepsIInv DEF EditNumber
<1>3. ASSUME NEW s \in SetsOf[record.region], SelectSet(s)
      PROVE  IInv'
  BY <1>3, ClearKeepsIInv DEF SelectSet
<1>4. ASSUME NEW s \in SetsOf[record.region], TypeSet(s)
      PROVE  IInv'
  BY <1>4, StutterKeepsIInv DEF TypeSet
<1>5. ASSUME NEW r \in Regions, SwitchRegion(r)
      PROVE  IInv'
  BY <1>5, ClearKeepsIInv DEF SwitchRegion
<1>6. ASSUME ReadControls \/ OnNextSetNo \/ Close
      PROVE  IInv'
  BY <1>6, StutterKeepsIInv DEF ReadControls, OnNextSetNo, Close
<1>7. ASSUME AutoDetect
      PROVE  IInv'
  <2>1. PICK k : jobs' = jobs \cup {Job(k, set, name, number)}
    BY <1>7 DEF AutoDetect
  <2>2. button /\ button' = FALSE /\ epoch' = epoch /\ epoch \in Nat
    BY <1>7 DEF AutoDetect, IInv, JobsAreStamped
  <2>3. JobsAreStamped'
    BY <2>1, <2>2, JobIsStamped DEF IInv, JobsAreStamped
  <2>4. EnabledMeansIdle'
    BY <2>2 DEF EnabledMeansIdle
  <2>5. OneDetectAtATime'
    BY <2>1, <2>2 DEF IInv, EnabledMeansIdle, OneDetectAtATime
  <2> QED BY <2>3, <2>4, <2>5 DEF IInv
<1> QED BY <1>1, <1>2, <1>3, <1>4, <1>5, <1>6, <1>7 DEF Edit

\* The invariant, for a step of a job.
LEMMA JobStepKeepsIInv ==
    ASSUME IInv, NEW j \in jobs, JobStep(j)
    PROVE  IInv'
<1>0. epoch \in Nat /\ Stamped(j, epoch)
  BY DEF IInv, JobsAreStamped
<1>1. CASE RunPrefetch(j)
  <2> DEFINE new == Job("silent", record.set, record.name, NoNumber)
  <2>1. jobs' \subseteq jobs \cup {new} /\ UNCHANGED <<epoch, button>>
    BY <1>1 DEF RunPrefetch
  <2>2. Stamped(new, epoch) /\ ~ Manual(new)
    BY <1>0, JobIsStamped DEF Manual
  <2> HIDE DEF new
  <2> QED BY <2>1, <2>2 DEF IInv, JobsAreStamped, EnabledMeansIdle, OneDetectAtATime
<1>2. CASE Lookup(j)
  <2>1. PICK f : jobs' = (jobs \ {j}) \cup {[j EXCEPT !.stage = "answered", !.found = f]}
    BY <1>2 DEF Lookup
  <2> DEFINE new == [j EXCEPT !.stage = "answered", !.found = f]
  <2>2. Stamped(new, epoch) /\ (Manual(new) <=> Manual(j))
    BY <1>0, AnsweredIsStamped DEF Manual
  <2>3. jobs' = (jobs \ {j}) \cup {new} /\ UNCHANGED <<epoch, button>>
    BY <1>2, <2>1 DEF Lookup
  <2> HIDE DEF new
  <2>4. JobsAreStamped' /\ EnabledMeansIdle'
    BY <2>2, <2>3 DEF IInv, JobsAreStamped, EnabledMeansIdle
  <2>5. OneDetectAtATime'
    BY <2>2, <2>3 DEF IInv, OneDetectAtATime
  <2> QED BY <2>4, <2>5 DEF IInv
<1>3. CASE RunAnswer(j)
  <2>1. jobs' = jobs \ {j} /\ epoch' = epoch
    BY <1>3 DEF RunAnswer
  <2>2. button' = button \/ (button' = (button \/ Manual(j)))
    BY <1>3 DEF RunAnswer, Enabled
  <2>3. JobsAreStamped' /\ OneDetectAtATime'
    BY <2>1 DEF IInv, JobsAreStamped, OneDetectAtATime
  <2>4. CASE Manual(j)
    <3>1. \A k \in jobs' : ~ Manual(k)
      BY <2>1, <2>4 DEF IInv, OneDetectAtATime
    <3> QED BY <2>3, <3>1 DEF IInv, EnabledMeansIdle
  <2>5. CASE ~ Manual(j)
    <3>1. button' => button
      BY <2>2, <2>5
    <3>2. EnabledMeansIdle'
      BY <2>1, <3>1 DEF IInv, EnabledMeansIdle
    <3> QED BY <2>3, <3>2 DEF IInv
  <2> QED BY <2>4, <2>5
<1> QED BY <1>1, <1>2, <1>3 DEF JobStep

\* The invariant, for every step.
LEMMA NextKeepsIInv ==
    ASSUME IInv, [Next]_vars
    PROVE  IInv'
<1>1. CASE Edit
  BY <1>1, EditKeepsIInv
<1>2. CASE \E j \in jobs : JobStep(j)
  BY <1>2, JobStepKeepsIInv
<1>3. CASE UNCHANGED vars
  BY <1>3, StutterKeepsIInv DEF vars
<1> QED BY <1>1, <1>2, <1>3 DEF Next

-----------------------------------------------------------------------------
\* The invariant the theorems rest on: a job is late exactly if its epoch is
\* over, and an enabled button means that no click is being answered.
THEOREM SpecImpliesIInv == Spec => []IInv
<1>1. Init => IInv
  BY InitImpliesIInv
<1>2. IInv /\ [Next]_vars => IInv'
  BY NextKeepsIInv
<1> QED BY <1>1, <1>2, PTL DEF Spec

\* Two answers to clicks on "Auto detect" never race for the controls.
THEOREM DetectsNeverRace == Spec => []OneDetectAtATime
<1>1. IInv => OneDetectAtATime
  BY DEF IInv
<1> QED BY <1>1, SpecImpliesIInv, PTL

-----------------------------------------------------------------------------
\* What the end of a job can change depends on whether it was overtaken.
LEMMA LateJobsChangeNothing ==
    ASSUME IInv, [Next]_vars, NEW j \in jobs, j \notin jobs', j.late \/ ~ alive
    PROVE  UNCHANGED <<name, number, selectedSetNo, ring, button>>
<1>0. epoch \in Nat /\ \A k \in jobs : Stamped(k, epoch)
  BY DEF IInv, JobsAreStamped
<1>1. ASSUME NEW scheduled, ClearCachedPrintVariants(scheduled), alive
      PROVE  FALSE
  <2>1. j.late /\ [j EXCEPT !.late = TRUE] = j
    BY <1>0, <1>1, OvertakenIsStamped
  <2>2. [j EXCEPT !.late = TRUE] \in jobs'
    BY <1>1 DEF ClearCachedPrintVariants, Overtaken
  <2> QED BY <2>1, <2>2
<1>2. CASE Edit
  BY <1>1, <1>2 DEF Edit, EditName, EditNumber, SelectSet, TypeSet, SwitchRegion, ReadControls,
                    OnNextSetNo, AutoDetect, Close
<1>3. CASE \E k \in jobs : RunPrefetch(k) \/ Lookup(k)
  BY <1>3 DEF RunPrefetch, Lookup, controls
<1>4. ASSUME NEW k \in jobs, RunAnswer(k)
      PROVE  UNCHANGED <<name, number, selectedSetNo, ring, button>>
  <2>1. k = j
    BY <1>4 DEF RunAnswer
  <2>2. ~ (alive /\ k.epoch = epoch)
    BY <1>0, <2>1 DEF Stamped
  <2> QED BY <1>4, <2>2 DEF RunAnswer
<1>5. CASE UNCHANGED vars
  BY <1>5 DEF vars
<1> QED BY <1>2, <1>3, <1>4, <1>5 DEF Next, JobStep

\* A lookup overtaken by an edit never touches the dialog, whenever its answer
\* comes, nor does any answer touch a closed dialog.
THEOREM LateAnswersAreDropped == Spec => LateAnswersChangeNothing
<1>1. IInv /\ [Next]_vars =>
        [\A j \in jobs : (j \notin jobs' /\ (j.late \/ ~ alive)) =>
            UNCHANGED <<name, number, selectedSetNo, ring, button>>]_vars
  BY LateJobsChangeNothing
<1> QED BY <1>1, SpecImpliesIInv, PTL DEF Spec, LateAnswersChangeNothing

-----------------------------------------------------------------------------
\* The end of a silent job leaves the name, and a number that is there.
LEMMA SilentJobsKeepWhatIsShown ==
    ASSUME IInv, [Next]_vars, jobs' \subseteq jobs,
           NEW j \in jobs \ jobs', j.kind = "silent"
    PROVE  name' = name /\ (number # NoNumber => number' = number)
<1>0. epoch \in Nat /\ \A k \in jobs : Stamped(k, epoch)
  BY DEF IInv, JobsAreStamped
<1>1. ASSUME NEW scheduled, ClearCachedPrintVariants(scheduled)
      PROVE  FALSE
  <2> DEFINE k == [j EXCEPT !.late = TRUE]
  <2>1. k.late /\ k.epoch = j.epoch /\ (j.late => k = j)
    BY <1>0, OvertakenIsStamped
  <2>2. k \in jobs'
    BY <1>1 DEF ClearCachedPrintVariants, Overtaken
  <2> HIDE DEF k
  <2>3. Stamped(k, epoch) /\ Stamped(j, epoch)
    BY <1>0, <2>2
  <2>4. j.late
    BY <2>1, <2>3 DEF Stamped
  <2> QED BY <2>1, <2>2, <2>4
<1>2. CASE Edit
  BY <1>1, <1>2 DEF Edit, EditName, EditNumber, SelectSet, TypeSet, SwitchRegion, ReadControls,
                    OnNextSetNo, AutoDetect, Close
<1>3. CASE \E k \in jobs : RunPrefetch(k) \/ Lookup(k)
  BY <1>3 DEF RunPrefetch, Lookup, controls
<1>4. ASSUME NEW k \in jobs, RunAnswer(k)
      PROVE  name' = name /\ (number # NoNumber => number' = number)
  <2>1. k = j
    BY <1>4 DEF RunAnswer
  <2>2. ApplyPrints(k) => name' = name /\ (number # NoNumber => number' = number)
    BY <2>1 DEF ApplyPrints, Shown, Manual
  <2> QED BY <1>4, <2>2 DEF RunAnswer
<1>5. CASE UNCHANGED vars
  BY <1>5 DEF vars, controls
<1> QED BY <1>2, <1>3, <1>4, <1>5 DEF Next, JobStep

\* A prefetch nobody asked for replaces neither a name nor a number on screen.
THEOREM PrefetchIsSilent == Spec => SilentPrefetchIsSilent
<1>1. IInv /\ [Next]_vars =>
        [(jobs' \subseteq jobs /\
              \E j \in jobs \ jobs' : j.kind = "silent" /\ j.stage = "answered") =>
           /\ name' = name
           /\ number # NoNumber => number' = number]_vars
  BY SilentJobsKeepWhatIsShown
<1> QED BY <1>1, SpecImpliesIInv, PTL DEF Spec, SilentPrefetchIsSilent

-----------------------------------------------------------------------------
(***************************************************************************)
(* The four dialogs together (EditDialogs).  Their jobs have different     *)
(* fields; what the epochs say of them is proved once for all jobs.        *)
(***************************************************************************)

\* A job of any dialog: a record with at least these fields.
IsJob(j) ==
    /\ j = [f \in DOMAIN j |-> j[f]]
    /\ "stage" \in DOMAIN j /\ "epoch" \in DOMAIN j
    /\ "late" \in DOMAIN j /\ "found" \in DOMAIN j

\* The epoch a job carries tells whether it was overtaken.
Aged(j, e) ==
    /\ IsJob(j)
    /\ j.epoch \in Nat /\ j.epoch <= e
    /\ j.late \in BOOLEAN
    /\ j.late <=> j.epoch < e

AllAged(js, e) == e \in Nat /\ \A j \in js : Aged(j, e)

\* The invariant: EditDialogDetect's, and the ages of the other dialogs' jobs.
DialogsInv ==
    /\ IInv
    /\ AllAged(ygoJobs, ygoEpoch)
    /\ AllAged(bJobs, bEpoch)
    /\ AllAged(dJobs, dEpoch)

-----------------------------------------------------------------------------
\* What edits and answers make of any job.

\* Overtaking a job changes one field.
LEMMA LateFieldOnly ==
    ASSUME NEW j, IsJob(j)
    PROVE  /\ IsJob([j EXCEPT !.late = TRUE])
           /\ [j EXCEPT !.late = TRUE].late = TRUE
           /\ [j EXCEPT !.late = TRUE].epoch = j.epoch
           /\ j.late = TRUE => [j EXCEPT !.late = TRUE] = j
<1>1. IsJob([j EXCEPT !.late = TRUE])
  BY Zenon DEF IsJob
<1>2. [j EXCEPT !.late = TRUE].late = TRUE
  BY Zenon DEF IsJob
<1>3. [j EXCEPT !.late = TRUE].epoch = j.epoch
  BY Zenon DEF IsJob
<1>4. j.late = TRUE => [j EXCEPT !.late = TRUE] = j
  BY Zenon DEF IsJob
<1> QED BY <1>1, <1>2, <1>3, <1>4

\* Answering it changes two.
LEMMA AnswerFieldsOnly ==
    ASSUME NEW j, IsJob(j), NEW f
    PROVE  /\ IsJob([j EXCEPT !.stage = "answered", !.found = f])
           /\ [j EXCEPT !.stage = "answered", !.found = f].late = j.late
           /\ [j EXCEPT !.stage = "answered", !.found = f].epoch = j.epoch
<1>1. IsJob([j EXCEPT !.stage = "answered", !.found = f])
  BY Zenon DEF IsJob
<1>2. [j EXCEPT !.stage = "answered", !.found = f].late = j.late
  BY Zenon DEF IsJob
<1>3. [j EXCEPT !.stage = "answered", !.found = f].epoch = j.epoch
  BY Zenon DEF IsJob
<1> QED BY <1>1, <1>2, <1>3

\* An edit that opens a new epoch ages all jobs; what it schedules is new.
LEMMA ClearingAgesAll ==
    ASSUME NEW js, NEW e, AllAged(js, e), NEW new, \A k \in new : Aged(k, e + 1)
    PROVE  AllAged({[j EXCEPT !.late = TRUE] : j \in js} \cup new, e + 1)
<1>1. ASSUME NEW j \in js
      PROVE  Aged([j EXCEPT !.late = TRUE], e + 1)
  <2> DEFINE k == [j EXCEPT !.late = TRUE]
  <2>1. IsJob(k) /\ k.late = TRUE /\ k.epoch = j.epoch
    BY LateFieldOnly DEF AllAged, Aged
  <2>2. e \in Nat /\ j.epoch \in Nat /\ j.epoch <= e
    BY DEF AllAged, Aged
  <2> HIDE DEF k
  <2>3. k.epoch \in Nat /\ k.epoch <= e + 1 /\ k.epoch < e + 1
    BY <2>1, <2>2
  <2>4. Aged(k, e + 1)
    BY <2>1, <2>3, Zenon DEF Aged
  <2> QED BY <2>4 DEF k
<1> QED BY <1>1 DEF AllAged

\* It leaves the jobs that were late before as they are.
LEMMA LateJobsStay ==
    ASSUME NEW js, NEW e, AllAged(js, e), NEW j \in js, j.late
    PROVE  j \in {[k EXCEPT !.late = TRUE] : k \in js}
<1>1. IsJob(j) /\ j.late = TRUE
  BY DEF AllAged, Aged
<1>2. [j EXCEPT !.late = TRUE] = j
  BY <1>1, LateFieldOnly
<1> QED BY <1>2

\* An answer keeps the ages.
LEMMA AnsweringKeepsAges ==
    ASSUME NEW js, NEW e, AllAged(js, e), NEW j \in js, NEW f
    PROVE  AllAged((js \ {j}) \cup {[j EXCEPT !.stage = "answered", !.found = f]}, e)
<1> DEFINE k == [j EXCEPT !.stage = "answered", !.found = f]
<1>1. IsJob(k) /\ k.late = j.late /\ k.epoch = j.epoch
  BY AnswerFieldsOnly DEF AllAged, Aged
<1> HIDE DEF k
<1>2. Aged(k, e)
  BY <1>1 DEF AllAged, Aged
<1>3. AllAged((js \ {j}) \cup {k}, e)
  BY <1>2 DEF AllAged
<1> QED BY <1>3 DEF k

\* Jobs that end, and jobs of the current epoch that start, keep the ages.
LEMMA FewerJobsKeepAges ==
    ASSUME NEW js, NEW e, AllAged(js, e), NEW fewer, fewer \subseteq js,
           NEW new, \A k \in new : Aged(k, e)
    PROVE  AllAged(fewer \cup new, e) /\ AllAged(fewer, e)
BY DEF AllAged

\* A job that was not overtaken has the age of its epoch.
LEMMA FreshJobsAreAged ==
    ASSUME NEW e \in Nat, NEW j, IsJob(j), j.epoch = e, j.late = FALSE
    PROVE  Aged(j, e)
<1>1. e <= e /\ ~ (e < e)
  OBVIOUS
<1> QED BY <1>1, Zenon DEF Aged

-----------------------------------------------------------------------------
\* Digi-Battle.

\* The jobs that the Digi-Battle dialog starts are of the current epoch.
LEMMA DigiJobsAreAged ==
    ASSUME NEW e \in Nat, NEW k, NEW s, NEW n, NEW m
    PROVE  /\ Aged(Digi!Prefetch(e), e)
           /\ dEpoch \in Nat => \A j \in Digi!Lookups(k, s, n, m) : Aged(j, dEpoch)
<1>1. IsJob(Digi!Prefetch(e)) /\ Digi!Prefetch(e).epoch = e /\ Digi!Prefetch(e).late = FALSE
  BY Zenon DEF Digi!Prefetch, IsJob
<1>2. Aged(Digi!Prefetch(e), e)
  BY <1>1, FreshJobsAreAged
<1>3. ASSUME dEpoch \in Nat, NEW j \in Digi!Lookups(k, s, n, m)
      PROVE  Aged(j, dEpoch)
  <2>1. j = [stage |-> "lookup", kind |-> k, epoch |-> dEpoch, set |-> s, name |-> n,
             number |-> m, late |-> FALSE, found |-> FALSE]
    BY DEF Digi!Lookups
  <2>2. IsJob(j) /\ j.epoch = dEpoch /\ j.late = FALSE
    BY <2>1, Zenon DEF IsJob
  <2> QED BY <1>3, <2>2, FreshJobsAreAged
<1> QED BY <1>2, <1>3

\* The ages, for the steps of the Digi-Battle dialog.
LEMMA DigiKeepsAges ==
    ASSUME AllAged(dJobs, dEpoch), Digi!Next
    PROVE  AllAged(dJobs', dEpoch')
<1>0. dEpoch \in Nat /\ dEpoch + 1 \in Nat
  BY DEF AllAged
<1>1. ASSUME NEW scheduled, Digi!ClearCachedPrintVariants(scheduled),
             scheduled \subseteq {Digi!Prefetch(dEpoch + 1)}
      PROVE  AllAged(dJobs', dEpoch')
  <2>1. \A k \in scheduled : Aged(k, dEpoch + 1)
    BY <1>0, <1>1, DigiJobsAreAged
  <2> QED BY <1>1, <2>1, ClearingAgesAll DEF Digi!ClearCachedPrintVariants, Digi!Overtaken
<1>2. ASSUME UNCHANGED <<dJobs, dEpoch>>
      PROVE  AllAged(dJobs', dEpoch')
  BY <1>2
<1>3. CASE Digi!Edit
  <2>1. ASSUME NEW n \in Names \cup {Blank}, Digi!EditName(n)
        PROVE  AllAged(dJobs', dEpoch')
    BY <1>1, <2>1 DEF Digi!EditName
  <2>2. ASSUME NEW no \in Typed, Digi!EditNumber(no)
        PROVE  AllAged(dJobs', dEpoch')
    BY <1>1, <2>2 DEF Digi!EditNumber
  <2>3. ASSUME NEW s \in DigiSets, Digi!OnSetSelectionChanged(s)
        PROVE  AllAged(dJobs', dEpoch')
    BY <1>1, <2>3 DEF Digi!OnSetSelectionChanged
  <2>4. ASSUME NEW s \in DigiSets, Digi!TypeSet(s)
        PROVE  AllAged(dJobs', dEpoch')
    BY <1>2, <2>4 DEF Digi!TypeSet
  <2>5. CASE Digi!ReadControls \/ Digi!OnNextSetNo \/ Digi!Close
    BY <1>2, <2>5 DEF Digi!ReadControls, Digi!OnNextSetNo, Digi!Close
  <2>6. CASE Digi!AutoDetectFromApi
    <3>1. PICK k, n, m : dJobs' = dJobs \cup Digi!Lookups(k, dForm.set, n, m)
      BY <2>6 DEF Digi!AutoDetectFromApi
    <3>2. dEpoch' = dEpoch
      BY <2>6 DEF Digi!AutoDetectFromApi
    <3> QED BY <1>0, <3>1, <3>2, DigiJobsAreAged, FewerJobsKeepAges
  <2> QED BY <1>3, <2>1, <2>2, <2>3, <2>4, <2>5, <2>6 DEF Digi!Edit
<1>4. ASSUME NEW j \in dJobs, Digi!RunPrefetch(j)
      PROVE  AllAged(dJobs', dEpoch')
  <2> DEFINE new == IF j.epoch = dEpoch /\ dRing.nos = <<>> /\ dRecord.name # Blank
                         /\ dRecord.set # NoSet
                    THEN Digi!Lookups("silent", dRecord.set, dRecord.name, "") ELSE {}
  <2>1. dJobs' = (dJobs \ {j}) \cup new /\ dEpoch' = dEpoch
    BY <1>4 DEF Digi!RunPrefetch
  <2>2. \A k \in new : Aged(k, dEpoch)
    BY <1>0, DigiJobsAreAged
  <2> HIDE DEF new
  <2> QED BY <2>1, <2>2 DEF AllAged
<1>5. ASSUME NEW j \in dJobs, Digi!Lookup(j)
      PROVE  AllAged(dJobs', dEpoch')
  <2>1. PICK f : dJobs' = (dJobs \ {j}) \cup {[j EXCEPT !.stage = "answered", !.found = f]}
    BY <1>5 DEF Digi!Lookup
  <2>2. AllAged((dJobs \ {j}) \cup {[j EXCEPT !.stage = "answered", !.found = f]}, dEpoch)
    BY AnsweringKeepsAges
  <2>3. dEpoch' = dEpoch
    BY <1>5 DEF Digi!Lookup
  <2> QED BY <2>1, <2>2, <2>3
<1>6. ASSUME NEW j \in dJobs, Digi!RunAnswer(j)
      PROVE  AllAged(dJobs', dEpoch')
  <2>1. dJobs' \subseteq dJobs /\ dEpoch' = dEpoch
    BY <1>6 DEF Digi!RunAnswer
  <2> QED BY <2>1 DEF AllAged
<1> QED BY <1>3, <1>4, <1>5, <1>6 DEF Digi!Next

\* A job of the Digi-Battle dialog that is overtaken, or outlives it, ends unseen.
LEMMA DigiDropsLateAnswers ==
    ASSUME AllAged(dJobs, dEpoch), Digi!Next,
           NEW j \in dJobs, j \notin dJobs', j.late \/ dState # "open"
    PROVE  UNCHANGED <<dForm, dRing, dButton>>
<1>1. ASSUME NEW scheduled, Digi!ClearCachedPrintVariants(scheduled), dState = "open"
      PROVE  FALSE
  BY <1>1, LateJobsStay DEF Digi!ClearCachedPrintVariants, Digi!Overtaken
<1>2. CASE Digi!Edit
  BY <1>1, <1>2 DEF Digi!Edit, Digi!EditName, Digi!EditNumber, Digi!OnSetSelectionChanged,
        Digi!TypeSet, Digi!ReadControls, Digi!OnNextSetNo, Digi!AutoDetectFromApi, Digi!Close
<1>3. CASE \E k \in dJobs : Digi!RunPrefetch(k) \/ Digi!Lookup(k)
  BY <1>3 DEF Digi!RunPrefetch, Digi!Lookup
<1>4. ASSUME NEW k \in dJobs, Digi!RunAnswer(k)
      PROVE  UNCHANGED <<dForm, dRing, dButton>>
  <2>1. k = j
    BY <1>4 DEF Digi!RunAnswer
  <2>2. ~ (dState = "open" /\ k.epoch = dEpoch)
    BY <2>1 DEF AllAged, Aged
  <2> QED BY <1>4, <2>2 DEF Digi!RunAnswer
<1> QED BY <1>2, <1>3, <1>4 DEF Digi!Next

-----------------------------------------------------------------------------
\* Yu-Gi-Oh!.

\* The prefetch of the Yu-Gi-Oh! dialog is of the current epoch,
LEMMA YgoPrefetchIsAged ==
    ASSUME NEW e \in Nat
    PROVE  Aged(Ygo!Prefetch(e), e)
<1>1. IsJob(Ygo!Prefetch(e)) /\ Ygo!Prefetch(e).epoch = e /\ Ygo!Prefetch(e).late = FALSE
  BY Zenon DEF Ygo!Prefetch, IsJob
<1> QED BY <1>1, FreshJobsAreAged

\* and so are its lookups.
LEMMA YgoLookupIsAged ==
    ASSUME NEW e \in Nat, NEW s, NEW m
    PROVE  Aged([stage |-> "lookup", epoch |-> e, set |-> s, number |-> m, late |-> FALSE,
                 found |-> FALSE], e)
<1> DEFINE j == [stage |-> "lookup", epoch |-> e, set |-> s, number |-> m, late |-> FALSE,
                 found |-> FALSE]
<1>1. IsJob(j) /\ j.epoch = e /\ j.late = FALSE
  BY Zenon DEF IsJob
<1> HIDE DEF j
<1>2. Aged(j, e)
  BY <1>1, FreshJobsAreAged
<1> QED BY <1>2 DEF j

\* The ages, for the steps of the Yu-Gi-Oh! dialog.
LEMMA YgoKeepsAges ==
    ASSUME AllAged(ygoJobs, ygoEpoch), Ygo!Next
    PROVE  AllAged(ygoJobs', ygoEpoch')
<1>0. ygoEpoch \in Nat /\ ygoEpoch + 1 \in Nat
  BY DEF AllAged
<1>1. ASSUME NEW scheduled, Ygo!ClearCachedPrintVariants(scheduled),
             scheduled \subseteq {Ygo!Prefetch(ygoEpoch + 1)}
      PROVE  AllAged(ygoJobs', ygoEpoch')
  <2>1. \A k \in scheduled : Aged(k, ygoEpoch + 1)
    BY <1>0, <1>1, YgoPrefetchIsAged
  <2> QED BY <1>1, <2>1, ClearingAgesAll DEF Ygo!ClearCachedPrintVariants, Ygo!Overtaken
<1>2. ASSUME UNCHANGED <<ygoJobs, ygoEpoch>>
      PROVE  AllAged(ygoJobs', ygoEpoch')
  BY <1>2
<1>3. CASE Ygo!Edit
  <2>1. ASSUME NEW n \in Names \cup {Blank}, Ygo!EditName(n)
        PROVE  AllAged(ygoJobs', ygoEpoch')
    BY <1>1, <2>1 DEF Ygo!EditName
  <2>2. ASSUME NEW no \in YgoNumbers, Ygo!EditNumber(no)
        PROVE  AllAged(ygoJobs', ygoEpoch')
    BY <1>1, <2>2 DEF Ygo!EditNumber
  <2>3. ASSUME NEW s \in YgoSets, Ygo!OnSetSelectionChanged(s) \/ Ygo!OnSetCodeAutoDetect(s)
        PROVE  AllAged(ygoJobs', ygoEpoch')
    BY <1>1, <2>3 DEF Ygo!OnSetSelectionChanged, Ygo!OnSetCodeAutoDetect
  <2>4. ASSUME NEW s \in YgoSets, Ygo!TypeSet(s)
        PROVE  AllAged(ygoJobs', ygoEpoch')
    BY <1>2, <2>4 DEF Ygo!TypeSet
  <2>5. CASE Ygo!Choose \/ Ygo!ReadControls \/ Ygo!OnNextSetNo \/ Ygo!OnNextRarity \/ Ygo!Close
    BY <1>2, <2>5
       DEF Ygo!Choose, Ygo!ReadControls, Ygo!OnNextSetNo, Ygo!OnNextRarity, Ygo!Close
  <2>6. ASSUME NEW fill, Ygo!AutoDetectFromApi(fill)
        PROVE  AllAged(ygoJobs', ygoEpoch')
    BY <1>2, <2>6 DEF Ygo!AutoDetectFromApi
  <2>7. CASE Ygo!RequestBySetNo
    <3> DEFINE new == [stage |-> "lookup", epoch |-> ygoEpoch, set |-> ygoForm.set,
                       number |-> ygoForm.number, late |-> FALSE, found |-> FALSE]
    <3>1. ygoJobs' = ygoJobs \cup {new} /\ ygoEpoch' = ygoEpoch
      BY <2>7 DEF Ygo!RequestBySetNo
    <3>2. Aged(new, ygoEpoch)
      BY <1>0, YgoLookupIsAged
    <3> HIDE DEF new
    <3> QED BY <3>1, <3>2 DEF AllAged
  <2> QED BY <1>3, <2>1, <2>2, <2>3, <2>4, <2>5, <2>6, <2>7
          DEF Ygo!Edit, Ygo!OnAutoDetectSetNo, Ygo!OnAutoDetectRarity
<1>4. ASSUME NEW j \in ygoJobs, Ygo!RunPrefetch(j) \/ Ygo!RunAnswer(j)
      PROVE  AllAged(ygoJobs', ygoEpoch')
  <2>1. ygoJobs' \subseteq ygoJobs /\ ygoEpoch' = ygoEpoch
    BY <1>4 DEF Ygo!RunPrefetch, Ygo!RunAnswer
  <2> QED BY <2>1 DEF AllAged
<1>5. ASSUME NEW j \in ygoJobs, Ygo!Lookup(j)
      PROVE  AllAged(ygoJobs', ygoEpoch')
  <2>1. PICK f : ygoJobs' = (ygoJobs \ {j}) \cup {[j EXCEPT !.stage = "answered", !.found = f]}
    BY <1>5 DEF Ygo!Lookup
  <2>2. AllAged((ygoJobs \ {j}) \cup {[j EXCEPT !.stage = "answered", !.found = f]}, ygoEpoch)
    BY AnsweringKeepsAges
  <2>3. ygoEpoch' = ygoEpoch
    BY <1>5 DEF Ygo!Lookup
  <2> QED BY <2>1, <2>2, <2>3
<1> QED BY <1>3, <1>4, <1>5 DEF Ygo!Next

\* Here a scheduled prefetch looks up in its handler, and may make rings.
LEMMA YgoDropsLateAnswers ==
    ASSUME AllAged(ygoJobs, ygoEpoch), Ygo!Next,
           NEW j \in ygoJobs, j \notin ygoJobs', j.late \/ ygoState # "open"
    PROVE  UNCHANGED <<ygoForm, ygoRing, ygoButton>>
<1>0. j.epoch # ygoEpoch \/ ygoState # "open"
  BY DEF AllAged, Aged
<1>1. ASSUME NEW scheduled, Ygo!ClearCachedPrintVariants(scheduled), ygoState = "open"
      PROVE  FALSE
  BY <1>1, LateJobsStay DEF Ygo!ClearCachedPrintVariants, Ygo!Overtaken
<1>2. CASE Ygo!Edit
  <2>1. ygoState = "open"
    BY <1>2 DEF Ygo!Edit, Ygo!EditName, Ygo!EditNumber, Ygo!OnSetSelectionChanged,
          Ygo!OnSetCodeAutoDetect, Ygo!TypeSet, Ygo!Choose, Ygo!ReadControls, Ygo!OnNextSetNo,
          Ygo!OnNextRarity, Ygo!OnAutoDetectSetNo, Ygo!OnAutoDetectRarity, Ygo!Close
  <2>2. \/ \E scheduled : Ygo!ClearCachedPrintVariants(scheduled)
        \/ ygoJobs \subseteq ygoJobs'
    BY <1>2 DEF Ygo!Edit, Ygo!EditName, Ygo!EditNumber, Ygo!OnSetSelectionChanged,
          Ygo!OnSetCodeAutoDetect, Ygo!TypeSet, Ygo!Choose, Ygo!ReadControls, Ygo!OnNextSetNo,
          Ygo!OnNextRarity, Ygo!OnAutoDetectSetNo, Ygo!OnAutoDetectRarity, Ygo!Close,
          Ygo!AutoDetectFromApi, Ygo!RequestBySetNo
  <2> QED BY <1>1, <2>1, <2>2
<1>3. ASSUME NEW k \in ygoJobs, Ygo!RunPrefetch(k)
      PROVE  UNCHANGED <<ygoForm, ygoRing, ygoButton>>
  <2>1. k = j
    BY <1>3 DEF Ygo!RunPrefetch
  <2> QED BY <1>0, <1>3, <2>1 DEF Ygo!RunPrefetch
<1>4. ASSUME NEW k \in ygoJobs, Ygo!Lookup(k)
      PROVE  UNCHANGED <<ygoForm, ygoRing, ygoButton>>
  BY <1>4 DEF Ygo!Lookup
<1>5. ASSUME NEW k \in ygoJobs, Ygo!RunAnswer(k)
      PROVE  UNCHANGED <<ygoForm, ygoRing, ygoButton>>
  <2>1. k = j
    BY <1>5 DEF Ygo!RunAnswer
  <2> QED BY <1>0, <1>5, <2>1 DEF Ygo!RunAnswer
<1> QED BY <1>2, <1>3, <1>4, <1>5 DEF Ygo!Next

-----------------------------------------------------------------------------
\* Bandai.

\* The prefetch of the Bandai dialog is of the current epoch,
LEMMA BandaiPrefetchIsAged ==
    ASSUME NEW e \in Nat
    PROVE  Aged(Bandai!Prefetch(e), e)
<1>1. /\ IsJob(Bandai!Prefetch(e))
      /\ Bandai!Prefetch(e).epoch = e /\ Bandai!Prefetch(e).late = FALSE
  BY Zenon DEF Bandai!Prefetch, IsJob
<1> QED BY <1>1, FreshJobsAreAged

\* and so is what it requests.
LEMMA BandaiRequestKeepsAges ==
    ASSUME AllAged(bJobs, bEpoch), NEW k, NEW s, NEW n, NEW m, Bandai!Request(k, s, n, m)
    PROVE  AllAged(bJobs', bEpoch)
<1>1. PICK i : bJobs' \subseteq bJobs \cup
                 {[stage |-> "lookup", kind |-> k, nth |-> i, epoch |-> bEpoch, set |-> s,
                   name |-> n, number |-> m, late |-> FALSE, found |-> FALSE]}
  BY DEF Bandai!Request
<1> DEFINE new == [stage |-> "lookup", kind |-> k, nth |-> i, epoch |-> bEpoch, set |-> s,
                   name |-> n, number |-> m, late |-> FALSE, found |-> FALSE]
<1>2. IsJob(new) /\ new.epoch = bEpoch /\ new.late = FALSE
  BY Zenon DEF IsJob
<1>3. bJobs' \subseteq bJobs \cup {new}
  BY <1>1
<1> HIDE DEF new
<1>4. Aged(new, bEpoch)
  BY <1>2, FreshJobsAreAged DEF AllAged
<1> QED BY <1>3, <1>4 DEF AllAged

\* The ages, for the steps of the Bandai dialog.
LEMMA BandaiKeepsAges ==
    ASSUME AllAged(bJobs, bEpoch), Bandai!Next
    PROVE  AllAged(bJobs', bEpoch')
<1>0. bEpoch \in Nat /\ bEpoch + 1 \in Nat
  BY DEF AllAged
<1>1. ASSUME NEW scheduled, Bandai!ClearCachedPrintVariants(scheduled),
             scheduled \subseteq {Bandai!Prefetch(bEpoch + 1)}
      PROVE  AllAged(bJobs', bEpoch')
  <2>1. \A k \in scheduled : Aged(k, bEpoch + 1)
    BY <1>0, <1>1, BandaiPrefetchIsAged
  <2> QED BY <1>1, <2>1, ClearingAgesAll DEF Bandai!ClearCachedPrintVariants, Bandai!Overtaken
<1>2. ASSUME UNCHANGED <<bJobs, bEpoch>>
      PROVE  AllAged(bJobs', bEpoch')
  BY <1>2
<1>3. CASE Bandai!Edit
  <2>1. ASSUME NEW n \in Names \cup {Blank}, Bandai!EditName(n)
        PROVE  AllAged(bJobs', bEpoch')
    BY <1>1, <2>1 DEF Bandai!EditName
  <2>2. ASSUME NEW no \in Typed, Bandai!EditNumber(no)
        PROVE  AllAged(bJobs', bEpoch')
    BY <1>1, <2>2 DEF Bandai!EditNumber
  <2>3. ASSUME NEW s \in BandaiSets, Bandai!OnSetSelectionChanged(s)
        PROVE  AllAged(bJobs', bEpoch')
    BY <1>1, <2>3 DEF Bandai!OnSetSelectionChanged
  <2>4. ASSUME NEW s \in BandaiSets, Bandai!TypeSet(s)
        PROVE  AllAged(bJobs', bEpoch')
    BY <1>2, <2>4 DEF Bandai!TypeSet
  <2>5. CASE Bandai!Choose \/ Bandai!ReadControls \/ Bandai!OnNextSetNo \/ Bandai!Close
    BY <1>2, <2>5
       DEF Bandai!Choose, Bandai!ReadControls, Bandai!OnNextSetNo, Bandai!Close
  <2>6. CASE Bandai!OnAutoDetectBySetNo \/ Bandai!OnAutoDetectByName
    <3>1. PICK k, s, n, m : Bandai!Request(k, s, n, m) /\ bEpoch' = bEpoch
      BY <2>6 DEF Bandai!OnAutoDetectBySetNo, Bandai!OnAutoDetectByName
    <3> QED BY <3>1, BandaiRequestKeepsAges
  <2> QED BY <1>3, <2>1, <2>2, <2>3, <2>4, <2>5, <2>6 DEF Bandai!Edit
<1>4. ASSUME NEW j \in bJobs, Bandai!RunPrefetch(j) \/ Bandai!RunAnswer(j)
      PROVE  AllAged(bJobs', bEpoch')
  <2>1. bEpoch' = bEpoch
    BY <1>4 DEF Bandai!RunPrefetch, Bandai!RunAnswer
  <2>2. bJobs' = bJobs \ {j} \/ \E k, s, n, m : Bandai!Request(k, s, n, m)
    BY <1>4 DEF Bandai!RunPrefetch, Bandai!RunAnswer
  <2>3. CASE bJobs' = bJobs \ {j}
    BY <2>1, <2>3 DEF AllAged
  <2> QED BY <2>1, <2>2, <2>3, BandaiRequestKeepsAges
<1>5. ASSUME NEW j \in bJobs, Bandai!Lookup(j)
      PROVE  AllAged(bJobs', bEpoch')
  <2>1. PICK f : bJobs' = (bJobs \ {j}) \cup {[j EXCEPT !.stage = "answered", !.found = f]}
    BY <1>5 DEF Bandai!Lookup
  <2>2. AllAged((bJobs \ {j}) \cup {[j EXCEPT !.stage = "answered", !.found = f]}, bEpoch)
    BY AnsweringKeepsAges
  <2>3. bEpoch' = bEpoch
    BY <1>5 DEF Bandai!Lookup
  <2> QED BY <2>1, <2>2, <2>3
<1> QED BY <1>3, <1>4, <1>5 DEF Bandai!Next

\* Only a prefetch replaces jobs when it asks.
LEMMA BandaiDropsLateAnswers ==
    ASSUME AllAged(bJobs, bEpoch), Bandai!Next,
           NEW j \in bJobs, j \notin bJobs', j.late \/ bState # "open"
    PROVE  UNCHANGED <<bForm, bRing, bButtons>>
<1>1. ASSUME NEW scheduled, Bandai!ClearCachedPrintVariants(scheduled), bState = "open"
      PROVE  FALSE
  BY <1>1, LateJobsStay DEF Bandai!ClearCachedPrintVariants, Bandai!Overtaken
<1>2. CASE Bandai!Edit
  <2>1. bState = "open"
    BY <1>2 DEF Bandai!Edit, Bandai!EditName, Bandai!EditNumber, Bandai!OnSetSelectionChanged,
          Bandai!TypeSet, Bandai!Choose, Bandai!ReadControls, Bandai!OnNextSetNo,
          Bandai!OnAutoDetectBySetNo, Bandai!OnAutoDetectByName, Bandai!Close
  <2>2. \/ \E scheduled : Bandai!ClearCachedPrintVariants(scheduled)
        \/ bJobs \subseteq bJobs'
    <3>1. ASSUME NEW k, NEW s, NEW n, NEW m, k # "silent", Bandai!Request(k, s, n, m)
          PROVE  bJobs \subseteq bJobs'
      BY <3>1 DEF Bandai!Request
    <3>2. CASE Bandai!OnAutoDetectBySetNo
      BY <3>1, <3>2 DEF Bandai!OnAutoDetectBySetNo
    <3>3. CASE Bandai!OnAutoDetectByName
      BY <3>1, <3>3 DEF Bandai!OnAutoDetectByName
    <3> QED BY <1>2, <3>2, <3>3
            DEF Bandai!Edit, Bandai!EditName, Bandai!EditNumber, Bandai!OnSetSelectionChanged,
                Bandai!TypeSet, Bandai!Choose, Bandai!ReadControls, Bandai!OnNextSetNo,
                Bandai!Close
  <2> QED BY <1>1, <2>1, <2>2
<1>3. CASE \E k \in bJobs : Bandai!RunPrefetch(k) \/ Bandai!Lookup(k)
  BY <1>3 DEF Bandai!RunPrefetch, Bandai!Lookup
<1>4. ASSUME NEW k \in bJobs, Bandai!RunAnswer(k)
      PROVE  UNCHANGED <<bForm, bRing, bButtons>>
  <2>1. k = j
    BY <1>4 DEF Bandai!RunAnswer
  <2>2. ~ (bState = "open" /\ k.epoch = bEpoch)
    BY <2>1 DEF AllAged, Aged
  <2> QED BY <1>4, <2>2 DEF Bandai!RunAnswer
<1> QED BY <1>2, <1>3, <1>4 DEF Bandai!Next

-----------------------------------------------------------------------------
\* The four of them.

\* The invariant of the four dialogs, at first.
LEMMA DialogsInitImpliesInv ==
    ASSUME DialogsInit
    PROVE  DialogsInv
<1>1. IInv
  <2>1. CASE Init
    BY <2>1, InitImpliesIInv
  <2>2. CASE PokemonClosed
    BY <2>2 DEF PokemonClosed, InitCreate, IInv, JobsAreStamped, EnabledMeansIdle,
                OneDetectAtATime
  <2> QED BY <2>1, <2>2 DEF DialogsInit
<1>2. AllAged(ygoJobs, ygoEpoch)
  <2>1. ygoEpoch = 0 /\ ygoJobs \subseteq {Ygo!Prefetch(0)}
    BY DEF DialogsInit, Ygo!Init, Ygo!InitCreate, Ygo!InitEdit, Ygo!Start, Ygo!Closed
  <2> QED BY <2>1, YgoPrefetchIsAged DEF AllAged
<1>3. AllAged(bJobs, bEpoch)
  <2>1. bEpoch = 0 /\ bJobs \subseteq {Bandai!Prefetch(0)}
    BY DEF DialogsInit, Bandai!Init, Bandai!InitCreate, Bandai!InitEdit, Bandai!Closed
  <2> QED BY <2>1, BandaiPrefetchIsAged DEF AllAged
<1>4. AllAged(dJobs, dEpoch)
  <2>1. dEpoch = 0 /\ dJobs \subseteq {Digi!Prefetch(0)}
    BY DEF DialogsInit, Digi!Init, Digi!InitCreate, Digi!InitEdit, Digi!Closed
  <2> QED BY <2>1, DigiJobsAreAged DEF AllAged
<1> QED BY <1>1, <1>2, <1>3, <1>4 DEF DialogsInv

\* A step of the composition is a step of one dialog, the others stutter.
LEMMA StepsAreTheDialogs ==
    ASSUME [DialogsNext]_dialogs
    PROVE  [Next]_vars /\ [Ygo!Next]_ygo /\ [Bandai!Next]_bandai /\ [Digi!Next]_digi
BY DEF DialogsNext, dialogs

\* The invariant of the four dialogs, for every step.
LEMMA DialogsNextKeepsInv ==
    ASSUME DialogsInv, [DialogsNext]_dialogs
    PROVE  DialogsInv'
<1>1. IInv'
  BY StepsAreTheDialogs, NextKeepsIInv DEF DialogsInv
<1>2. AllAged(ygoJobs, ygoEpoch)'
  BY StepsAreTheDialogs, YgoKeepsAges DEF DialogsInv, ygo
<1>3. AllAged(bJobs, bEpoch)'
  BY StepsAreTheDialogs, BandaiKeepsAges DEF DialogsInv, bandai
<1>4. AllAged(dJobs, dEpoch)'
  BY StepsAreTheDialogs, DigiKeepsAges DEF DialogsInv, digi
<1> QED BY <1>1, <1>2, <1>3, <1>4 DEF DialogsInv

\* In each dialog the epoch of a job tells whether an edit overtook it.
THEOREM JobsKnowTheirAge == DialogsSpec => []DialogsInv
<1>1. DialogsInit => DialogsInv
  BY DialogsInitImpliesInv
<1>2. DialogsInv /\ [DialogsNext]_dialogs => DialogsInv'
  BY DialogsNextKeepsInv
<1> QED BY <1>1, <1>2, PTL DEF DialogsSpec

\* The check of alive flag and epoch in the posted lambdas of all four dialogs suffices:
\* whatever an answer finds and whenever it comes, if the name, the number or the set was
\* edited meanwhile, or the dialog closed, it touches neither controls, ring nor buttons.
THEOREM OvertakenAnswersAreDropped == DialogsSpec => OvertakenAnswersChangeNothing
<1>1. DialogsInv /\ [DialogsNext]_dialogs =>
        [\A j \in jobs : (j \notin jobs' /\ (j.late \/ ~ alive)) =>
            UNCHANGED <<name, number, selectedSetNo, ring, button>>]_vars
  BY StepsAreTheDialogs, LateJobsChangeNothing DEF DialogsInv
<1>2. DialogsInv /\ [DialogsNext]_dialogs =>
        [\A j \in ygoJobs : (j \notin ygoJobs' /\ (j.late \/ ygoState # "open")) =>
            UNCHANGED <<ygoForm, ygoRing, ygoButton>>]_ygo
  BY StepsAreTheDialogs, YgoDropsLateAnswers DEF DialogsInv
<1>3. DialogsInv /\ [DialogsNext]_dialogs =>
        [\A j \in bJobs : (j \notin bJobs' /\ (j.late \/ bState # "open")) =>
            UNCHANGED <<bForm, bRing, bButtons>>]_bandai
  BY StepsAreTheDialogs, BandaiDropsLateAnswers DEF DialogsInv
<1>4. DialogsInv /\ [DialogsNext]_dialogs =>
        [\A j \in dJobs : (j \notin dJobs' /\ (j.late \/ dState # "open")) =>
            UNCHANGED <<dForm, dRing, dButton>>]_digi
  BY StepsAreTheDialogs, DigiDropsLateAnswers DEF DialogsInv
<1> QED BY <1>1, <1>2, <1>3, <1>4, JobsKnowTheirAge, PTL
        DEF DialogsSpec, OvertakenAnswersChangeNothing, LateAnswersChangeNothing,
            Ygo!LateAnswersChangeNothing, Bandai!LateAnswersChangeNothing,
            Digi!LateAnswersChangeNothing, ygo, bandai, digi,
            Ygo!dialogVars, Bandai!dialogVars, Digi!dialogVars

(***************************************************************************)
(* "Next" and what is on screen, for rings of any prints.                  *)
(***************************************************************************)

\* A form or a record: its fields are those in F, and nothing else.
HasFields(f, F) == f = [x \in F |-> f[x]]

\* Assigning one field leaves the others.
LEMMA AssignOne ==
    ASSUME NEW F, NEW f, HasFields(f, F), NEW a \in F, NEW v
    PROVE  /\ HasFields([f EXCEPT ![a] = v], F)
           /\ [f EXCEPT ![a] = v][a] = v
           /\ \A x \in F : x # a => [f EXCEPT ![a] = v][x] = f[x]
<1>1. HasFields([f EXCEPT ![a] = v], F)
  BY Zenon DEF HasFields
<1>2. [f EXCEPT ![a] = v][a] = v
  BY Zenon DEF HasFields
<1>3. \A x \in F : x # a => [f EXCEPT ![a] = v][x] = f[x]
  BY Zenon DEF HasFields
<1> QED BY <1>1, <1>2, <1>3

-----------------------------------------------------------------------------
\* Pokemon.

\* A ring is a sequence of the numbers of prints that have one.
LEMMA RingHoldsTheirNumbers ==
    ASSUME NEW X, NEW prints \in Seq(X)
    PROVE  Ring(prints) \in Seq({Numbered(prints)[k].number : k \in 1 .. Len(Numbered(prints))})
<1> DEFINE s == Numbered(prints)
           at == {n \in DOMAIN s : \A m \in 1 .. n - 1 : s[m].number # s[n].number}
           once == ElementsAt(s, at)
           N == {s[k].number : k \in 1 .. Len(s)}
<1>0. s \in Seq(X)
  BY KeptWasThere DEF Numbered
<1>1. Ring(prints) = [i \in DOMAIN once |-> once[i].number]
  BY DEF Ring, FirstOfEach
<1> HIDE DEF s
<1>2. DOMAIN s = 1 .. Len(s) /\ at \in SUBSET (1 .. Len(s))
  BY <1>0
<1> HIDE DEF at
<1>3. once \in Seq(X) /\ \E from : Taken(once, from, s, at)
  BY <1>0, <1>2, TakenInOrder
<1> HIDE DEF once
<1>4. PICK from : Taken(once, from, s, at)
  BY <1>3
<1>5. \A i \in 1 .. Len(once) : \E k \in 1 .. Len(s) : once[i] = s[k]
  BY <1>2, <1>4 DEF Taken
<1>6. \A i \in 1 .. Len(once) : once[i].number \in N
  BY <1>5
<1>7. Len(once) \in Nat /\ DOMAIN once = 1 .. Len(once)
  BY <1>3
<1> HIDE DEF N
<1>8. [i \in 1 .. Len(once) |-> once[i].number] \in Seq(N)
  BY <1>6, <1>7
<1> QED BY <1>1, <1>7, <1>8 DEF N, s

\* Every list of prints that a lookup asks for is one.
LEMMA AnswersArePrints ==
    ASSUME NEW j, j.set \in Sets
    PROVE  Answer(j) \in Seq(Prints)
<1>1. Listing[j.set] \in Seq(Prints)
  BY DetectAssumption
<1> QED BY <1>1, KeptWasThere DEF Answer, ByName, ByNumber

\* What the invariant adds to IInv: the sets of the controls, the record and the lookups
\* are listed ones, and the ring stands at the number shown.
ShownInv ==
    /\ HasFields(record, {"region", "set", "name"})
    /\ record.region \in Regions /\ record.set \in Sets \cup {NoSet}
    /\ set \in Sets
    /\ \A j \in jobs : Shaped(j) /\ (j.stage # "scheduled" => j.set \in Sets)
    /\ variants \in Seq(Prints)
    /\ NextStartsAtTheNumberShown

\* A cleared ring has no number.
LEMMA ClearedRingIsEmpty == ToSet(Ring(<<>>)) = {}
<1> DEFINE none == <<>>
<1>1. none \in Seq({}) /\ Len(none) = 0
  OBVIOUS
<1> HIDE DEF none
<1> DEFINE s == Numbered(none)
<1>2. Ring(none) \in Seq({s[k].number : k \in 1 .. Len(s)})
  BY <1>1, RingHoldsTheirNumbers
<1>3. {s[k].number : k \in 1 .. Len(s)} = {}
  <2>1. s \in Seq({})
    BY <1>1, KeptWasThere DEF Numbered
  <2> HIDE DEF s
  <2> QED BY <2>1
<1>4. Ring(none) \in Seq({})
  BY <1>2, <1>3
<1>5. DOMAIN Ring(none) = {}
  BY <1>4
<1>6. ToSet(Ring(none)) = {}
  BY <1>5 DEF ToSet
<1> QED BY <1>6 DEF none

\* A position that was sought is that of the number it was sought for.
LEMMA SoughtPosition ==
    ASSUME NEW prints \in Seq(Prints), NEW m
    PROVE  m \in ToSet(Ring(prints)) => Ring(prints)[RingPos(Ring(prints), m) + 1] = m
<1> DEFINE s == Numbered(prints)
<1>1. Ring(prints) \in Seq({s[k].number : k \in 1 .. Len(s)})
  BY RingHoldsTheirNumbers
<1>2. m \in ToSet(Ring(prints)) => ToSet(Ring(prints)) \cap {m} # {}
  OBVIOUS
<1>3. ToSet(Ring(prints)) \cap {m} # {} => Ring(prints)[PlaceIn(Ring(prints), {m}) + 1] \in {m}
  BY <1>1, PlaceIsThere
<1> QED BY <1>2, <1>3 DEF RingPos

\* At first there is no ring.
LEMMA InitImpliesShownInv ==
    ASSUME Init \/ PokemonClosed
    PROVE  ShownInv
<1>1. variants = <<>> /\ NextStartsAtTheNumberShown
  BY ClearedRingIsEmpty DEF Init, PokemonClosed, NextStartsAtTheNumberShown
<1>2. \A j \in jobs : j = Prefetch(0)
  BY DEF Init, PokemonClosed, InitCreate, InitEdit
<1>3. \A j \in jobs : Shaped(j) /\ j.stage = "scheduled"
  BY <1>2 DEF Prefetch, Shaped
<1>4. /\ HasFields(record, {"region", "set", "name"})
      /\ record.region \in Regions /\ record.set \in Sets \cup {NoSet} /\ set \in Sets
  <2>1. CASE InitCreate
    <3>1. NewRegion \in Regions /\ FirstSet[NewRegion] \in SetsOf[NewRegion]
      BY DetectAssumption
    <3> QED BY <2>1, <3>1 DEF InitCreate, HasFields, Sets
  <2>2. CASE InitEdit
    BY <2>2 DEF InitEdit, HasFields, Sets
  <2> QED BY <2>1, <2>2 DEF Init, PokemonClosed
<1> QED BY <1>1, <1>3, <1>4 DEF ShownInv

\* An edit that clears the ring: what is left to show is that the controls stay listed.
LEMMA ClearKeepsShownInv ==
    ASSUME ShownInv, NEW scheduled, ClearCachedPrintVariants(scheduled),
           scheduled \subseteq {Prefetch(epoch + 1)},
           HasFields(record', {"region", "set", "name"}),
           record'.region \in Regions, record'.set \in Sets \cup {NoSet}, set' \in Sets
    PROVE  ShownInv'
<1>1. ASSUME NEW j \in jobs'
      PROVE  Shaped(j) /\ (j.stage # "scheduled" => j.set \in Sets)
  <2>1. CASE j \in scheduled
    BY <2>1 DEF Prefetch, Shaped
  <2>2. CASE j \notin scheduled
    <3>1. PICK k \in jobs : j = [k EXCEPT !.late = TRUE]
      BY <2>2 DEF ClearCachedPrintVariants, Overtaken
    <3>2. Shaped(k) /\ (k.stage # "scheduled" => k.set \in Sets)
      BY DEF ShownInv
    <3>3. j = [stage |-> k.stage, kind |-> k.kind, epoch |-> k.epoch, set |-> k.set,
               name |-> k.name, number |-> k.number, late |-> TRUE, found |-> k.found]
      BY <3>1, <3>2, OvertakenJob
    <3> QED BY <3>2, <3>3 DEF Shaped
  <2> QED BY <2>1, <2>2
<1>2. variants' = <<>> /\ ToSet(Ring(variants')) = {}
  BY ClearedRingIsEmpty DEF ClearCachedPrintVariants
<1> QED BY <1>1, <1>2 DEF ShownInv, NextStartsAtTheNumberShown

\* The edits, one by one.
LEMMA EditKeepsShownInv ==
    ASSUME ShownInv, Edit
    PROVE  ShownInv'
<1>1. ASSUME NEW n \in Names \cup {Blank}, EditName(n)
      PROVE  ShownInv'
  BY <1>1, ClearKeepsShownInv DEF EditName, ShownInv
<1>2. ASSUME NEW m \in Numbers \cup {NoNumber}, EditNumber(m)
      PROVE  ShownInv'
  BY <1>2, ClearKeepsShownInv DEF EditNumber, ShownInv
<1>3. ASSUME NEW s \in SetsOf[record.region], SelectSet(s)
      PROVE  ShownInv'
  <2>1. s \in Sets
    BY DEF ShownInv, Sets
  <2> QED BY <1>3, <2>1, ClearKeepsShownInv DEF SelectSet, ShownInv
<1>4. ASSUME NEW s \in SetsOf[record.region], TypeSet(s)
      PROVE  ShownInv'
  <2>1. s \in Sets
    BY DEF ShownInv, Sets
  <2> QED BY <1>4, <2>1 DEF TypeSet, ShownInv, NextStartsAtTheNumberShown, ring
<1>5. ASSUME NEW r \in Regions, SwitchRegion(r)
      PROVE  ShownInv'
  <2> DEFINE kept == record.set \in SetsOf[r]
             at == [record EXCEPT !.region = r]
  <2>1. FirstSet[r] \in Sets /\ (kept => record.set \in Sets)
    BY DetectAssumption DEF Sets
  <2>2. HasFields(record, {"region", "set", "name"})
    BY DEF ShownInv
  <2>3. record' = [record EXCEPT !.region = r, !.set = IF kept THEN @ ELSE NoSet]
    BY <1>5 DEF SwitchRegion
  <2>4. /\ HasFields(record', {"region", "set", "name"})
        /\ record'.region = r /\ record'.set = IF kept THEN record.set ELSE NoSet
    BY <2>2, <2>3 DEF HasFields
  <2>5. set' = IF kept THEN record.set ELSE FirstSet[r]
    BY <1>5 DEF SwitchRegion
  <2>6. record'.set \in Sets \cup {NoSet} /\ set' \in Sets /\ record'.region \in Regions
    BY <2>1, <2>4, <2>5
  <2> QED BY <1>5, <2>4, <2>6, ClearKeepsShownInv DEF SwitchRegion
<1>6. ASSUME WriteFromControls
      PROVE  /\ HasFields(record', {"region", "set", "name"})
             /\ record'.region = record.region /\ record'.set = set
  <2>1. HasFields(record, {"region", "set", "name"})
    BY DEF ShownInv
  <2>2. record' = [record EXCEPT !.name = name, !.set = set]
    BY <1>6 DEF WriteFromControls
  <2> QED BY <2>1, <2>2 DEF HasFields
<1>7. CASE ReadControls
  BY <1>6, <1>7 DEF ReadControls, ShownInv, NextStartsAtTheNumberShown, ring
<1>8. CASE Close
  BY <1>6, <1>8 DEF Close, ShownInv, NextStartsAtTheNumberShown, ring
<1>9. CASE AutoDetect
  <2>1. PICK k : jobs' = jobs \cup {Job(k, set, name, number)}
    BY <1>9 DEF AutoDetect
  <2>2. /\ Shaped(Job(k, set, name, number)) /\ Job(k, set, name, number).set = set
    BY DEF Job, Shaped
  <2>3. \A j \in jobs' : Shaped(j) /\ (j.stage # "scheduled" => j.set \in Sets)
    BY <2>1, <2>2 DEF ShownInv
  <2> QED BY <1>6, <1>9, <2>3 DEF AutoDetect, ShownInv, NextStartsAtTheNumberShown, ring
<1>10. CASE OnNextSetNo
  BY <1>10 DEF OnNextSetNo, ShownInv, NextStartsAtTheNumberShown
<1> QED BY <1>1, <1>2, <1>3, <1>4, <1>5, <1>7, <1>8, <1>9, <1>10 DEF Edit

\* An answer that is applied has the ring sought at the number it shows.
LEMMA JobStepKeepsShownInv ==
    ASSUME ShownInv, NEW j \in jobs, JobStep(j)
    PROVE  ShownInv'
<1>0. Shaped(j) /\ (j.stage # "scheduled" => j.set \in Sets)
  BY DEF ShownInv
<1>1. CASE RunPrefetch(j)
  <2> DEFINE new == Job("silent", record.set, record.name, NoNumber)
  <2>1. jobs' \subseteq jobs \cup (IF record.set # NoSet THEN {new} ELSE {})
    BY <1>1 DEF RunPrefetch
  <2>2. Shaped(new) /\ (record.set # NoSet => new.set \in Sets)
    BY DEF Job, Shaped, ShownInv
  <2> HIDE DEF new
  <2>3. \A k \in jobs' : Shaped(k) /\ (k.stage # "scheduled" => k.set \in Sets)
    BY <2>1, <2>2 DEF ShownInv
  <2> QED BY <1>1, <2>3 DEF RunPrefetch, ShownInv, NextStartsAtTheNumberShown, controls, ring
<1>2. CASE Lookup(j)
  <2>1. PICK f : jobs' = (jobs \ {j}) \cup {[j EXCEPT !.stage = "answered", !.found = f]}
    BY <1>2 DEF Lookup
  <2> DEFINE new == [j EXCEPT !.stage = "answered", !.found = f]
  <2>2. new = [stage |-> "answered", kind |-> j.kind, epoch |-> j.epoch, set |-> j.set,
               name |-> j.name, number |-> j.number, late |-> j.late, found |-> f]
    BY <1>0, AnsweredJob
  <2>3. Shaped(new) /\ new.set \in Sets
    BY <1>0, <1>2, <2>2 DEF Shaped, Lookup
  <2>4. jobs' \subseteq jobs \cup {new}
    BY <2>1
  <2> HIDE DEF new
  <2>5. \A k \in jobs' : Shaped(k) /\ (k.stage # "scheduled" => k.set \in Sets)
    BY <2>3, <2>4 DEF ShownInv
  <2> QED BY <1>2, <2>5 DEF Lookup, ShownInv, NextStartsAtTheNumberShown, controls, ring
<1>3. CASE RunAnswer(j)
  <2>1. \A k \in jobs' : Shaped(k) /\ (k.stage # "scheduled" => k.set \in Sets)
    BY <1>3 DEF RunAnswer, ShownInv
  <2>2. UNCHANGED <<record, set>>
    BY <1>3 DEF RunAnswer
  <2>3. CASE ApplyPrints(j)
    <3>1. Answer(j) \in Seq(Prints)
      BY <1>0, <1>3, AnswersArePrints DEF RunAnswer
    <3>2. variants' = Answer(j) /\ pos' = RingPos(Ring(Answer(j)), number')
      BY <2>3 DEF ApplyPrints
    <3>3. NextStartsAtTheNumberShown'
      BY <3>1, <3>2, SoughtPosition DEF NextStartsAtTheNumberShown
    <3> QED BY <2>1, <2>2, <3>1, <3>2, <3>3 DEF ShownInv
  <2>4. CASE UNCHANGED <<number, ring>>
    BY <2>1, <2>2, <2>4 DEF ShownInv, NextStartsAtTheNumberShown, ring
  <2> QED BY <1>3, <2>3, <2>4 DEF RunAnswer
<1> QED BY <1>1, <1>2, <1>3 DEF JobStep

\* The invariant, for every step.
LEMMA NextKeepsShownInv ==
    ASSUME ShownInv, [Next]_vars
    PROVE  ShownInv'
<1>1. CASE UNCHANGED vars
  BY <1>1 DEF vars, controls, ring, ShownInv, NextStartsAtTheNumberShown
<1> QED BY <1>1, EditKeepsShownInv, JobStepKeepsShownInv DEF Next

-----------------------------------------------------------------------------
\* Digi-Battle.

\* The numbers that upstream writes are in their normal form.
DigiNumbers == {p.number : p \in ToSet(DigiPrints)}

\* The copies of Filtering's operators in the instances are those of Filtering.
LEMMA DigiFilters ==
    /\ \A s, S : Digi!KeepIn(s, S) = KeepIn(s, S) /\ Digi!PlaceIn(s, S) = PlaceIn(s, S)
    /\ \A s, at : Digi!ElementsAt(s, at) = ElementsAt(s, at)
<1>1. \A s, at : Digi!ElementsAt(s, at) = ElementsAt(s, at)
  BY Zenon DEF Digi!ElementsAt, ElementsAt, Digi!Kth, Kth, Digi!Before, Before,
               Digi!Cardinality, Cardinality
<1>2. \A s, S : Digi!KeepIn(s, S) = KeepIn(s, S)
  BY <1>1 DEF Digi!KeepIn, KeepIn
<1>3. \A s, S : Digi!PlaceIn(s, S) = PlaceIn(s, S)
  BY Zenon DEF Digi!PlaceIn, PlaceIn, Digi!ToSet, ToSet, Digi!SelectInSeq, SelectInSeq,
               Digi!Min, Min
<1> QED BY <1>1, <1>2, <1>3

\* The invariant: "Next" steps through numbers of prints, from the one shown.
DigiShown ==
    /\ HasFields(dForm, {"name", "set", "number", "lastEdited"})
    /\ HasFields(dRing, {"nos", "pos"})
    /\ dRing.nos \in Seq(DigiNumbers) /\ dRing.pos \in Nat
    /\ Digi!NextStartsAtTheNumberShown

\* A ring of the prints of an answer holds numbers of prints, and is sought.
LEMMA DigiRingIsSought ==
    ASSUME NEW prints \in Seq(ToSet(DigiPrints)), NEW m
    PROVE  LET r == Digi!Ring(prints, m)
           IN  /\ HasFields(r, {"nos", "pos"})
               /\ r.nos \in Seq(DigiNumbers) /\ r.pos \in Nat
               /\ Normal[m] \in ToSet(r.nos) => r.nos[r.pos + 1] = Normal[m]
<1> DEFINE at == {n \in DOMAIN prints : \A k \in 1 .. n - 1 : prints[k].number # prints[n].number}
           once == ElementsAt(prints, at)
           nos == [i \in DOMAIN once |-> once[i].number]
<1>1. DOMAIN prints = 1 .. Len(prints) /\ at \in SUBSET (1 .. Len(prints))
  OBVIOUS
<1>2. Digi!Ring(prints, m) = [nos |-> nos, pos |-> PlaceIn(nos, {Normal[m]})]
  BY DigiFilters DEF Digi!Ring, Digi!FirstOfEach
<1> HIDE DEF at
<1>3. once \in Seq(ToSet(DigiPrints))
  BY <1>1, TakenInOrder
<1> HIDE DEF once
<1>4. nos \in Seq(DigiNumbers)
  <2>1. DOMAIN once = 1 .. Len(once) /\ Len(once) \in Nat
    BY <1>3
  <2>2. \A i \in 1 .. Len(once) : once[i].number \in DigiNumbers
    BY <1>3 DEF DigiNumbers
  <2> HIDE DEF nos
  <2>3. nos = [i \in 1 .. Len(once) |-> once[i].number]
    BY <2>1 DEF nos
  <2> QED BY <2>1, <2>2, <2>3
<1> HIDE DEF nos
<1>5. /\ PlaceIn(nos, {Normal[m]}) \in Nat
      /\ ToSet(nos) \cap {Normal[m]} # {} => nos[PlaceIn(nos, {Normal[m]}) + 1] \in {Normal[m]}
  BY <1>4, PlaceIsThere
<1> QED BY <1>2, <1>4, <1>5 DEF HasFields

\* The prints of an answer are upstream's.
LEMMA DigiAnswersArePrints ==
    ASSUME NEW j
    PROVE  Digi!Answer(j) \in Seq(ToSet(DigiPrints))
<1>1. DigiPrints \in Seq(ToSet(DigiPrints))
  BY DialogsAssumption DEF Digi!DigiDialogAssumption, Digi!ToSet, ToSet
<1> QED BY <1>1, DigiFilters, KeptWasThere DEF Digi!Answer

\* A ring that was cleared has no number.
LEMMA DigiClearedRing ==
    /\ HasFields(Digi!NoRing, {"nos", "pos"})
    /\ Digi!NoRing.nos \in Seq(DigiNumbers) /\ Digi!NoRing.pos \in Nat
    /\ \A m : m \notin ToSet(Digi!NoRing.nos)
<1>1. Digi!NoRing.nos = <<>>
  BY DEF Digi!NoRing
<1>2. ToSet(Digi!NoRing.nos) = {}
  BY <1>1 DEF ToSet
<1> QED BY <1>1, <1>2 DEF Digi!NoRing, HasFields

\* At first there is no ring.
LEMMA DigiInitShown ==
    ASSUME Digi!Init \/ Digi!Closed
    PROVE  DigiShown
<1>1. HasFields(dForm, {"name", "set", "number", "lastEdited"})
  BY DEF Digi!Init, Digi!Closed, Digi!InitCreate, Digi!InitEdit, Digi!NewForm, HasFields
<1>2. dRing = Digi!NoRing
  BY DEF Digi!Init, Digi!Closed
<1> QED BY <1>1, <1>2, DigiClearedRing DEF DigiShown, Digi!NextStartsAtTheNumberShown, Digi!ToSet, ToSet

\* The invariant, for every step of the dialog.
LEMMA DigiKeepsShown ==
    ASSUME DigiShown, Digi!Next
    PROVE  DigiShown'
<1> DEFINE F == {"name", "set", "number", "lastEdited"}
<1>0. HasFields(dForm, F) /\ HasFields(dRing, {"nos", "pos"})
  BY DEF DigiShown
<1>1. ASSUME NEW scheduled, Digi!ClearCachedPrintVariants(scheduled), HasFields(dForm', F)
      PROVE  DigiShown'
  <2>1. dRing' = Digi!NoRing
    BY <1>1 DEF Digi!ClearCachedPrintVariants
  <2>2. Normal[dForm'.number] \notin Digi!ToSet(dRing'.nos)
    BY <2>1, DigiClearedRing DEF Digi!ToSet, ToSet
  <2> QED BY <1>1, <2>1, <2>2, DigiClearedRing DEF DigiShown, Digi!NextStartsAtTheNumberShown
<1>2. ASSUME HasFields(dForm', F), dForm'.number = dForm.number, dRing' = dRing
      PROVE  DigiShown'
  BY <1>2 DEF DigiShown, Digi!NextStartsAtTheNumberShown
<1>3. ASSUME NEW n \in Names \cup {Blank}, Digi!EditName(n)
      PROVE  DigiShown'
  <2>1. HasFields(dForm', F)
    BY <1>0, <1>3 DEF Digi!EditName, HasFields
  <2> QED BY <1>1, <1>3, <2>1 DEF Digi!EditName
<1>4. ASSUME NEW no \in Typed, Digi!EditNumber(no)
      PROVE  DigiShown'
  <2>1. HasFields(dForm', F)
    BY <1>0, <1>4 DEF Digi!EditNumber, HasFields
  <2> QED BY <1>1, <1>4, <2>1 DEF Digi!EditNumber
<1>5. ASSUME NEW s \in DigiSets, Digi!OnSetSelectionChanged(s)
      PROVE  DigiShown'
  <2>1. HasFields(dForm', F)
    BY <1>0, <1>5 DEF Digi!OnSetSelectionChanged, HasFields
  <2> QED BY <1>1, <1>5, <2>1 DEF Digi!OnSetSelectionChanged
<1>6. ASSUME NEW s \in DigiSets, Digi!TypeSet(s)
      PROVE  DigiShown'
  <2>1. HasFields(dForm', F) /\ dForm'.number = dForm.number /\ dRing' = dRing
    BY <1>0, <1>6 DEF Digi!TypeSet, HasFields
  <2> QED BY <1>2, <2>1
<1>7. CASE Digi!ReadControls \/ Digi!Close \/ Digi!AutoDetectFromApi
  BY <1>0, <1>2, <1>7 DEF Digi!ReadControls, Digi!Close, Digi!AutoDetectFromApi
<1>8. CASE Digi!OnNextSetNo
  <2> DEFINE i == (dRing.pos + 1) % Len(dRing.nos)
  <2>1. Len(dRing.nos) \in Nat /\ Len(dRing.nos) > 1 /\ dRing.pos \in Nat
    BY <1>8 DEF Digi!OnNextSetNo, DigiShown
  <2>2. i \in Nat /\ i + 1 \in 1 .. Len(dRing.nos)
    BY <2>1
  <2>3. dRing' = [dRing EXCEPT !.pos = i] /\ dForm' = [dForm EXCEPT !.number = dRing.nos[i + 1]]
    BY <1>8 DEF Digi!OnNextSetNo
  <2> HIDE DEF i
  <2>4. /\ HasFields(dRing', {"nos", "pos"}) /\ dRing'.pos = i /\ dRing'.nos = dRing.nos
        /\ HasFields(dForm', F) /\ dForm'.number = dRing.nos[i + 1]
    BY <1>0, <2>3 DEF HasFields
  <2>5. PICK p \in ToSet(DigiPrints) : dRing.nos[i + 1] = p.number
    BY <2>2 DEF DigiShown, DigiNumbers
  <2>6. Normal[p.number] = p.number
    BY DialogsAssumption DEF Digi!DigiDialogAssumption, Digi!ToSet, ToSet
  <2> QED BY <2>2, <2>4, <2>5, <2>6 DEF DigiShown, Digi!NextStartsAtTheNumberShown
<1>9. ASSUME NEW j \in dJobs, Digi!RunPrefetch(j) \/ Digi!Lookup(j)
      PROVE  DigiShown'
  BY <1>0, <1>2, <1>9 DEF Digi!RunPrefetch, Digi!Lookup
<1>10. ASSUME NEW j \in dJobs, Digi!RunAnswer(j)
       PROVE  DigiShown'
  <2>1. CASE Digi!ApplyPrints(j)
    <3>1. HasFields(dForm', F)
      BY <1>0, <2>1 DEF Digi!ApplyPrints, HasFields
    <3>2. dRing' = Digi!Ring(Digi!Answer(j), dForm'.number)
      BY <2>1 DEF Digi!ApplyPrints
    <3> DEFINE m == dForm'.number
               answer == Digi!Answer(j)
    <3>3. answer \in Seq(ToSet(DigiPrints))
      BY DigiAnswersArePrints
    <3>4. dRing' = Digi!Ring(answer, m)
      BY <3>2
    <3> HIDE DEF answer
    <3>5. /\ HasFields(dRing', {"nos", "pos"})
          /\ dRing'.nos \in Seq(DigiNumbers) /\ dRing'.pos \in Nat
          /\ Normal[m] \in ToSet(dRing'.nos) => dRing'.nos[dRing'.pos + 1] = Normal[m]
      BY <3>3, <3>4, DigiRingIsSought
    <3>6. Digi!NextStartsAtTheNumberShown'
      BY <3>5 DEF Digi!NextStartsAtTheNumberShown, Digi!ToSet, ToSet
    <3> QED BY <3>1, <3>5, <3>6 DEF DigiShown
  <2>2. CASE UNCHANGED <<dForm, dRing>>
    BY <1>0, <1>2, <2>2
  <2> QED BY <1>10, <2>1, <2>2 DEF Digi!RunAnswer
<1> QED BY <1>3, <1>4, <1>5, <1>6, <1>7, <1>8, <1>9, <1>10 DEF Digi!Next, Digi!Edit

-----------------------------------------------------------------------------
\* Bandai and Yu-Gi-Oh!: the sets that lookups ask for.

\* Every lookup that was started asks for one of the sets S.
AsksFor(j, S) ==
    /\ "stage" \in DOMAIN j /\ "set" \in DOMAIN j
    /\ j.stage # "scheduled" => j.set \in S

AllAskFor(js, S) == \A j \in js : AsksFor(j, S)

\* Overtaking a job does not change what it asks for,
LEMMA OvertakenStillAsks ==
    ASSUME NEW S, NEW js, AllAskFor(js, S), NEW new, AllAskFor(new, S)
    PROVE  AllAskFor({[j EXCEPT !.late = TRUE] : j \in js} \cup new, S)
<1>1. ASSUME NEW j \in js
      PROVE  AsksFor([j EXCEPT !.late = TRUE], S)
  <2> DEFINE k == [j EXCEPT !.late = TRUE]
  <2>1. AsksFor(j, S)
    BY DEF AllAskFor
  <2>2. DOMAIN k = DOMAIN j
    BY Zenon
  <2>3. k.stage = j.stage
    BY <2>1, Zenon DEF AsksFor
  <2>4. k.set = j.set
    BY <2>1, Zenon DEF AsksFor
  <2> HIDE DEF k
  <2>5. AsksFor(k, S)
    BY <2>1, <2>2, <2>3, <2>4 DEF AsksFor
  <2> QED BY <2>5 DEF k
<1> QED BY <1>1 DEF AllAskFor

\* and neither does an answer.
LEMMA AnsweredStillAsks ==
    ASSUME NEW S, NEW js, AllAskFor(js, S), NEW j \in js, j.stage = "lookup", NEW f
    PROVE  AllAskFor((js \ {j}) \cup {[j EXCEPT !.stage = "answered", !.found = f]}, S)
<1> DEFINE k == [j EXCEPT !.stage = "answered", !.found = f]
<1>1. AsksFor(j, S)
  BY DEF AllAskFor
<1>2. DOMAIN k = DOMAIN j
  BY Zenon
<1>3. k.set = j.set
  BY <1>1, Zenon DEF AsksFor
<1> HIDE DEF k
<1>4. j.set \in S
  BY <1>1 DEF AsksFor
<1>5. AsksFor(k, S)
  BY <1>1, <1>2, <1>3, <1>4 DEF AsksFor
<1>6. AllAskFor((js \ {j}) \cup {k}, S)
  BY <1>5 DEF AllAskFor
<1> QED BY <1>6 DEF k

-----------------------------------------------------------------------------
\* Bandai: the ring of whole prints.

BandaiAll == UNION {ToSet(BandaiPrints[s]) : s \in BandaiSets \cup {NoSet}}

\* The copies of Filtering's operators in the Bandai dialog are those of Filtering.
LEMMA BandaiFilters == \A s, S : Bandai!KeepIn(s, S) = KeepIn(s, S)
<1>1. \A s, at : Bandai!ElementsAt(s, at) = ElementsAt(s, at)
  BY Zenon DEF Bandai!ElementsAt, ElementsAt, Bandai!Kth, Kth, Bandai!Before, Before,
               Bandai!Cardinality, Cardinality
<1> QED BY <1>1 DEF Bandai!KeepIn, KeepIn

\* The controls are in range: a print of an unknown set leaves the set.
BandaiControls(f) ==
    /\ HasFields(f, {"name", "set", "number", "rarity", "language", "lastEdited"})
    /\ f.set \in BandaiSets

BandaiRecord(r) == HasFields(r, {"name", "set"}) /\ r.set \in BandaiSets \cup {NoSet}

BandaiRing(r) ==
    /\ HasFields(r, {"variants", "pos"})
    /\ r.variants \in Seq(BandaiAll) /\ r.pos \in Nat
    /\ r.variants # <<>> => r.pos < Len(r.variants)

\* Whose name and whose number are shown.
ShowsName(f, r) ==
    LET p == r.variants[r.pos + 1] IN p.name # Blank => f.name = p.name
ShowsNumber(f, r) ==
    \A i \in Bandai!Numbered(r) : (\A k \in Bandai!Numbered(r) : k <= i) =>
        f.number = r.variants[i].number
Shows(f, r) == r.variants # <<>> => ShowsName(f, r) /\ ShowsNumber(f, r)

\* The invariant: "Next" steps through prints of the listings, from the one shown.
BandaiShown ==
    /\ BandaiControls(bForm) /\ BandaiRecord(bRecord) /\ BandaiRing(bRing)
    /\ AllAskFor(bJobs, BandaiSets \cup {NoSet})
    /\ Shows(bForm, bRing)

\* A listing is a sequence of its own prints.
LEMMA BandaiAnswersArePrints ==
    ASSUME NEW j, j.set \in BandaiSets \cup {NoSet}
    PROVE  Bandai!Answer(j) \in Seq(BandaiAll)
<1> DEFINE prints == BandaiPrints[j.set]
<1>1. prints \in Seq(ToSet(prints))
  BY DialogsAssumption DEF Bandai!BandaiDialogAssumption, Bandai!ToSet, ToSet
<1>2. ToSet(prints) \subseteq BandaiAll
  BY DEF BandaiAll
<1> HIDE DEF prints
<1>3. prints \in Seq(BandaiAll)
  BY <1>1, <1>2
<1> QED BY <1>3, BandaiFilters, KeptWasThere DEF Bandai!Answer, prints

\* A cleared ring shows nothing.
LEMMA BandaiClearedRing == BandaiRing(Bandai!NoRing) /\ \A f : Shows(f, Bandai!NoRing)
<1>1. Bandai!NoRing.variants = <<>> /\ Bandai!NoRing.pos = 0
  BY DEF Bandai!NoRing
<1>2. HasFields(Bandai!NoRing, {"variants", "pos"})
  BY DEF Bandai!NoRing, HasFields
<1> QED BY <1>1, <1>2 DEF BandaiRing, Shows

\* What the print has is shown afterwards; a number it does not have stays.
Takes(g, f, p) ==
    /\ p.name # Blank => g.name = p.name
    /\ g.number = IF p.number = "" THEN f.number ELSE p.number

LEMMA BandaiApplied ==
    ASSUME NEW f, BandaiControls(f), NEW p
    PROVE  BandaiControls(Bandai!AppliedTo(f, p)) /\ Takes(Bandai!AppliedTo(f, p), f, p)
<1> DEFINE F == {"name", "set", "number", "rarity", "language", "lastEdited"}
           g == Bandai!ApplyRarity(f, p.rarity)
           h == Bandai!AppliedTo(f, p)
<1>1. HasFields(g, F) /\ g.set = f.set /\ g.number = f.number
  BY DEF Bandai!ApplyRarity, HasFields, BandaiControls
<1>2. h = [g EXCEPT !.name = IF p.name = Blank THEN @ ELSE p.name,
                    !.number = IF p.number = "" THEN @ ELSE p.number,
                    !.language = IF p.language \in BandaiLanguages THEN p.language ELSE @,
                    !.set = IF p.set \in BandaiSets THEN p.set ELSE @]
  BY DEF Bandai!AppliedTo
<1> HIDE DEF g, h
<1>3. HasFields(h, F)
  BY <1>1, <1>2 DEF HasFields
<1>4. /\ h.name = IF p.name = Blank THEN g.name ELSE p.name
      /\ h.number = IF p.number = "" THEN g.number ELSE p.number
      /\ h.set = IF p.set \in BandaiSets THEN p.set ELSE g.set
  BY <1>1, <1>2 DEF HasFields
<1>5. BandaiControls(h) /\ Takes(h, f, p)
  BY <1>1, <1>3, <1>4 DEF BandaiControls, Takes
<1> QED BY <1>5 DEF h

\* The record is in range afterwards.
LEMMA BandaiRecordApplied ==
    ASSUME BandaiControls(bForm), BandaiRecord(bRecord), NEW p, Bandai!ApplyDetectedPrint(p)
    PROVE  BandaiControls(bForm') /\ BandaiRecord(bRecord') /\ Takes(bForm', bForm, p)
<1>1. BandaiRecord(bRecord')
  BY DEF Bandai!ApplyDetectedPrint, BandaiRecord, HasFields
<1> QED BY <1>1, BandaiApplied DEF Bandai!ApplyDetectedPrint

\* The first print of an answer.
LEMMA FirstPrintShows ==
    ASSUME NEW f, NEW g, NEW r, r.variants # <<>>, r.pos = 0, Takes(g, f, r.variants[1])
    PROVE  Shows(g, r)
<1>0. r.pos + 1 = 1
  OBVIOUS
<1>1. ShowsName(g, r)
  BY <1>0 DEF ShowsName, Takes
<1>2. \A i \in Bandai!Numbered(r) : i = 1 /\ r.variants[i].number # ""
  <2>1. \A i \in 1 .. 1 : i = 1
    OBVIOUS
  <2> QED BY <1>0, <2>1 DEF Bandai!Numbered
<1> QED BY <1>1, <1>2 DEF Shows, ShowsNumber, Takes

\* The next print: its number becomes the nearest, or the one shown stays it.
LEMMA NextPrintShows ==
    ASSUME NEW f, NEW g, NEW r, NEW q, r.variants # <<>>, r.pos \in Nat, Shows(f, r),
           q.variants = r.variants, q.pos = r.pos + 1, Takes(g, f, r.variants[r.pos + 2])
    PROVE  Shows(g, q)
<1> DEFINE p == r.variants[r.pos + 2]
<1>1. q.variants[q.pos + 1] = p /\ q.pos + 1 = r.pos + 2
  OBVIOUS
<1>2. ShowsName(g, q)
  BY <1>1 DEF ShowsName, Takes
<1>3. ASSUME p.number # ""
      PROVE  ShowsNumber(g, q)
  <2>0. /\ r.pos + 2 \in 1 .. (q.pos + 1)
        /\ \A i \in 1 .. (q.pos + 1) : i \in Nat /\ i <= r.pos + 2
    BY <1>1
  <2>1. r.pos + 2 \in Bandai!Numbered(q)
    BY <1>3, <2>0 DEF Bandai!Numbered
  <2>2. \A i \in Bandai!Numbered(q) : i \in Nat /\ i <= r.pos + 2
    BY <2>0 DEF Bandai!Numbered
  <2>3. \A i \in Bandai!Numbered(q) : (\A k \in Bandai!Numbered(q) : k <= i) => i = r.pos + 2
    BY <2>1, <2>2
  <2> QED BY <1>1, <1>3, <2>3 DEF ShowsNumber, Takes
<1>4. ASSUME p.number = ""
      PROVE  ShowsNumber(g, q)
  <2>0. 1 .. (q.pos + 1) = (1 .. (r.pos + 1)) \cup {r.pos + 2}
    BY <1>1
  <2>1. Bandai!Numbered(q) = Bandai!Numbered(r)
    BY <1>4, <2>0 DEF Bandai!Numbered
  <2>2. g.number = f.number
    BY <1>4 DEF Takes
  <2> QED BY <2>1, <2>2 DEF Shows, ShowsNumber
<1> QED BY <1>2, <1>3, <1>4 DEF Shows

\* What is read from the controls is in range, too.
LEMMA BandaiWritten == ASSUME NEW f, BandaiControls(f) PROVE BandaiRecord(Bandai!Written(f))
BY DEF Bandai!Written, BandaiControls, BandaiRecord, HasFields

\* Saving shows the number in its normal form: that of a print is in it.
LEMMA BandaiValidatedShows ==
    ASSUME BandaiShown
    PROVE  BandaiControls(Bandai!Validated(bForm)) /\ Shows(Bandai!Validated(bForm), bRing)
<1> DEFINE v == Bandai!Validated(bForm)
<1>1. /\ BandaiControls(v) /\ v.name = bForm.name
      /\ v.number = bForm.number \/ v.number = Normal[bForm.number]
  BY DEF BandaiShown, Bandai!Validated, BandaiControls, HasFields
<1> HIDE DEF v
<1>2. ASSUME bRing.variants # <<>>, NEW i \in Bandai!Numbered(bRing),
             \A k \in Bandai!Numbered(bRing) : k <= i
      PROVE  v.number = bRing.variants[i].number
  <2> DEFINE p == bRing.variants[i]
  <2>1. bForm.number = p.number
    BY <1>2 DEF BandaiShown, Shows, ShowsNumber
  <2>2. p \in BandaiAll
    <3>1. i \in 1 .. (bRing.pos + 1)
      BY <1>2 DEF Bandai!Numbered
    <3>2. /\ Len(bRing.variants) \in Nat /\ bRing.pos \in Nat
          /\ bRing.pos < Len(bRing.variants) /\ bRing.variants \in Seq(BandaiAll)
      BY <1>2 DEF BandaiShown, BandaiRing
    <3>3. i \in 1 .. Len(bRing.variants)
      BY <3>1, <3>2
    <3> QED BY <3>2, <3>3
  <2>3. Normal[p.number] = p.number
    <3>1. PICK s \in BandaiSets \cup {NoSet} : p \in ToSet(BandaiPrints[s])
      BY <2>2 DEF BandaiAll
    <3>2. s \in DOMAIN BandaiPrints /\ p \in Bandai!ToSet(BandaiPrints[s])
      BY <3>1, DialogsAssumption DEF Bandai!BandaiDialogAssumption, Bandai!ToSet, ToSet
    <3> HIDE DEF p
    <3> QED BY <3>2, DialogsAssumption DEF Bandai!BandaiDialogAssumption
  <2> HIDE DEF p
  <2>4. v.number = p.number
    BY <1>1, <2>1, <2>3
  <2> QED BY <2>4 DEF p
<1>3. bRing.variants # <<>> => ShowsName(v, bRing)
  BY <1>1 DEF BandaiShown, Shows, ShowsName
<1>4. Shows(v, bRing)
  BY <1>2, <1>3 DEF Shows, ShowsNumber
<1> QED BY <1>1, <1>4 DEF v

\* A request asks for the set it names.
LEMMA BandaiRequestAsks ==
    ASSUME NEW S, AllAskFor(bJobs, S), NEW k, NEW s \in S, NEW n, NEW m, Bandai!Request(k, s, n, m)
    PROVE  AllAskFor(bJobs', S)
<1>1. PICK i : bJobs' \subseteq bJobs \cup
                 {[stage |-> "lookup", kind |-> k, nth |-> i, epoch |-> bEpoch, set |-> s,
                   name |-> n, number |-> m, late |-> FALSE, found |-> FALSE]}
  BY DEF Bandai!Request
<1> DEFINE new == [stage |-> "lookup", kind |-> k, nth |-> i, epoch |-> bEpoch, set |-> s,
                   name |-> n, number |-> m, late |-> FALSE, found |-> FALSE]
<1>2. AsksFor(new, S)
  BY DEF AsksFor
<1>3. bJobs' \subseteq bJobs \cup {new}
  BY <1>1
<1> HIDE DEF new
<1> QED BY <1>2, <1>3 DEF AllAskFor

\* What is only scheduled asks for nothing yet.
LEMMA BandaiPrefetchAsks == \A e, S : AsksFor(Bandai!Prefetch(e), S)
BY DEF AsksFor, Bandai!Prefetch

\* At first there is no ring.
LEMMA BandaiInitShown ==
    ASSUME Bandai!Init \/ Bandai!Closed
    PROVE  BandaiShown
<1> DEFINE F == {"name", "set", "number", "rarity", "language", "lastEdited"}
           new == Bandai!NewForm
           none == [name |-> Blank, set |-> NoSet]
<1>1. BandaiControls(new)
  <2>1. FirstBandaiSet \in BandaiSets
    BY DialogsAssumption DEF Bandai!BandaiDialogAssumption
  <2> QED BY <2>1 DEF BandaiControls, HasFields, Bandai!NewForm
<1>2. BandaiRecord(none)
  BY DEF BandaiRecord, HasFields
<1> HIDE DEF new, none
<1>3. bRing = Bandai!NoRing
  BY DEF Bandai!Init, Bandai!Closed
<1>4. /\ BandaiControls(bForm) /\ BandaiRecord(bRecord)
      /\ bJobs \subseteq {Bandai!Prefetch(0)}
  <2>1. CASE Bandai!InitCreate \/ Bandai!Closed
    BY <1>1, <1>2, <2>1 DEF Bandai!InitCreate, Bandai!Closed, new, none
  <2>2. CASE Bandai!InitEdit
    <3>1. PICK n \in Names, s \in BandaiSets, no \in Typed, r \in BandaiRarities :
            /\ bForm = [new EXCEPT !.name = n, !.set = s, !.number = no, !.rarity = r]
            /\ bRecord = [name |-> n, set |-> s]
            /\ bJobs = {Bandai!Prefetch(0)}
      BY <2>2 DEF Bandai!InitEdit, new
    <3>2. BandaiControls(bForm)
      BY <1>1, <3>1 DEF BandaiControls, HasFields
    <3>3. BandaiRecord(bRecord)
      BY <3>1 DEF BandaiRecord, HasFields
    <3> QED BY <3>1, <3>2, <3>3
  <2> QED BY <2>1, <2>2 DEF Bandai!Init
<1>5. AllAskFor(bJobs, BandaiSets \cup {NoSet})
  BY <1>4, BandaiPrefetchAsks DEF AllAskFor
<1> QED BY <1>3, <1>4, <1>5, BandaiClearedRing DEF BandaiShown

\* The invariant, for every step of the dialog.
LEMMA BandaiKeepsShown ==
    ASSUME BandaiShown, Bandai!Next
    PROVE  BandaiShown'
<1> DEFINE S == BandaiSets \cup {NoSet}
<1>0. BandaiControls(bForm) /\ BandaiRecord(bRecord) /\ BandaiRing(bRing) /\ AllAskFor(bJobs, S)
  BY DEF BandaiShown
<1>1. ASSUME NEW scheduled, Bandai!ClearCachedPrintVariants(scheduled),
             scheduled \subseteq {Bandai!Prefetch(bEpoch + 1)},
             BandaiControls(bForm'), bRecord' = bRecord
      PROVE  BandaiShown'
  <2>1. AllAskFor(scheduled, S)
    BY <1>1, BandaiPrefetchAsks DEF AllAskFor
  <2>2. AllAskFor(bJobs', S) /\ bRing' = Bandai!NoRing
    BY <1>0, <1>1, <2>1, OvertakenStillAsks DEF Bandai!ClearCachedPrintVariants, Bandai!Overtaken
  <2> QED BY <1>0, <1>1, <2>2, BandaiClearedRing DEF BandaiShown
<1>2. ASSUME UNCHANGED <<bForm, bRing>>, BandaiRecord(bRecord'), AllAskFor(bJobs', S)
      PROVE  BandaiShown'
  BY <1>2 DEF BandaiShown, BandaiControls, BandaiRing, Shows, ShowsName, ShowsNumber
<1>3. ASSUME NEW n \in Names \cup {Blank}, Bandai!EditName(n)
      PROVE  BandaiShown'
  <2>1. BandaiControls(bForm')
    BY <1>0, <1>3 DEF Bandai!EditName, BandaiControls, HasFields
  <2> QED BY <1>1, <1>3, <2>1 DEF Bandai!EditName
<1>4. ASSUME NEW no \in Typed, Bandai!EditNumber(no)
      PROVE  BandaiShown'
  <2>1. BandaiControls(bForm')
    BY <1>0, <1>4 DEF Bandai!EditNumber, BandaiControls, HasFields
  <2> QED BY <1>1, <1>4, <2>1 DEF Bandai!EditNumber
<1>5. ASSUME NEW s \in BandaiSets, Bandai!OnSetSelectionChanged(s)
      PROVE  BandaiShown'
  <2>1. BandaiControls(bForm')
    BY <1>0, <1>5 DEF Bandai!OnSetSelectionChanged, BandaiControls, HasFields
  <2> QED BY <1>1, <1>5, <2>1 DEF Bandai!OnSetSelectionChanged
<1>6. ASSUME BandaiControls(bForm'), bForm'.name = bForm.name, bForm'.number = bForm.number,
             UNCHANGED <<bRecord, bRing, bJobs>>
      PROVE  BandaiShown'
  BY <1>0, <1>6 DEF BandaiShown, Shows, ShowsName, ShowsNumber
<1>7. ASSUME NEW s \in BandaiSets, Bandai!TypeSet(s)
      PROVE  BandaiShown'
  <2>1. BandaiControls(bForm') /\ bForm'.name = bForm.name /\ bForm'.number = bForm.number
    BY <1>0, <1>7 DEF Bandai!TypeSet, BandaiControls, HasFields
  <2> QED BY <1>6, <1>7, <2>1 DEF Bandai!TypeSet
<1>8. CASE Bandai!Choose
  <2>1. BandaiControls(bForm') /\ bForm'.name = bForm.name /\ bForm'.number = bForm.number
    BY <1>0, <1>8 DEF Bandai!Choose, Bandai!ApplyRarity, BandaiControls, HasFields
  <2> QED BY <1>6, <1>8, <2>1 DEF Bandai!Choose
<1>9. CASE Bandai!ReadControls \/ Bandai!Close
  <2>1. /\ bForm' \in {bForm, Bandai!Validated(bForm)}
        /\ bRecord' \in {bRecord, Bandai!Written(bForm)}
        /\ UNCHANGED <<bRing, bJobs>>
    BY <1>9 DEF Bandai!ReadControls, Bandai!Close
  <2>2. BandaiRecord(bRecord')
    BY <1>0, <2>1, BandaiWritten
  <2>3. BandaiControls(bForm') /\ Shows(bForm', bRing)
    BY <2>1, BandaiValidatedShows DEF BandaiShown
  <2> QED BY <1>0, <2>1, <2>2, <2>3 DEF BandaiShown
<1>10. CASE Bandai!OnNextSetNo
  <2> DEFINE i == (bRing.pos + 1) % Len(bRing.variants)
             p == bRing.variants[i + 1]
  <2>1. Len(bRing.variants) \in Nat /\ Len(bRing.variants) > 1 /\ bRing.pos \in Nat
    BY <1>0, <1>10 DEF Bandai!OnNextSetNo, BandaiRing
  <2>2. i \in Nat /\ i < Len(bRing.variants)
    BY <2>1
  <2>3. /\ bRing' = [bRing EXCEPT !.pos = i] /\ Bandai!ApplyDetectedPrint(p)
        /\ UNCHANGED bJobs
    BY <1>10 DEF Bandai!OnNextSetNo
  <2>4. BandaiControls(bForm') /\ BandaiRecord(bRecord') /\ Takes(bForm', bForm, p)
    BY <1>0, <2>3, BandaiRecordApplied
  <2>a. i = bRing.pos + 1 \/ i = 0
    BY <1>0, <2>1 DEF BandaiRing
  <2> HIDE DEF i
  <2>5. HasFields(bRing', {"variants", "pos"}) /\ bRing'.variants = bRing.variants /\ bRing'.pos = i
    BY <1>0, <2>3 DEF BandaiRing, HasFields
  <2>6. BandaiRing(bRing')
    BY <1>0, <2>2, <2>5 DEF BandaiRing
  <2>7. bRing.variants # <<>>
    BY <2>1
  <2>8. ASSUME i = 0
        PROVE  Shows(bForm', bRing')
    <3>1. p = bRing'.variants[1] /\ bRing'.variants # <<>> /\ bRing'.pos = 0
      BY <2>5, <2>7, <2>8
    <3> QED BY <2>4, <3>1, FirstPrintShows
  <2>9. ASSUME i = bRing.pos + 1
        PROVE  Shows(bForm', bRing')
    <3>1. p = bRing.variants[bRing.pos + 2]
      BY <2>1, <2>9
    <3>2. Takes(bForm', bForm, bRing.variants[bRing.pos + 2])
      BY <2>4, <3>1
    <3>3. bRing'.variants = bRing.variants /\ bRing'.pos = bRing.pos + 1
      BY <2>5, <2>9
    <3>4. Shows(bForm, bRing)
      BY DEF BandaiShown
    <3> QED BY <2>1, <2>7, <3>2, <3>3, <3>4, NextPrintShows
  <2>10. Shows(bForm', bRing')
    BY <2>a, <2>8, <2>9
  <2> QED BY <1>0, <2>3, <2>4, <2>6, <2>10 DEF BandaiShown
<1>11. CASE Bandai!OnAutoDetectBySetNo \/ Bandai!OnAutoDetectByName
  <2>1. PICK k, n, m : Bandai!Request(k, bForm.set, n, m)
    BY <1>11 DEF Bandai!OnAutoDetectBySetNo, Bandai!OnAutoDetectByName
  <2>2. bForm.set \in S
    BY <1>0 DEF BandaiControls
  <2>3. AllAskFor(bJobs', S)
    BY <1>0, <2>1, <2>2, BandaiRequestAsks
  <2>4. bRecord' = Bandai!Written(bForm) /\ UNCHANGED <<bForm, bRing>>
    BY <1>11 DEF Bandai!OnAutoDetectBySetNo, Bandai!OnAutoDetectByName
  <2> QED BY <1>0, <1>2, <2>3, <2>4, BandaiWritten
<1>12. ASSUME NEW j \in bJobs, Bandai!RunPrefetch(j)
       PROVE  BandaiShown'
  <2>1. bRecord.set \in S
    BY <1>0 DEF BandaiRecord
  <2>2. bJobs' = bJobs \ {j} \/ Bandai!Request("silent", bRecord.set, bRecord.name, "")
    BY <1>12 DEF Bandai!RunPrefetch
  <2>3. AllAskFor(bJobs \ {j}, S)
    BY <1>0 DEF AllAskFor
  <2>4. AllAskFor(bJobs', S)
    BY <1>0, <2>1, <2>2, <2>3, BandaiRequestAsks
  <2> QED BY <1>0, <1>2, <1>12, <2>4 DEF Bandai!RunPrefetch
<1>13. ASSUME NEW j \in bJobs, Bandai!Lookup(j)
       PROVE  BandaiShown'
  <2>1. PICK f : bJobs' = (bJobs \ {j}) \cup {[j EXCEPT !.stage = "answered", !.found = f]}
    BY <1>13 DEF Bandai!Lookup
  <2>2. j.stage = "lookup" /\ UNCHANGED <<bForm, bRing, bRecord>>
    BY <1>13 DEF Bandai!Lookup
  <2>3. AllAskFor(bJobs', S)
    BY <1>0, <2>1, <2>2, AnsweredStillAsks
  <2> QED BY <1>0, <1>2, <2>2, <2>3
<1>14. ASSUME NEW j \in bJobs, Bandai!RunAnswer(j)
       PROVE  BandaiShown'
  <2>1. AllAskFor(bJobs', S)
    BY <1>0, <1>14 DEF AllAskFor, Bandai!RunAnswer
  <2>2. CASE Bandai!ApplyPrints(j)
    <3>1. j.set \in S
      BY <1>0, <1>14 DEF AllAskFor, AsksFor, Bandai!RunAnswer
    <3> DEFINE answer == Bandai!Answer(j)
    <3>2. answer \in Seq(BandaiAll)
      BY <3>1, BandaiAnswersArePrints
    <3>3. bRing' = [variants |-> answer, pos |-> 0] /\ Bandai!ApplyDetectedPrint(answer[1])
      BY <2>2 DEF Bandai!ApplyPrints
    <3> HIDE DEF answer
    <3>4. /\ BandaiControls(bForm') /\ BandaiRecord(bRecord')
          /\ Takes(bForm', bForm, answer[1])
      BY <1>0, <3>3, BandaiRecordApplied
    <3>5. BandaiRing(bRing')
      BY <3>2, <3>3 DEF BandaiRing, HasFields
    <3>6. bRing'.variants = answer /\ bRing'.pos = 0
      BY <3>3
    <3>7. Shows(bForm', bRing')
      BY <3>4, <3>6, FirstPrintShows DEF Shows
    <3> QED BY <2>1, <3>4, <3>5, <3>7 DEF BandaiShown
  <2>3. CASE UNCHANGED <<bForm, bRecord, bRing>>
    BY <1>0, <1>2, <2>1, <2>3
  <2> QED BY <1>14, <2>2, <2>3 DEF Bandai!RunAnswer
<1> QED BY <1>3, <1>4, <1>5, <1>7, <1>8, <1>9, <1>10, <1>11, <1>12, <1>13, <1>14
        DEF Bandai!Next, Bandai!Edit

-----------------------------------------------------------------------------
\* Yu-Gi-Oh!: the two rings.

YgoFields == {"name", "set", "number", "rarity", "language", "lastEdited", "typed"}

YgoAll == UNION {ToSet(Printings[s]) : s \in YgoSets}

\* The copies of Filtering's operators in the Yu-Gi-Oh! dialog are those of Filtering.
LEMMA YgoFilters ==
    /\ \A s, at : Ygo!ElementsAt(s, at) = ElementsAt(s, at)
    /\ \A s, S : Ygo!KeepIn(s, S) = KeepIn(s, S) /\ Ygo!PlaceIn(s, S) = PlaceIn(s, S)
<1>1. \A s, at : Ygo!ElementsAt(s, at) = ElementsAt(s, at)
  BY Zenon DEF Ygo!ElementsAt, ElementsAt, Ygo!Kth, Kth, Ygo!Before, Before,
               Ygo!Cardinality, Cardinality
<1>2. \A s, S : Ygo!KeepIn(s, S) = KeepIn(s, S)
  BY <1>1 DEF Ygo!KeepIn, KeepIn
<1>3. \A s, S : Ygo!PlaceIn(s, S) = PlaceIn(s, S)
  BY Zenon DEF Ygo!PlaceIn, PlaceIn, Ygo!ToSet, ToSet, Ygo!SelectInSeq, SelectInSeq,
               Ygo!Min, Min
<1> QED BY <1>1, <1>2, <1>3

\* The set list, what upstream lists of a set, and the sequences of those prints.
LEMMA YgoListings == \A s \in YgoSets : Printings[s] \in Seq(YgoAll)
<1>1. TAKE s \in YgoSets
<1> DEFINE prints == Printings[s]
<1>2. PICK X : prints \in Seq(X)
  BY DialogsAssumption DEF Ygo!YgoDialogAssumption
<1>3. ToSet(prints) \subseteq YgoAll
  BY DEF YgoAll
<1> HIDE DEF prints
<1>4. prints \in Seq(ToSet(prints))
  BY <1>2 DEF ToSet
<1>5. prints \in Seq(YgoAll)
  BY <1>3, <1>4
<1> QED BY <1>5 DEF prints

\* A field of the elements of a sequence makes a sequence.
LEMMA CodesMakeASequence ==
    ASSUME NEW X, NEW s \in Seq(X)
    PROVE  [i \in DOMAIN s |-> s[i].code] \in Seq({p.code : p \in X})
<1> DEFINE C == {p.code : p \in X}
<1>1. DOMAIN s = 1 .. Len(s) /\ Len(s) \in Nat /\ \A i \in 1 .. Len(s) : s[i].code \in C
  OBVIOUS
<1> HIDE DEF C
<1>2. [i \in 1 .. Len(s) |-> s[i].code] \in Seq(C)
  BY <1>1
<1> QED BY <1>1, <1>2 DEF C

\* The codes of some prints are those of prints.
LEMMA YgoCodes ==
    ASSUME NEW prints \in Seq(YgoAll)
    PROVE  Ygo!CodesOf(prints) \in Seq({p.code : p \in YgoAll})
<1> DEFINE numbered == Ygo!KeepIn(prints, {p \in Ygo!ToSet(prints) : p.code.no # <<>>})
           at == {n \in DOMAIN numbered : \A m \in 1 .. n - 1 :
                     <<numbered[m].code.set, numbered[m].code.no>> #
                     <<numbered[n].code.set, numbered[n].code.no>>}
           once == Ygo!ElementsAt(numbered, at)
<1>1. Ygo!CodesOf(prints) = [i \in DOMAIN once |-> once[i].code]
  BY DEF Ygo!CodesOf, Ygo!FirstOfEach
<1>2. numbered \in Seq(YgoAll)
  BY YgoFilters, KeptWasThere
<1> HIDE DEF numbered
<1>3. at \in SUBSET (1 .. Len(numbered))
  BY <1>2
<1> HIDE DEF at
<1>4. once \in Seq(YgoAll)
  BY <1>2, <1>3, YgoFilters, TakenInOrder
<1> HIDE DEF once
<1> QED BY <1>1, <1>4, CodesMakeASequence

\* The rarities are those listed for the code.
LEMMA YgoRaritiesAreListed ==
    ASSUME NEW prints \in Seq(YgoAll), NEW full
    PROVE  \A r \in ToSet(Ygo!RaritiesOf(prints, full)) :
              \E p \in ToSet(prints) : p.rarity = r /\ p.code.no = full.no
<1> DEFINE S == {p \in Ygo!ToSet(prints) : p.rarity # "" /\ Ygo!SlotsMatch(p.code, full)}
           listed == Ygo!KeepIn(prints, S)
           at == {n \in DOMAIN listed : \A m \in 1 .. n - 1 : listed[m].rarity # listed[n].rarity}
           once == Ygo!ElementsAt(listed, at)
<1>1. Ygo!RaritiesOf(prints, full) = [i \in DOMAIN once |-> once[i].rarity]
  BY DEF Ygo!RaritiesOf, Ygo!FirstOfEach
<1>2. /\ listed \in Seq(YgoAll)
      /\ \A i \in 1 .. Len(listed) : listed[i] \in S
  BY YgoFilters, KeptWasThere
<1>3. \A p \in S : p \in ToSet(prints) /\ p.code.no = full.no
  BY DEF Ygo!ToSet, ToSet, Ygo!SlotsMatch
<1> HIDE DEF listed, S
<1>4. listed \in Seq(S)
  BY <1>2
<1>5. at \in SUBSET (1 .. Len(listed))
  BY <1>4
<1> HIDE DEF at
<1>6. once \in Seq(S)
  BY <1>4, <1>5, YgoFilters, TakenInOrder
<1> HIDE DEF once
<1>7. ASSUME NEW r \in ToSet(Ygo!RaritiesOf(prints, full))
      PROVE  \E p \in ToSet(prints) : p.rarity = r /\ p.code.no = full.no
  <2>1. PICK i \in DOMAIN once : r = once[i].rarity
    BY <1>1, <1>7 DEF ToSet
  <2>2. once[i] \in S
    BY <1>6
  <2> QED BY <1>3, <2>1, <2>2
<1> QED BY <1>7

\* The code that is shown, if it has digits, has those of the control.
LEMMA YgoComposedNumber == \A f : Ygo!ComposeFullSetNo(f).no = f.number
BY DEF Ygo!ComposeFullSetNo, Ygo!NoCode

YgoRing(r) ==
    /\ HasFields(r, {"variants", "codes", "codePos", "rarities", "rarityPos"})
    /\ r.variants \in Seq(YgoAll)

\* What the rings say of the controls: RingsFollowTheControls.
Follows(f, r) ==
    LET full == Ygo!ComposeFullSetNo(f)
    IN  /\ (~f.typed /\ \E c \in ToSet(r.codes) : Ygo!SlotsMatch(c, full)) =>
               Ygo!SlotsMatch(r.codes[r.codePos + 1], full)
        /\ \A x \in ToSet(r.rarities) :
               \E p \in ToSet(r.variants) : p.rarity = x /\ p.code.no = f.number

\* Rebuilt rings follow the controls they were rebuilt for.
LEMMA YgoRebuiltRingsFollow ==
    ASSUME NEW prints \in Seq(YgoAll), NEW f
    PROVE  YgoRing(Ygo!Rings(prints, f)) /\ Follows(f, Ygo!Rings(prints, f))
<1> DEFINE full == Ygo!ComposeFullSetNo(f)
           kept == Ygo!KeepIn(prints, {p \in Ygo!ToSet(prints) :
                                  f.language = "English" => ~Ygo!LikelyEuropean(p.code)})
           codes == Ygo!CodesOf(kept)
           rarities == Ygo!RaritiesOf(kept, full)
           M == {c \in Ygo!ToSet(codes) : Ygo!SlotsMatch(c, full)}
           r == Ygo!Rings(prints, f)
<1>1. r = [variants |-> kept, codes |-> codes, rarities |-> rarities,
           codePos |-> Ygo!PlaceIn(codes, M), rarityPos |-> Ygo!PlaceIn(rarities, {f.rarity})]
  BY DEF Ygo!Rings
<1>2. kept \in Seq(YgoAll)
  BY YgoFilters, KeptWasThere
<1> HIDE DEF kept, r
<1>3. codes \in Seq({p.code : p \in YgoAll})
  BY <1>2, YgoCodes
<1>4. \A x \in ToSet(rarities) : \E p \in ToSet(kept) : p.rarity = x /\ p.code.no = f.number
  BY <1>2, YgoRaritiesAreListed, YgoComposedNumber
<1> HIDE DEF codes, rarities
<1>5. ToSet(codes) \cap M # {} => codes[Ygo!PlaceIn(codes, M) + 1] \in M
  BY <1>3, YgoFilters, PlaceIsThere
<1>6. (\E c \in ToSet(codes) : Ygo!SlotsMatch(c, full)) =>
         Ygo!SlotsMatch(codes[Ygo!PlaceIn(codes, M) + 1], full)
  BY <1>5 DEF ToSet, Ygo!ToSet
<1> HIDE DEF M
<1>7. YgoRing(r)
  BY <1>1, <1>2 DEF YgoRing, HasFields
<1>8. Follows(f, r)
  BY <1>1, <1>4, <1>6 DEF Follows
<1> QED BY <1>7, <1>8 DEF r

\* Empty rings follow anything.
LEMMA YgoClearedRing == YgoRing(Ygo!NoRing) /\ \A f : Follows(f, Ygo!NoRing)
<1>1. /\ Ygo!NoRing.variants = <<>> /\ ToSet(Ygo!NoRing.codes) = {}
      /\ ToSet(Ygo!NoRing.rarities) = {}
  BY DEF Ygo!NoRing, ToSet
<1>2. YgoRing(Ygo!NoRing)
  BY <1>1 DEF Ygo!NoRing, HasFields, YgoRing
<1> QED BY <1>1, <1>2 DEF Follows

YgoControls(f) == HasFields(f, YgoFields) /\ f.set \in YgoSets
YgoRecord(r) == HasFields(r, {"name", "set"}) /\ r.set \in YgoSets \cup {NoSet}

\* The invariant: the rings hold prints of the listings, and follow the controls.
YgoShown ==
    /\ YgoControls(ygoForm) /\ YgoRecord(ygoRecord) /\ YgoRing(ygoRing)
    /\ AllAskFor(ygoJobs, YgoSets)
    /\ Follows(ygoForm, ygoRing)

\* Filling in a print, or its rarity, leaves the set that was chosen.
LEMMA YgoFilledControls ==
    ASSUME NEW f, YgoControls(f), NEW p, NEW x
    PROVE  /\ YgoControls(Ygo!Filled(f, p)) /\ YgoControls(Ygo!ApplyRarity(f, x))
           /\ Ygo!ApplyRarity(f, x).set = f.set /\ Ygo!ApplyRarity(f, x).number = f.number
           /\ Ygo!ApplyRarity(f, x).typed = f.typed
<1>1. ASSUME NEW g, YgoControls(g), NEW y
      PROVE  /\ YgoControls(Ygo!ApplyRarity(g, y))
             /\ Ygo!ApplyRarity(g, y).set = g.set /\ Ygo!ApplyRarity(g, y).number = g.number
             /\ Ygo!ApplyRarity(g, y).typed = g.typed
  BY <1>1 DEF Ygo!ApplyRarity, YgoControls, HasFields, YgoFields
<1>2. YgoControls([f EXCEPT !.number = Ygo!ExtractSetNoNumeric(p.code)])
  BY DEF YgoControls, HasFields, YgoFields
<1> QED BY <1>1, <1>2 DEF Ygo!Filled

\* What is read from the controls is in range.
LEMMA YgoWritten == ASSUME NEW f, YgoControls(f) PROVE YgoRecord(Ygo!Written(f))
BY DEF Ygo!Written, YgoControls, YgoRecord, HasFields

\* What is only scheduled asks for nothing yet.
LEMMA YgoPrefetchAsks == \A e, S : AsksFor(Ygo!Prefetch(e), S)
BY DEF AsksFor, Ygo!Prefetch

\* The prints with a name, or with a number, are listed ones.
LEMMA YgoAnswersArePrints ==
    ASSUME NEW s \in YgoSets
    PROVE  /\ \A n : Ygo!ByName(s, n) \in Seq(YgoAll)
           /\ \A no : Ygo!ByNumber(s, no) \in Seq(YgoAll)
<1> DEFINE prints == Printings[s]
<1>1. prints \in Seq(YgoAll)
  BY YgoListings
<1> HIDE DEF prints
<1>2. \A S : Ygo!KeepIn(prints, S) \in Seq(YgoAll)
  BY <1>1, YgoFilters, KeptWasThere
<1> QED BY <1>2 DEF Ygo!ByName, Ygo!ByNumber, prints

\* At first there are no rings.
LEMMA YgoInitShown ==
    ASSUME Ygo!Init \/ Ygo!Closed
    PROVE  YgoShown
<1>1. ygoRing = Ygo!NoRing /\ ygoJobs \subseteq {Ygo!Prefetch(0)}
  BY DEF Ygo!Init, Ygo!Start, Ygo!Closed, Ygo!InitCreate, Ygo!InitEdit
<1>2. AllAskFor(ygoJobs, YgoSets)
  BY <1>1, YgoPrefetchAsks DEF AllAskFor
<1>3. YgoControls(ygoForm) /\ YgoRecord(ygoRecord)
  <2>1. CASE Ygo!InitCreate \/ Ygo!Closed
    <3>1. PICK r : ygoForm = [name |-> Blank, set |-> FirstYgoSet, number |-> <<>>, rarity |-> r,
                              language |-> "English", lastEdited |-> "None", typed |-> FALSE]
      BY <2>1 DEF Ygo!InitCreate, Ygo!Closed
    <3>2. ygoRecord = [name |-> Blank, set |-> NoSet]
      BY <2>1 DEF Ygo!InitCreate, Ygo!Closed
    <3>3. FirstYgoSet \in YgoSets
      BY DialogsAssumption DEF Ygo!YgoDialogAssumption
    <3> QED BY <3>1, <3>2, <3>3 DEF YgoControls, YgoRecord, HasFields, YgoFields
  <2>2. CASE Ygo!InitEdit
    <3>1. PICK n \in Names, s \in YgoSets, no \in YgoNumbers, r \in YgoRarities,
               l \in {"English", "German"} :
            LET code == [set |-> IF no = <<>> THEN NoSet ELSE s, region |-> "", no |-> no]
            IN  /\ ygoForm = [name |-> n, set |-> s, number |-> Ygo!ExtractSetNoNumeric(code),
                              rarity |-> r, language |-> l, lastEdited |-> "None",
                              typed |-> FALSE]
                /\ ygoRecord = [name |-> n, set |-> s]
      BY <2>2 DEF Ygo!InitEdit
    <3>2. PICK m : ygoForm = [name |-> n, set |-> s, number |-> m, rarity |-> r,
                              language |-> l, lastEdited |-> "None", typed |-> FALSE]
      BY <3>1
    <3>3. YgoControls(ygoForm)
      BY <3>2 DEF YgoControls, HasFields, YgoFields
    <3>4. ygoRecord = [name |-> n, set |-> s]
      BY <3>1
    <3> QED BY <3>3, <3>4 DEF YgoRecord, HasFields
  <2> QED BY <2>1, <2>2 DEF Ygo!Init
<1> QED BY <1>1, <1>2, <1>3, YgoClearedRing DEF YgoShown

\* The invariant, for the edits.
LEMMA YgoEditKeepsShown ==
    ASSUME YgoShown, Ygo!Edit
    PROVE  YgoShown'
<1>0. /\ YgoControls(ygoForm) /\ YgoRecord(ygoRecord) /\ YgoRing(ygoRing)
      /\ AllAskFor(ygoJobs, YgoSets) /\ Follows(ygoForm, ygoRing)
  BY DEF YgoShown
<1>1. ASSUME NEW scheduled, Ygo!ClearCachedPrintVariants(scheduled),
             scheduled \subseteq {Ygo!Prefetch(ygoEpoch + 1)},
             YgoControls(ygoForm'), YgoRecord(ygoRecord')
      PROVE  YgoShown'
  <2>1. AllAskFor(scheduled, YgoSets)
    BY <1>1, YgoPrefetchAsks DEF AllAskFor
  <2>2. AllAskFor(ygoJobs', YgoSets) /\ ygoRing' = Ygo!NoRing
    BY <1>0, <1>1, <2>1, OvertakenStillAsks DEF Ygo!ClearCachedPrintVariants, Ygo!Overtaken
  <2> QED BY <1>1, <2>2, YgoClearedRing DEF YgoShown
<1>2. ASSUME NEW prints \in Seq(YgoAll), YgoControls(ygoForm'), YgoRecord(ygoRecord'),
             ygoRing' = Ygo!Rings(prints, ygoForm'), ygoJobs' = ygoJobs
      PROVE  YgoShown'
  <2>1. YgoRing(ygoRing') /\ Follows(ygoForm', ygoRing')
    BY <1>2, YgoRebuiltRingsFollow
  <2> QED BY <1>0, <1>2, <2>1 DEF YgoShown
<1>3. ASSUME NEW n \in Names \cup {Blank}, Ygo!EditName(n)
      PROVE  YgoShown'
  <2>1. YgoControls(ygoForm')
    BY <1>0, <1>3 DEF Ygo!EditName, YgoControls, HasFields, YgoFields
  <2> QED BY <1>0, <1>1, <1>3, <2>1 DEF Ygo!EditName
<1>4. ASSUME NEW no \in YgoNumbers, Ygo!EditNumber(no)
      PROVE  YgoShown'
  <2>1. YgoControls(ygoForm')
    BY <1>0, <1>4 DEF Ygo!EditNumber, YgoControls, HasFields, YgoFields
  <2> QED BY <1>0, <1>1, <1>4, <2>1 DEF Ygo!EditNumber
<1>5. ASSUME NEW s \in YgoSets, Ygo!OnSetSelectionChanged(s)
      PROVE  YgoShown'
  <2>1. YgoControls(ygoForm')
    BY <1>0, <1>5 DEF Ygo!OnSetSelectionChanged, YgoControls, HasFields, YgoFields
  <2> QED BY <1>0, <1>1, <1>5, <2>1 DEF Ygo!OnSetSelectionChanged
<1>6. ASSUME NEW s \in YgoSets, Ygo!OnSetCodeAutoDetect(s)
      PROVE  YgoShown'
  <2>1. YgoControls(ygoForm')
    BY <1>0, <1>6 DEF Ygo!OnSetCodeAutoDetect, YgoControls, HasFields, YgoFields
  <2>2. YgoRecord(ygoRecord')
    BY <1>0, <1>6 DEF Ygo!OnSetCodeAutoDetect, YgoRecord, HasFields
  <2> QED BY <1>1, <1>6, <2>1, <2>2 DEF Ygo!OnSetCodeAutoDetect
<1>7. ASSUME NEW s \in YgoSets, Ygo!TypeSet(s)
      PROVE  YgoShown'
  <2>1. /\ YgoControls(ygoForm') /\ ygoForm'.typed = TRUE /\ ygoForm'.number = ygoForm.number
        /\ UNCHANGED <<ygoRecord, ygoRing, ygoJobs>>
    BY <1>0, <1>7 DEF Ygo!TypeSet, YgoControls, HasFields, YgoFields
  <2>2. Follows(ygoForm', ygoRing)
    BY <1>0, <2>1 DEF Follows
  <2> QED BY <1>0, <2>1, <2>2 DEF YgoShown
<1>8. ASSUME YgoControls(ygoForm'), ygoForm'.set = ygoForm.set, ygoForm'.number = ygoForm.number,
             ygoForm'.typed = ygoForm.typed, YgoRing(ygoRing'),
             ygoRing'.codes = ygoRing.codes, ygoRing'.codePos = ygoRing.codePos,
             ygoRing'.variants = ygoRing.variants, ygoRing'.rarities = ygoRing.rarities,
             YgoRecord(ygoRecord'), AllAskFor(ygoJobs', YgoSets)
      PROVE  YgoShown'
  <2>1. Ygo!ComposeFullSetNo(ygoForm') = Ygo!ComposeFullSetNo(ygoForm)
    BY <1>8 DEF Ygo!ComposeFullSetNo
  <2>2. Follows(ygoForm', ygoRing')
    BY <1>0, <1>8, <2>1 DEF Follows
  <2> QED BY <1>8, <2>2 DEF YgoShown
<1>9. CASE Ygo!Choose
  <2>1. /\ YgoControls(ygoForm') /\ ygoForm'.typed = ygoForm.typed
        /\ ygoForm'.set = ygoForm.set /\ ygoForm'.number = ygoForm.number
        /\ UNCHANGED <<ygoRecord, ygoRing, ygoJobs>>
    BY <1>0, <1>9 DEF Ygo!Choose, YgoControls, HasFields, YgoFields
  <2> QED BY <1>0, <1>8, <2>1
<1>10. CASE Ygo!ReadControls \/ Ygo!Close
  BY <1>0, <1>8, <1>10, YgoWritten DEF Ygo!ReadControls, Ygo!Close
<1>11. CASE Ygo!OnNextSetNo
  <2>1. PICK p : /\ ygoForm' = Ygo!Filled(ygoForm, p)
                 /\ ygoRecord' = Ygo!Written(Ygo!Filled(ygoForm, p))
                 /\ ygoRing' = Ygo!Rings(ygoRing.variants, Ygo!Filled(ygoForm, p))
                 /\ ygoJobs' = ygoJobs
    BY <1>11 DEF Ygo!OnNextSetNo
  <2>2. YgoControls(ygoForm') /\ YgoRecord(ygoRecord')
    BY <1>0, <2>1, YgoFilledControls, YgoWritten
  <2>3. ygoRing.variants \in Seq(YgoAll)
    BY <1>0 DEF YgoRing
  <2> QED BY <1>2, <2>1, <2>2, <2>3
<1>12. CASE Ygo!OnNextRarity
  <2>1. PICK i, x : /\ ygoRing' = [ygoRing EXCEPT !.rarityPos = i]
                    /\ ygoForm' = Ygo!ApplyRarity(ygoForm, x)
                    /\ UNCHANGED <<ygoRecord, ygoJobs>>
    BY <1>12 DEF Ygo!OnNextRarity
  <2>2. /\ YgoRing(ygoRing')
        /\ ygoRing'.codes = ygoRing.codes /\ ygoRing'.codePos = ygoRing.codePos
        /\ ygoRing'.variants = ygoRing.variants /\ ygoRing'.rarities = ygoRing.rarities
    BY <1>0, <2>1 DEF YgoRing, HasFields
  <2>3. /\ YgoControls(ygoForm') /\ ygoForm'.typed = ygoForm.typed
        /\ ygoForm'.set = ygoForm.set /\ ygoForm'.number = ygoForm.number
    BY <1>0, <2>1, YgoFilledControls
  <2> QED BY <1>0, <1>8, <2>1, <2>2, <2>3
<1>13. ASSUME NEW fill, Ygo!AutoDetectFromApi(fill)
       PROVE  YgoShown'
  <2> DEFINE prints == Ygo!ByName(ygoForm.set, ygoForm.name)
  <2>1. prints \in Seq(YgoAll)
    BY <1>0, YgoAnswersArePrints DEF YgoControls
  <2>2. PICK f : /\ \/ \E p : f = Ygo!Filled(ygoForm, p)
                    \/ \E x : f = Ygo!ApplyRarity(ygoForm, x)
                 /\ ygoForm' = f /\ ygoRecord' = Ygo!Written(f)
                 /\ ygoRing' = Ygo!Rings(prints, f)
                 /\ ygoJobs' = ygoJobs
    BY <1>13 DEF Ygo!AutoDetectFromApi
  <2> HIDE DEF prints
  <2>3. YgoControls(ygoForm') /\ YgoRecord(ygoRecord')
    BY <1>0, <2>2, YgoFilledControls, YgoWritten
  <2> QED BY <1>2, <2>1, <2>2, <2>3
<1>14. CASE Ygo!RequestBySetNo
  <2> DEFINE new == [stage |-> "lookup", epoch |-> ygoEpoch, set |-> ygoForm.set,
                     number |-> ygoForm.number, late |-> FALSE, found |-> FALSE]
  <2>1. AsksFor(new, YgoSets)
    BY <1>0 DEF AsksFor, YgoControls
  <2>2. /\ ygoJobs' = ygoJobs \cup {new} /\ UNCHANGED <<ygoForm, ygoRing>>
        /\ ygoRecord' = Ygo!Written(ygoForm)
    BY <1>14 DEF Ygo!RequestBySetNo
  <2> HIDE DEF new
  <2>3. AllAskFor(ygoJobs', YgoSets) /\ YgoRecord(ygoRecord')
    BY <1>0, <2>1, <2>2, YgoWritten DEF AllAskFor
  <2> QED BY <1>0, <1>8, <2>2, <2>3
<1>15. CASE Ygo!OnAutoDetectSetNo \/ Ygo!OnAutoDetectRarity
  BY <1>13, <1>14, <1>15 DEF Ygo!OnAutoDetectSetNo, Ygo!OnAutoDetectRarity
<1> QED BY <1>3, <1>4, <1>5, <1>6, <1>7, <1>9, <1>10, <1>11, <1>12, <1>15 DEF Ygo!Edit

\* The invariant, for every step of the dialog.
LEMMA YgoKeepsShown ==
    ASSUME YgoShown, Ygo!Next
    PROVE  YgoShown'
<1>0. /\ YgoControls(ygoForm) /\ YgoRecord(ygoRecord) /\ YgoRing(ygoRing)
      /\ AllAskFor(ygoJobs, YgoSets) /\ Follows(ygoForm, ygoRing)
  BY DEF YgoShown
<1>1. ASSUME UNCHANGED <<ygoForm, ygoRing, ygoRecord>>, AllAskFor(ygoJobs', YgoSets)
      PROVE  YgoShown'
  BY <1>0, <1>1 DEF YgoShown
<1>2. ASSUME NEW prints \in Seq(YgoAll), YgoControls(ygoForm'), YgoRecord(ygoRecord'),
             ygoRing' = Ygo!Rings(prints, ygoForm'), AllAskFor(ygoJobs', YgoSets)
      PROVE  YgoShown'
  <2>1. YgoRing(ygoRing') /\ Follows(ygoForm', ygoRing')
    BY <1>2, YgoRebuiltRingsFollow
  <2> QED BY <1>2, <2>1 DEF YgoShown
<1>3. ASSUME NEW j \in ygoJobs
      PROVE  AllAskFor(ygoJobs \ {j}, YgoSets)
  BY <1>0 DEF AllAskFor
<1>4. ASSUME NEW j \in ygoJobs, Ygo!RunPrefetch(j)
      PROVE  YgoShown'
  <2>1. ygoJobs' = ygoJobs \ {j} /\ ygoForm' = ygoForm
    BY <1>4 DEF Ygo!RunPrefetch
  <2>2. CASE UNCHANGED <<ygoRing, ygoRecord>>
    BY <1>1, <1>3, <2>1, <2>2
  <2>3. CASE /\ ygoRecord.set # NoSet /\ ygoRecord' = Ygo!Written(ygoForm)
             /\ ygoRing' = Ygo!Rings(Ygo!ByName(ygoRecord.set, ygoRecord.name), ygoForm)
    <3> DEFINE prints == Ygo!ByName(ygoRecord.set, ygoRecord.name)
    <3>1. prints \in Seq(YgoAll)
      BY <1>0, <2>3, YgoAnswersArePrints DEF YgoRecord
    <3>2. ygoRing' = Ygo!Rings(prints, ygoForm') /\ YgoRecord(ygoRecord') /\ YgoControls(ygoForm')
      BY <1>0, <2>1, <2>3, YgoWritten
    <3> HIDE DEF prints
    <3> QED BY <1>2, <1>3, <2>1, <3>1, <3>2
  <2> QED BY <1>4, <2>2, <2>3 DEF Ygo!RunPrefetch
<1>5. ASSUME NEW j \in ygoJobs, Ygo!Lookup(j)
      PROVE  YgoShown'
  <2>1. PICK f : ygoJobs' = (ygoJobs \ {j}) \cup {[j EXCEPT !.stage = "answered", !.found = f]}
    BY <1>5 DEF Ygo!Lookup
  <2>2. j.stage = "lookup" /\ UNCHANGED <<ygoForm, ygoRing, ygoRecord>>
    BY <1>5 DEF Ygo!Lookup
  <2>3. AllAskFor(ygoJobs', YgoSets)
    BY <1>0, <2>1, <2>2, AnsweredStillAsks
  <2> QED BY <1>1, <2>2, <2>3
<1>6. ASSUME NEW j \in ygoJobs, Ygo!RunAnswer(j)
      PROVE  YgoShown'
  <2> DEFINE prints == Ygo!Answer(j)
             first == prints[1]
             named == [ygoForm EXCEPT !.name = first.name]
             f == Ygo!Filled(named, first)
  <2>1. j.set \in YgoSets /\ ygoJobs' = ygoJobs \ {j}
    BY <1>0, <1>6 DEF AllAskFor, AsksFor, Ygo!RunAnswer
  <2>2. prints \in Seq(YgoAll)
    BY <2>1, YgoAnswersArePrints DEF Ygo!Answer
  <2>3. \/ UNCHANGED <<ygoForm, ygoRing, ygoRecord>>
        \/ ygoForm' = f /\ ygoRecord' = Ygo!Written(f) /\ ygoRing' = Ygo!Rings(prints, f)
    BY <1>6 DEF Ygo!RunAnswer
  <2>4. YgoControls(f)
    <3>1. YgoControls(named)
      BY <1>0 DEF YgoControls, HasFields, YgoFields
    <3> HIDE DEF named
    <3> QED BY <3>1, YgoFilledControls
  <2> HIDE DEF f, prints
  <2>5. CASE UNCHANGED <<ygoForm, ygoRing, ygoRecord>>
    BY <1>1, <1>3, <2>1, <2>5
  <2>6. CASE ygoForm' = f /\ ygoRecord' = Ygo!Written(f) /\ ygoRing' = Ygo!Rings(prints, f)
    BY <1>2, <1>3, <2>1, <2>2, <2>4, <2>6, YgoWritten
  <2> QED BY <2>3, <2>5, <2>6
<1> QED BY <1>4, <1>5, <1>6, YgoEditKeepsShown DEF Ygo!Next

-----------------------------------------------------------------------------
\* "Next" in the four of them.

\* What "Next" needs, of each dialog.
NextInv == ShownInv /\ YgoShown /\ BandaiShown /\ DigiShown

\* At first no dialog has a ring.
LEMMA DialogsInitImpliesNextInv ==
    ASSUME DialogsInit
    PROVE  NextInv
<1>1. ShownInv
  BY InitImpliesShownInv DEF DialogsInit
<1>2. YgoShown
  BY YgoInitShown DEF DialogsInit
<1>3. BandaiShown
  BY BandaiInitShown DEF DialogsInit
<1>4. DigiShown
  BY DigiInitShown DEF DialogsInit
<1> QED BY <1>1, <1>2, <1>3, <1>4 DEF NextInv

\* A dialog that stutters keeps its part.
LEMMA DialogsStutterKeepsNextInv ==
    /\ YgoShown /\ UNCHANGED ygo => YgoShown'
    /\ BandaiShown /\ UNCHANGED bandai => BandaiShown'
    /\ DigiShown /\ UNCHANGED digi => DigiShown'
<1>1. YgoShown /\ UNCHANGED ygo => YgoShown'
  BY DEF YgoShown, ygo, YgoControls, YgoRecord, YgoRing
<1>2. BandaiShown /\ UNCHANGED bandai => BandaiShown'
  BY DEF BandaiShown, bandai, BandaiControls, BandaiRecord, BandaiRing, Shows, ShowsName, ShowsNumber
<1>3. DigiShown /\ UNCHANGED digi => DigiShown'
  BY DEF DigiShown, digi, Digi!NextStartsAtTheNumberShown
<1> QED BY <1>1, <1>2, <1>3

\* The invariant of the four, for every step.
LEMMA DialogsNextKeepsNextInv ==
    ASSUME NextInv, [DialogsNext]_dialogs
    PROVE  NextInv'
<1>1. ShownInv'
  BY StepsAreTheDialogs, NextKeepsShownInv DEF NextInv
<1>2. YgoShown'
  BY StepsAreTheDialogs, YgoKeepsShown, DialogsStutterKeepsNextInv DEF NextInv
<1>3. BandaiShown'
  BY StepsAreTheDialogs, BandaiKeepsShown, DialogsStutterKeepsNextInv DEF NextInv
<1>4. DigiShown'
  BY StepsAreTheDialogs, DigiKeepsShown, DialogsStutterKeepsNextInv DEF NextInv
<1> QED BY <1>1, <1>2, <1>3, <1>4 DEF NextInv

\* It says what "Next" does.
LEMMA NextInvSuffices ==
    ASSUME NextInv
    PROVE  NextMovesOnFromWhatIsShown
<1>1. Ygo!RingsFollowTheControls
  <2>1. Ygo!ToSet(ygoRing.codes) = ToSet(ygoRing.codes)
    BY DEF Ygo!ToSet, ToSet
  <2>2. Ygo!ToSet(ygoRing.rarities) = ToSet(ygoRing.rarities)
    BY DEF Ygo!ToSet, ToSet
  <2>3. Ygo!ToSet(ygoRing.variants) = ToSet(ygoRing.variants)
    BY DEF Ygo!ToSet, ToSet
  <2>4. Follows(ygoForm, ygoRing)
    BY DEF NextInv, YgoShown
  <2> QED BY <2>1, <2>2, <2>3, <2>4 DEF Follows, Ygo!RingsFollowTheControls
<1>2. Bandai!RingStandsAtThePrintShown
  BY DEF NextInv, BandaiShown, Shows, ShowsName, ShowsNumber, Bandai!RingStandsAtThePrintShown
<1> QED BY <1>1, <1>2 DEF NextInv, ShownInv, DigiShown, NextMovesOnFromWhatIsShown

\* In all four dialogs "Next" moves on from what is on screen: handlers, prefetches and
\* answers in any order, over any listings and any number of edits, never leave a ring
\* standing at a print other than the one shown. A print without a number, which Bandai's
\* listings may have, shows that of the numbered print before it in the ring.
THEOREM NextStartsFromWhatIsShown == DialogsSpec => []NextMovesOnFromWhatIsShown
<1>1. DialogsInit => NextInv
  BY DialogsInitImpliesNextInv
<1>2. NextInv /\ [DialogsNext]_dialogs => NextInv'
  BY DialogsNextKeepsNextInv
<1>3. NextInv => NextMovesOnFromWhatIsShown
  BY NextInvSuffices
<1> QED BY <1>1, <1>2, <1>3, PTL DEF DialogsSpec
===============================================================================
