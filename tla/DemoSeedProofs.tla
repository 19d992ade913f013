--------------------------- MODULE DemoSeedProofs ---------------------------
(***************************************************************************)
(* What DemoSeed guarantees for every order of the samples, every supply   *)
(* of tokens and every number of faults, proved with TLAPS.                *)
(***************************************************************************)
EXTENDS DemoSeed, TLAPS

-----------------------------------------------------------------------------
(***************************************************************************)
(* The inductive invariant.                                                *)
(***************************************************************************)

\* The token of a run, the one of the database and the one of the file: which of
\* them agree depends on how far the run has come.
Credentials ==
    /\ hash = NoToken => /\ run.pc \in {"idle", "samples", "broken"}
                         /\ file = "absent" /\ drawn = {}
    /\ run.pc = "samples" => (run.token = NoToken <=> hash # NoToken)
    /\ run.pc \in {"rotated", "writing", "written"} => run.token \in Tokens
    /\ run.pc = "written" => file = run.token
    /\ run.pc \notin {"writing", "written"} => file \in {"absent", hash} \/ torn
    /\ file = "absent" => \E k \in Tokens : k \notin drawn

\* A sample has one case at most, and a run that has created it found none.
Lone(s) ==
    /\ sample[s].count <= 1
    /\ run.kept[s].created => sample[s].count = 0

\* The case of the intake event and the record of its key come together.
IntakeLone ==
    /\ ~claimed => sample["intake"].count = 0
    /\ run.kept["intake"].created => run.claims

\* A sample the run has locked is as the run found it.
LocksHold == \A s \in Samples : Locked(s) => run.kept[s].status = Ensured(s, sample[s].status)

SamplesLone ==
    /\ \A s \in Samples \ ReusedOrders : Lone(s)
    /\ "intake" \notin ReusedOrders => IntakeLone

\* A sample the run has left alone is not one it has created.
Unused == \A s \in Samples : run.kept[s].status = "none" => ~run.kept[s].created

Typed == TypeOK /\ run.next >= 1 /\ Unused

SeedInv ==
    /\ Typed
    /\ Credentials
    /\ LocksHold
    /\ SamplesLone

-----------------------------------------------------------------------------
(***************************************************************************)
(* Types.                                                                  *)
(***************************************************************************)
LEMMA NoRunType ==
    /\ NoRun \in Run /\ NoRun.pc = "idle" /\ NoRun.next = 1
    /\ NoRun.token = NoToken /\ NoRun.claims = FALSE
    /\ NoRun.kept = [s \in Samples |-> Untouched]
BY DEF NoRun, Run, Kept, Untouched

LEMMA EnsuredType ==
    ASSUME NEW s \in Samples, NEW status \in ReturnStatus
    PROVE  Ensured(s, status) \in ReturnStatus
BY DEF Ensured, ToInspected, Samples, ReturnStatus

LEMMA CurrentType == ASSUME Typed, Sampling PROVE Current \in Samples
<1>1. Order \in Seq(Samples)
  BY OrderAssumption
<1>2. run.next \in 1..Len(Order)
  <2>1. run.next \in Nat /\ run.next >= 1 /\ run.next <= Len(Order) /\ Len(Order) \in Nat
    BY <1>1 DEF Typed, TypeOK, Run, Sampling
  <2> QED BY <2>1
<1> QED BY <1>1, <1>2 DEF Current

\* What a run writes down about the current sample.
LEMMA EnsureFacts ==
    ASSUME Typed, EnsureSample
    PROVE  \E s \in Samples, k \in Kept :
              /\ s = Current
              /\ run' = [run EXCEPT !.next = @ + 1, !.claims = (@ \/ s = "intake"),
                                    !.kept[s] = k]
              /\ k.status = "none" => ~k.created
              /\ k.created => sample[s].count = 0
              /\ (k.status # "none" /\ ~k.created) =>
                    /\ sample[s].count = 1
                    /\ k.status = Ensured(s, sample[s].status)
              /\ sample[s].count <= 1
              /\ s = "intake" => ~claimed
<1> DEFINE s == Current
           row == sample[s]
           status == Ensured(s, IF row.count = 0 THEN "requested" ELSE row.status)
           k == IF row.count = 1 /\ row.status = status
                THEN Untouched
                ELSE [status |-> status, created |-> row.count = 0]
<1>1. s \in Samples /\ row \in Sample
  BY CurrentType DEF EnsureSample, Typed, TypeOK
<1>2. row.count \in Nat /\ row.status \in ReturnStatus /\ "requested" \in ReturnStatus
  BY <1>1 DEF Sample, ReturnStatus
<1>3. status \in ReturnStatus
  BY <1>1, <1>2, EnsuredType
<1>4. (row.count = 0) \in BOOLEAN
  OBVIOUS
<1>5. k \in Kept /\ (k.status = "none" => k = Untouched)
  BY <1>3, <1>4 DEF Kept, Untouched, ReturnStatus
<1>6. /\ ~Skips(s) /\ row.count <= 1
      /\ run' = [run EXCEPT !.next = @ + 1, !.claims = (@ \/ s = "intake"), !.kept[s] = k]
  BY Zenon DEF EnsureSample
<1>7. s = "intake" => ~claimed
  BY <1>6 DEF Skips
<1>8. (k.status = "none" => ~k.created) /\ (k.created => row.count = 0)
  BY <1>5 DEF Untouched
<1>9. (k.status # "none" /\ ~k.created) => row.count = 1 /\ k.status = Ensured(s, row.status)
  <2>1. CASE row.count = 1 /\ row.status = status
    <3>1. k = Untouched
      BY <2>1
    <3> QED BY <3>1 DEF Untouched
  <2>2. CASE ~(row.count = 1 /\ row.status = status)
    <3>1. k = [status |-> status, created |-> row.count = 0]
      BY <2>2
    <3> HIDE DEF k, status, row, s
    <3>2. k.status = status /\ (~k.created => row.count # 0)
      BY <3>1
    <3>3. ~k.created => row.count = 1
      BY <3>2, <1>2, <1>6
    <3>4. row.count = 1 => status = Ensured(s, row.status)
      BY DEF status
    <3> QED BY <3>2, <3>3, <3>4
  <2> QED BY <2>1, <2>2
<1> HIDE DEF s, k
<1> QED BY <1>1, <1>5, <1>6, <1>7, <1>8, <1>9 DEF s

LEMMA InitTyped == Init => Typed
<1> SUFFICES ASSUME Init PROVE Typed
  OBVIOUS
<1>1. [count |-> 0, status |-> "requested"] \in Sample
  BY DEF Sample, ReturnStatus
<1>2. sample \in [Samples -> Sample]
  BY <1>1 DEF Init
<1>3. run \in Run /\ run.next >= 1
  <2>1. NoRun \in Run /\ NoRun.next = 1
    BY NoRunType
  <2> QED BY <2>1 DEF Init
<1>4. /\ claimed \in BOOLEAN /\ hash \in Tokens \cup {NoToken} /\ torn \in BOOLEAN
      /\ file \in Tokens \cup {"absent", "torn"} /\ drawn \in SUBSET Tokens /\ faults \in Nat
  BY DEF Init
<1>5. Unused
  BY NoRunType DEF Init, Unused, Untouched
<1> QED BY <1>2, <1>3, <1>4, <1>5 DEF Typed, TypeOK

LEMMA FreshType ==
    ASSUME \E k \in Tokens : k \notin drawn
    PROVE  Fresh \in Tokens /\ Fresh \notin drawn
BY DEF Fresh

\* The token a run draws when it starts.
LEMMA StartFacts ==
    ASSUME Typed, Credentials, Start
    PROVE  \E normal \in BOOLEAN, k \in Tokens \cup {NoToken} :
              /\ run' = [NoRun EXCEPT !.pc = "samples", !.normal = normal, !.token = k]
              /\ k = NoToken <=> hash # NoToken
<1>1. PICK normal \in BOOLEAN :
          IF hash = NoToken
          THEN run' = [NoRun EXCEPT !.pc = "samples", !.normal = normal, !.token = Fresh]
          ELSE run' = [NoRun EXCEPT !.pc = "samples", !.normal = normal]
  BY Zenon DEF Start
<1>2. CASE hash = NoToken
  <2>1. Fresh \in Tokens
    BY <1>2, FreshType, TokensAssumption DEF Credentials
  <2>2. Fresh # NoToken
    BY <2>1, TokensAssumption
  <2> QED BY <1>1, <1>2, <2>1, <2>2
<1>3. CASE hash # NoToken
  <2>1. run' = [NoRun EXCEPT !.pc = "samples", !.normal = normal, !.token = NoToken]
    BY <1>1, <1>3 DEF NoRun
  <2> QED BY <1>3, <2>1
<1> QED BY <1>2, <1>3

LEMMA StartType == ASSUME Typed, Credentials, Start PROVE Typed'
<1>1. PICK normal \in BOOLEAN, k \in Tokens \cup {NoToken} :
          run' = [NoRun EXCEPT !.pc = "samples", !.normal = normal, !.token = k]
  BY StartFacts
<1>2. run' \in Run /\ run'.next = 1 /\ run'.kept = NoRun.kept
  BY <1>1, NoRunType DEF Run
<1>3. Unused'
  BY <1>2, NoRunType DEF Unused, Untouched
<1> QED BY <1>2, <1>3 DEF Typed, TypeOK, Start

LEMMA EnsureType == ASSUME Typed, EnsureSample PROVE Typed'
<1>1. PICK s \in Samples, k \in Kept :
          /\ run' = [run EXCEPT !.next = @ + 1, !.claims = (@ \/ s = "intake"), !.kept[s] = k]
          /\ k.status = "none" => ~k.created
  BY EnsureFacts
<1>2. run \in Run /\ run.next >= 1
  BY DEF Typed, TypeOK
<1>3. run' \in Run /\ run'.next >= 1 /\ run'.kept = [run.kept EXCEPT ![s] = k]
  <2>1. (run.claims \/ s = "intake") \in BOOLEAN
    OBVIOUS
  <2>2. PICK c \in BOOLEAN : c = (run.claims \/ s = "intake")
    BY <2>1, Zenon
  <2>3. run' = [run EXCEPT !.next = @ + 1, !.claims = c, !.kept[s] = k]
    BY <1>1, <2>2, Zenon
  <2>4. [run.kept EXCEPT ![s] = k] \in [Samples -> Kept] /\ run.next + 1 \in Nat
    BY <1>2 DEF Run
  <2>5. PICK kept \in [Samples -> Kept], n \in Nat :
            kept = [run.kept EXCEPT ![s] = k] /\ n = run.next + 1
    BY <2>4
  <2>6. run' = [run EXCEPT !.next = n, !.claims = c, !.kept = kept]
    BY <2>3, <2>5
  <2>7. n >= 1
    BY <1>2, <2>5 DEF Run
  <2> QED BY <1>2, <2>5, <2>6, <2>7 DEF Run
<1>4. Unused'
  BY <1>1, <1>2, <1>3 DEF Unused, Typed, Run
<1> QED BY <1>3, <1>4 DEF Typed, TypeOK, EnsureSample

LEMMA CommitSamplesFacts ==
    ASSUME Typed, CommitSamples
    PROVE  /\ sample' \in [Samples -> Sample]
           /\ \A s \in Samples :
                /\ run.kept[s].status = "none" => sample'[s] = sample[s]
                /\ (run.kept[s].status # "none" /\ run.kept[s].created) =>
                      /\ sample'[s].count = sample[s].count + 1
                      /\ sample[s].count > 0 => sample'[s].status = sample[s].status
                /\ Locked(s) => /\ sample'[s].count = sample[s].count
                                /\ sample'[s].status = run.kept[s].status
<1> DEFINE New(s) ==
          LET kept == run.kept[s] IN
          CASE kept.status = "none"           -> sample[s]
            [] kept.created /\ sample[s].count > 0 -> [sample[s] EXCEPT !.count = @ + 1]
            [] OTHER -> [count |-> IF kept.created THEN 1 ELSE sample[s].count,
                         status |-> kept.status]
<1>1. sample' = [s \in Samples |-> New(s)]
  BY Zenon DEF CommitSamples
<1>2. ASSUME NEW s \in Samples
      PROVE  /\ New(s) \in Sample
             /\ run.kept[s].status = "none" => New(s) = sample[s]
             /\ (run.kept[s].status # "none" /\ run.kept[s].created) =>
                      /\ New(s).count = sample[s].count + 1
                      /\ sample[s].count > 0 => New(s).status = sample[s].status
             /\ Locked(s) => /\ New(s).count = sample[s].count
                             /\ New(s).status = run.kept[s].status
  <2>1. sample[s] \in Sample /\ run.kept[s] \in Kept
    BY DEF Typed, TypeOK, Run
  <2>2. PICK old, kept : old = sample[s] /\ kept = run.kept[s]
    OBVIOUS
  <2>3. /\ old \in Sample /\ old.count \in Nat /\ old.status \in ReturnStatus
        /\ kept.status \in ReturnStatus \cup {"none"} /\ kept.created \in BOOLEAN
    BY <2>1, <2>2 DEF Sample, Kept
  <2>4. New(s) = CASE kept.status = "none"           -> old
                   [] kept.created /\ old.count > 0 -> [old EXCEPT !.count = @ + 1]
                   [] OTHER -> [count |-> IF kept.created THEN 1 ELSE old.count,
                                status |-> kept.status]
    BY <2>2, Zenon
  <2> HIDE DEF New
  <2>5. CASE kept.status = "none"
    <3>1. ~kept.created
      BY <2>2, <2>5 DEF Typed, Unused
    <3>2. New(s) = old
      BY <2>4, <2>5, <3>1
    <3> QED BY <2>2, <2>3, <2>5, <3>1, <3>2 DEF Locked
  <2>6. CASE kept.status # "none" /\ kept.created /\ old.count > 0
    <3>1. New(s) = [old EXCEPT !.count = @ + 1]
      BY <2>4, <2>6
    <3> QED BY <2>2, <2>3, <2>6, <3>1 DEF Locked, Sample
  <2>7. CASE kept.status # "none" /\ ~(kept.created /\ old.count > 0)
    <3>1. New(s) = [count |-> IF kept.created THEN 1 ELSE old.count, status |-> kept.status]
      BY <2>4, <2>7
    <3> QED BY <2>2, <2>3, <2>7, <3>1 DEF Locked, Sample
  <2> QED BY <2>5, <2>6, <2>7
<1> HIDE DEF New
<1> QED BY <1>1, <1>2

LEMMA CommitSamplesRun ==
    ASSUME Typed, CommitSamples
    PROVE  /\ run' \in Run /\ run'.pc = "committed" /\ run'.next = run.next
           /\ run'.token = run.token /\ run'.claims = run.claims
           /\ run'.kept = [s \in Samples |-> Untouched]
<1>1. run' = [run EXCEPT !.pc = "committed", !.kept = NoRun.kept]
  BY Zenon DEF CommitSamples
<1>2. run \in Run /\ NoRun.kept \in [Samples -> Kept]
  BY NoRunType DEF Typed, TypeOK, Run
<1> QED BY <1>1, <1>2, NoRunType DEF Run

LEMMA CommitSamplesType == ASSUME Typed, CommitSamples PROVE Typed'
<1>1. (claimed \/ run.claims) \in BOOLEAN
  OBVIOUS
<1>2. claimed' \in BOOLEAN
  BY <1>1, Zenon DEF CommitSamples
<1>3. hash' \in Tokens \cup {NoToken} /\ drawn' \in SUBSET Tokens
  BY DEF CommitSamples, Typed, TypeOK, Run
<1>4. UNCHANGED <<file, torn, faults>>
  BY DEF CommitSamples
<1>5. Unused'
  BY CommitSamplesRun DEF Unused, Untouched
<1> QED BY <1>2, <1>3, <1>4, <1>5, CommitSamplesFacts, CommitSamplesRun DEF Typed, TypeOK


\* A run that ends, well or not, leaves nothing behind in the process.
Ended(pc) == run' = [NoRun EXCEPT !.pc = pc]

LEMMA EndType ==
    ASSUME NEW pc \in {"idle", "done", "broken"}, Ended(pc)
    PROVE  /\ run' \in Run /\ run'.next >= 1 /\ Unused'
           /\ run'.pc = pc /\ run'.token = NoToken /\ run'.claims = FALSE
           /\ run'.kept = [s \in Samples |-> Untouched]
<1>1. /\ run' \in Run /\ run'.next = 1 /\ run'.pc = pc
      /\ run'.token = NoToken /\ run'.claims = FALSE /\ run'.kept = NoRun.kept
  BY NoRunType DEF Ended, Run
<1>2. Unused'
  BY <1>1, NoRunType DEF Unused, Untouched
<1> QED BY <1>1, <1>2, NoRunType

\* A run that goes on to another point, with a token, keeps what it has done.
GoesOn(pc, token) == run' = [run EXCEPT !.pc = pc, !.token = token]

LEMMA GoOnType ==
    ASSUME Typed, NEW pc \in {"rotated", "writing", "written", "finishing"},
           NEW token \in Tokens \cup {NoToken}, GoesOn(pc, token)
    PROVE  /\ run' \in Run /\ run'.next >= 1 /\ Unused'
           /\ run'.pc = pc /\ run'.token = token /\ run'.claims = run.claims
           /\ run'.kept = run.kept
<1>1. /\ run' \in Run /\ run'.next = run.next /\ run'.pc = pc
      /\ run'.token = token /\ run'.claims = run.claims /\ run'.kept = run.kept
  BY DEF GoesOn, Typed, TypeOK, Run
<1>2. Unused'
  BY <1>1 DEF Unused, Typed
<1> QED BY <1>1, <1>2 DEF Typed

\* What the actions of the run do to the process.
LEMMA Ends ==
    /\ FindsSeveral => Ended("broken")
    /\ FinishSample => Ended("done")
    /\ LeaveSample => Ended("done")
    /\ FindsSeveralLate => Ended("broken")
    /\ Dies => Ended("idle")
<1>1. NoRun = [NoRun EXCEPT !.pc = "idle"]
  BY NoRunType DEF Run
<1>2. Dies => Ended("idle")
  BY <1>1 DEF Dies, Ended
<1>3. FinishSample => Ended("done")
  BY Zenon DEF FinishSample, Ended
<1> QED
  BY <1>2, <1>3, Zenon DEF FindsSeveral, LeaveSample, FindsSeveralLate, Ended

LEMMA Advances ==
    ASSUME Typed
    PROVE  /\ KeepFile => GoesOn("finishing", run.token)
           /\ Rotate => GoesOn("rotated", Fresh)
           /\ OpenFile => GoesOn("writing", run.token)
           /\ WriteFile => GoesOn("written", run.token)
           /\ CommitToken => GoesOn("finishing", run.token)
<1>1. run \in Run
  BY DEF Typed, TypeOK
<1>2. \A pc : [run EXCEPT !.pc = pc] = [run EXCEPT !.pc = pc, !.token = run.token]
  BY <1>1 DEF Run
<1>3. KeepFile => GoesOn("finishing", run.token)
  BY <1>2 DEF KeepFile, GoesOn
<1>4. Rotate => GoesOn("rotated", Fresh)
  BY DEF Rotate, GoesOn
<1>5. OpenFile => GoesOn("writing", run.token)
  BY <1>2 DEF OpenFile, GoesOn
<1>6. WriteFile => GoesOn("written", run.token)
  BY <1>2 DEF WriteFile, GoesOn
<1>7. CommitToken => GoesOn("finishing", run.token)
  BY <1>2 DEF CommitToken, GoesOn
<1> QED BY <1>3, <1>4, <1>5, <1>6, <1>7, Zenon

LEMMA SkipFacts ==
    ASSUME Typed, SkipSample
    PROVE  /\ run' \in Run /\ run'.next >= 1 /\ Unused'
           /\ run'.pc = run.pc /\ run'.token = run.token /\ run'.claims = run.claims
           /\ run'.kept = run.kept
<1>1. /\ run' \in Run /\ run'.next = run.next + 1 /\ run'.pc = run.pc
      /\ run'.token = run.token /\ run'.claims = run.claims /\ run'.kept = run.kept
  BY DEF SkipSample, Typed, TypeOK, Run
<1>2. Unused'
  BY <1>1 DEF Unused, Typed
<1>3. run.next \in Nat
  BY DEF Typed, TypeOK, Run
<1> QED BY <1>1, <1>2, <1>3 DEF Typed

\* The demo's own moves of the samples.
LEMMA DeclaredMoves ==
    ASSUME NEW from \in ReturnStatus
    PROVE  TRANSITIONS[from] \subseteq ReturnStatus
BY DEF TRANSITIONS, ReturnStatus

LEMMA MoveFacts ==
    ASSUME Typed, NEW s \in Samples, MoveSample(s)
    PROVE  \E to \in ReturnStatus :
              /\ to \in TRANSITIONS[sample[s].status]
              /\ sample' = [sample EXCEPT ![s].status = to]
              /\ sample' \in [Samples -> Sample]
<1>1. PICK to \in TRANSITIONS[sample[s].status] : sample' = [sample EXCEPT ![s].status = to]
  BY Zenon DEF MoveSample
<1>2. sample \in [Samples -> Sample] /\ sample[s].status \in ReturnStatus
  BY DEF Typed, TypeOK, Sample
<1>3. to \in ReturnStatus
  BY <1>1, <1>2, DeclaredMoves
<1>4. sample' \in [Samples -> Sample]
  BY <1>1, <1>2, <1>3 DEF Sample
<1> QED BY <1>1, <1>3, <1>4

LEMMA GrowType ==
    ASSUME Typed, NEW s \in Samples
    PROVE  [sample EXCEPT ![s].count = @ + 1] \in [Samples -> Sample]
BY DEF Typed, TypeOK, Sample

LEMMA RunTyped ==
    ASSUME Typed, Credentials, SeedStep \/ Start \/ Dies
    PROVE  Typed'
<1>1. CASE Start
  BY <1>1, StartType
<1>2. CASE EnsureSample
  BY <1>2, EnsureType
<1>3. CASE CommitSamples
  BY <1>3, CommitSamplesType
<1>4. CASE SkipSample
  BY <1>4, SkipFacts DEF Typed, TypeOK, SkipSample
<1>5. CASE FindsSeveral \/ LeaveSample \/ FindsSeveralLate
  <2>1. run' \in Run /\ run'.next >= 1 /\ Unused'
    BY <1>5, Ends, EndType
  <2> QED BY <1>5, <2>1 DEF Typed, TypeOK, FindsSeveral, LeaveSample, FindsSeveralLate
<1>6. CASE FinishSample
  <2>1. run' \in Run /\ run'.next >= 1 /\ Unused'
    BY <1>6, Ends, EndType
  <2>2. sample' = [sample EXCEPT !["normal"].status = "closed"]
    BY <1>6 DEF FinishSample
  <2>3. sample' \in [Samples -> Sample]
    BY <2>2 DEF Typed, TypeOK, Sample, ReturnStatus
  <2> QED BY <1>6, <2>1, <2>3 DEF Typed, TypeOK, FinishSample
<1>7. CASE Dies
  <2>1. run' \in Run /\ run'.next >= 1 /\ Unused'
    BY <1>7, Ends, EndType
  <2>2. (torn \/ run.pc \in {"writing", "written"}) \in BOOLEAN
    OBVIOUS
  <2>3. torn' \in BOOLEAN
    BY <1>7, <2>2, Zenon DEF Dies
  <2>4. faults' \in Nat
    BY <1>7 DEF Dies, Fault, Typed, TypeOK
  <2> QED BY <1>7, <2>1, <2>3, <2>4 DEF Typed, TypeOK, Dies
<1>8. CASE KeepFile
  <2>1. run' \in Run /\ run'.next >= 1 /\ Unused'
    BY <1>8, Advances, GoOnType DEF KeepFile, Typed, TypeOK, Run
  <2> QED BY <1>8, <2>1 DEF Typed, TypeOK, KeepFile
<1>9. CASE Rotate
  <2>1. Fresh \in Tokens
    BY <1>9, FreshType DEF Rotate, Credentials
  <2>2. run' \in Run /\ run'.next >= 1 /\ Unused'
    BY <1>9, <2>1, Advances, GoOnType
  <2> QED BY <1>9, <2>2 DEF Typed, TypeOK, Rotate
<1>10. CASE OpenFile
  <2>1. run.token \in Tokens
    BY <1>10 DEF OpenFile, Typed, TypeOK, Run, Credentials
  <2>2. run' \in Run /\ run'.next >= 1 /\ Unused'
    BY <1>10, <2>1, Advances, GoOnType
  <2> QED BY <1>10, <2>1, <2>2 DEF Typed, TypeOK, OpenFile
<1>11. CASE WriteFile
  <2>1. run.token \in Tokens
    BY <1>11 DEF WriteFile, Credentials
  <2>2. run' \in Run /\ run'.next >= 1 /\ Unused'
    BY <1>11, <2>1, Advances, GoOnType
  <2> QED BY <1>11, <2>1, <2>2 DEF Typed, TypeOK, WriteFile
<1>12. CASE CommitToken
  <2>1. run.token \in Tokens
    BY <1>12 DEF CommitToken, Credentials
  <2>2. run' \in Run /\ run'.next >= 1 /\ Unused'
    BY <1>12, <2>1, Advances, GoOnType
  <2> QED BY <1>12, <2>1, <2>2 DEF Typed, TypeOK, CommitToken
<1> QED
  BY <1>1, <1>2, <1>3, <1>4, <1>5, <1>6, <1>7, <1>8, <1>9, <1>10, <1>11, <1>12 DEF SeedStep

\* What the people and the workflow do to the samples leaves the run alone.
DemoStep == (\E s \in Samples : MoveSample(s) \/ ReuseOrder(s)) \/ Intake \/ LoseFile

LEMMA DemoTyped == ASSUME Typed, DemoStep PROVE Typed'
<1>1. ASSUME NEW s \in Samples, MoveSample(s) PROVE Typed'
  <2>1. sample' \in [Samples -> Sample]
    BY <1>1, MoveFacts
  <2> QED BY <1>1, <2>1 DEF Typed, TypeOK, MoveSample, Unused
<1>2. ASSUME NEW s \in Samples, ReuseOrder(s) PROVE Typed'
  <2>1. sample' \in [Samples -> Sample]
    BY <1>2, GrowType DEF ReuseOrder
  <2> QED BY <1>2, <2>1 DEF Typed, TypeOK, ReuseOrder, Unused
<1>3. CASE Intake
  <2>1. [sample EXCEPT !["intake"].count = @ + 1] \in [Samples -> Sample]
    BY GrowType DEF Samples
  <2>2. sample' \in [Samples -> Sample]
    BY <1>3, <2>1 DEF Intake, Typed, TypeOK
  <2> QED BY <1>3, <2>2 DEF Typed, TypeOK, Intake, Unused
<1>4. CASE LoseFile
  BY <1>4 DEF Typed, TypeOK, LoseFile, Fault, Unused
<1> QED BY <1>1, <1>2, <1>3, <1>4 DEF DemoStep

LEMMA NextTyped == ASSUME Typed, Credentials, [Next]_vars PROVE Typed'
<1>1. CASE UNCHANGED vars
  BY <1>1 DEF vars, Typed, TypeOK, Unused
<1> QED BY <1>1, RunTyped, DemoTyped DEF Next, DemoStep
-----------------------------------------------------------------------------
(***************************************************************************)
(* The credential.                                                         *)
(***************************************************************************)
LEMMA InitCredentials == Init => Credentials
BY NoRunType, TokensAssumption DEF Init, Credentials

LEMMA StartCredentials == ASSUME Typed, Credentials, Start PROVE Credentials'
<1>1. PICK normal \in BOOLEAN, k \in Tokens \cup {NoToken} :
          /\ run' = [NoRun EXCEPT !.pc = "samples", !.normal = normal, !.token = k]
          /\ k = NoToken <=> hash # NoToken
  BY StartFacts
<1>2. run'.pc = "samples" /\ run'.token = k
  BY <1>1, NoRunType DEF Run
<1>3. UNCHANGED <<hash, file, drawn, torn>> /\ run.pc \in {"idle", "done", "broken"}
  BY DEF Start
<1> QED BY <1>1, <1>2, <1>3 DEF Credentials

\* A run that works on the samples keeps its token.
LEMMA SamplingCredentials ==
    ASSUME Credentials, UNCHANGED <<hash, file, drawn, torn>>,
           run'.pc = run.pc, run'.token = run.token
    PROVE  Credentials'
BY DEF Credentials

LEMMA EnsureKeeps == ASSUME Typed, EnsureSample PROVE run'.pc = run.pc /\ run'.token = run.token
<1>1. PICK s \in Samples, k \in Kept :
          run' = [run EXCEPT !.next = @ + 1, !.claims = (@ \/ s = "intake"), !.kept[s] = k]
  BY EnsureFacts
<1>2. run \in Run
  BY DEF Typed, TypeOK
<1> QED BY <1>1, <1>2 DEF Run

LEMMA CommitSamplesCredentials == ASSUME Typed, Credentials, CommitSamples PROVE Credentials'
<1>1. /\ hash' = (IF run.token # NoToken THEN run.token ELSE hash)
      /\ drawn' = drawn \cup ({run.token} \ {NoToken})
      /\ UNCHANGED <<file, torn>> /\ run.pc = "samples"
  BY DEF CommitSamples
<1>2. run'.pc = "committed" /\ run'.token = run.token
  BY CommitSamplesRun
<1>3. run.token = NoToken <=> hash # NoToken
  BY <1>1 DEF Credentials
<1>4. hash' # NoToken
  BY <1>1, <1>3
<1>5. file' \in {"absent", hash'} \/ torn'
  BY <1>1, <1>3 DEF Credentials
<1>6. file' = "absent" => \E k \in Tokens : k \notin drawn'
  <2>1. CASE hash = NoToken
    <3>1. drawn' = {run.token}
      BY <1>1, <1>3, <2>1 DEF Credentials
    <3> QED BY <3>1, TokensAssumption
  <2>2. CASE hash # NoToken
    BY <1>1, <1>3, <2>2 DEF Credentials
  <2> QED BY <2>1, <2>2
<1> QED BY <1>2, <1>4, <1>5, <1>6 DEF Credentials

\* An end finds the file in order, or the death of the run is recorded.
LEMMA EndCredentials ==
    ASSUME Credentials, NEW pc \in {"idle", "done", "broken"},
           run'.pc = pc, run'.token = NoToken, UNCHANGED <<hash, file, drawn>>,
           torn => torn', run.pc \in {"writing", "written"} => torn',
           run.pc \in {"committed", "finishing"} \/ pc # "done"
    PROVE  Credentials'
BY DEF Credentials

LEMMA RunCredentials ==
    ASSUME Typed, Credentials, SeedStep \/ Start \/ Dies
    PROVE  Credentials'
<1>1. CASE Start
  BY <1>1, StartCredentials
<1>2. CASE EnsureSample
  BY <1>2, EnsureKeeps, SamplingCredentials DEF EnsureSample
<1>3. CASE CommitSamples
  BY <1>3, CommitSamplesCredentials
<1>4. CASE SkipSample
  BY <1>4, SkipFacts, SamplingCredentials DEF SkipSample
<1>5. CASE FindsSeveral
  <2>1. run'.pc = "broken" /\ run'.token = NoToken
    BY <1>5, Ends, EndType
  <2> QED BY <1>5, <2>1, EndCredentials DEF FindsSeveral, Sampling
<1>6. CASE LeaveSample \/ FinishSample
  <2>1. run'.pc = "done" /\ run'.token = NoToken
    BY <1>6, Ends, EndType
  <2> QED BY <1>6, <2>1, EndCredentials DEF LeaveSample, FinishSample
<1>7. CASE FindsSeveralLate
  <2>1. run'.pc = "broken" /\ run'.token = NoToken
    BY <1>7, Ends, EndType
  <2> QED BY <1>7, <2>1, EndCredentials DEF FindsSeveralLate
<1>8. CASE Dies
  <2>1. run'.pc = "idle" /\ run'.token = NoToken
    BY <1>8, Ends, EndType
  <2> QED BY <1>8, <2>1, EndCredentials DEF Dies
<1>9. CASE KeepFile
  <2>1. run'.pc = "finishing" /\ run'.token = run.token
    BY <1>9, Advances, GoOnType DEF Typed, TypeOK, Run
  <2> QED BY <1>9, <2>1 DEF Credentials, KeepFile
<1>10. CASE Rotate
  <2>1. Fresh \in Tokens
    BY <1>10, FreshType DEF Rotate, Credentials
  <2>2. run'.pc = "rotated" /\ run'.token \in Tokens
    BY <1>10, <2>1, Advances, GoOnType
  <2> QED BY <1>10, <2>2 DEF Credentials, Rotate
<1>11. CASE OpenFile
  <2>1. run.token \in Tokens
    BY <1>11 DEF OpenFile, Typed, TypeOK, Run, Credentials
  <2>2. run'.pc = "writing" /\ run'.token = run.token
    BY <1>11, <2>1, Advances, GoOnType
  <2> QED BY <1>11, <2>1, <2>2 DEF Credentials, OpenFile
<1>12. CASE WriteFile
  <2>1. run.token \in Tokens /\ run.token # "absent"
    BY <1>12, TokensAssumption DEF WriteFile, Credentials
  <2>2. run'.pc = "written" /\ run'.token = run.token
    BY <1>12, <2>1, Advances, GoOnType
  <2> QED BY <1>12, <2>1, <2>2 DEF Credentials, WriteFile
<1>13. CASE CommitToken
  <2>1. run.token \in Tokens /\ run.token # NoToken /\ file = run.token /\ file # "absent"
    BY <1>13, TokensAssumption DEF CommitToken, Credentials
  <2>2. run'.pc = "finishing" /\ run'.token = run.token
    BY <1>13, <2>1, Advances, GoOnType
  <2> QED BY <1>13, <2>1, <2>2 DEF Credentials, CommitToken
<1> QED
  BY <1>1, <1>2, <1>3, <1>4, <1>5, <1>6, <1>7, <1>8, <1>9, <1>10, <1>11, <1>12, <1>13
  DEF SeedStep

LEMMA NextCredentials ==
    ASSUME Typed, Credentials, [Next]_vars
    PROVE  Credentials'
<1>1. CASE DemoStep
  <2>1. CASE LoseFile
    <3>1. /\ file' = "absent" /\ Tokens # drawn /\ run.pc \in {"idle", "done", "broken"}
          /\ file # "absent" /\ UNCHANGED <<hash, drawn, run, torn>>
      BY <2>1 DEF LoseFile
    <3>2. \E k \in Tokens : k \notin drawn
      BY <3>1 DEF Typed, TypeOK
    <3> QED BY <3>1, <3>2 DEF Credentials
  <2>2. CASE ~LoseFile
    <3>1. UNCHANGED <<hash, file, drawn, run, torn>>
      BY <1>1, <2>2, Zenon DEF DemoStep, MoveSample, ReuseOrder, Intake
    <3> QED BY <3>1 DEF Credentials
  <2> QED BY <2>1, <2>2
<1>2. CASE UNCHANGED vars
  BY <1>2 DEF vars, Credentials
<1> QED BY <1>1, <1>2, RunCredentials DEF Next, DemoStep
-----------------------------------------------------------------------------
(***************************************************************************)
(* The samples.                                                            *)
(***************************************************************************)
SampleInv == LocksHold /\ SamplesLone

LEMMA InitSamples == Init => SampleInv
<1> SUFFICES ASSUME Init PROVE SampleInv
  OBVIOUS
<1>1. \A s \in Samples : sample[s].count = 0 /\ run.kept[s] = Untouched
  BY NoRunType DEF Init
<1>2. \A s \in Samples : ~run.kept[s].created /\ run.kept[s].status = "none"
  BY <1>1 DEF Untouched
<1>3. "intake" \in Samples
  BY DEF Samples
<1> QED BY <1>1, <1>2, <1>3 DEF SampleInv, LocksHold, SamplesLone, Lone, IntakeLone, Locked

\* A step that leaves the samples and what the run plans for them.
LEMMA SamplesKept ==
    ASSUME SampleInv, UNCHANGED <<sample, claimed>>,
           run'.kept = run.kept, run'.claims = run.claims
    PROVE  SampleInv'
BY DEF SampleInv, LocksHold, SamplesLone, Lone, IntakeLone, Locked

\* A step after which the run plans nothing, and that opens no case.
LEMMA SamplesFreed ==
    ASSUME SampleInv, run'.kept = [s \in Samples |-> Untouched], UNCHANGED claimed,
           \A s \in Samples : sample'[s].count = sample[s].count
    PROVE  SampleInv'
<1>1. \A s \in Samples : run'.kept[s].status = "none" /\ ~run'.kept[s].created
  BY DEF Untouched
<1>2. "intake" \in Samples
  BY DEF Samples
<1> QED BY <1>1, <1>2 DEF SampleInv, LocksHold, SamplesLone, Lone, IntakeLone, Locked

LEMMA EnsureSamples == ASSUME Typed, SampleInv, EnsureSample PROVE SampleInv'
<1>1. PICK s \in Samples, k \in Kept :
          /\ run' = [run EXCEPT !.next = @ + 1, !.claims = (@ \/ s = "intake"), !.kept[s] = k]
          /\ k.created => sample[s].count = 0
          /\ (k.status # "none" /\ ~k.created) => k.status = Ensured(s, sample[s].status)
  BY EnsureFacts
<1>2. run \in Run
  BY DEF Typed, TypeOK
<1>3. run'.kept = [run.kept EXCEPT ![s] = k]
  BY <1>1, <1>2 DEF Run
<1>4. (run.claims \/ s = "intake") => run'.claims
  <2>1. (run.claims \/ s = "intake") \in BOOLEAN
    OBVIOUS
  <2>2. PICK c \in BOOLEAN : c = (run.claims \/ s = "intake")
    BY <2>1, Zenon
  <2>3. run' = [run EXCEPT !.next = @ + 1, !.claims = c, !.kept[s] = k]
    BY <1>1, <2>2, Zenon
  <2>4. run'.claims = c
    BY <1>2, <2>3 DEF Run
  <2> QED BY <2>2, <2>4, Zenon
<1>5. UNCHANGED <<sample, claimed>>
  BY DEF EnsureSample
<1>6. \A x \in Samples : run'.kept[x] = IF x = s THEN k ELSE run.kept[x]
  BY <1>2, <1>3 DEF Run
<1>7. LocksHold'
  BY <1>1, <1>5, <1>6 DEF SampleInv, LocksHold, Locked
<1>8. \A x \in Samples \ ReusedOrders : Lone(x)'
  BY <1>1, <1>5, <1>6 DEF SampleInv, SamplesLone, Lone
<1>9. "intake" \in Samples
  BY DEF Samples
<1>10. "intake" \notin ReusedOrders => IntakeLone'
  BY <1>4, <1>5, <1>6, <1>9 DEF SampleInv, SamplesLone, IntakeLone
<1> QED BY <1>7, <1>8, <1>10 DEF SampleInv, SamplesLone

LEMMA CommitSamplesSamples == ASSUME Typed, SampleInv, CommitSamples PROVE SampleInv'
<1>1. ASSUME NEW s \in Samples
      PROVE  sample'[s].count = IF run.kept[s].created THEN sample[s].count + 1
                                                       ELSE sample[s].count
  BY CommitSamplesFacts DEF Typed, Unused, Locked
<1>2. \A s \in Samples : run'.kept[s].status = "none" /\ ~run'.kept[s].created
  BY CommitSamplesRun DEF Untouched
<1>3. claimed' = (claimed \/ run.claims)
  BY Zenon DEF CommitSamples
<1>4. "intake" \in Samples
  BY DEF Samples
<1>5. LocksHold'
  BY <1>2 DEF LocksHold, Locked
<1>6. \A s \in Samples \ ReusedOrders : Lone(s)'
  BY <1>1, <1>2 DEF SampleInv, SamplesLone, Lone
<1>7. "intake" \notin ReusedOrders => IntakeLone'
  BY <1>1, <1>2, <1>3, <1>4 DEF SampleInv, SamplesLone, IntakeLone
<1> QED BY <1>5, <1>6, <1>7 DEF SampleInv, SamplesLone

LEMMA RunSamples ==
    ASSUME Typed, Credentials, SampleInv, SeedStep \/ Start \/ Dies
    PROVE  SampleInv'
<1>1. CASE Start
  <2>1. PICK normal \in BOOLEAN, k \in Tokens \cup {NoToken} :
            run' = [NoRun EXCEPT !.pc = "samples", !.normal = normal, !.token = k]
    BY <1>1, StartFacts
  <2>2. run'.kept = [s \in Samples |-> Untouched]
    BY <2>1, NoRunType DEF Run
  <2> QED BY <1>1, <2>2, SamplesFreed DEF Start
<1>2. CASE EnsureSample
  BY <1>2, EnsureSamples
<1>3. CASE CommitSamples
  BY <1>3, CommitSamplesSamples
<1>4. CASE SkipSample
  BY <1>4, SkipFacts, SamplesKept DEF SkipSample
<1>5. CASE FindsSeveral \/ LeaveSample \/ FindsSeveralLate \/ Dies
  <2>1. run'.kept = [s \in Samples |-> Untouched]
    BY <1>5, Ends, EndType
  <2>2. UNCHANGED <<sample, claimed>>
    BY <1>5 DEF FindsSeveral, LeaveSample, FindsSeveralLate, Dies
  <2> QED BY <2>1, <2>2, SamplesFreed
<1>6. CASE FinishSample
  <2>1. run'.kept = [s \in Samples |-> Untouched]
    BY <1>6, Ends, EndType
  <2>2. sample' = [sample EXCEPT !["normal"].status = "closed"] /\ UNCHANGED claimed
    BY <1>6 DEF FinishSample
  <2>3. \A s \in Samples : sample'[s].count = sample[s].count
    BY <2>2 DEF Typed, TypeOK, Sample
  <2> QED BY <2>1, <2>2, <2>3, SamplesFreed
<1>7. CASE KeepFile \/ Rotate \/ OpenFile \/ WriteFile \/ CommitToken
  <2>1. Rotate => Fresh \in Tokens
    BY FreshType DEF Rotate, Credentials
  <2>2. run.token \in Tokens \cup {NoToken}
    BY DEF Typed, TypeOK, Run
  <2>3. run'.kept = run.kept /\ run'.claims = run.claims
    BY <1>7, <2>1, <2>2, Advances, GoOnType
  <2>4. UNCHANGED <<sample, claimed>>
    BY <1>7 DEF KeepFile, Rotate, OpenFile, WriteFile, CommitToken
  <2> QED BY <2>3, <2>4, SamplesKept
<1> QED BY <1>1, <1>2, <1>3, <1>4, <1>5, <1>6, <1>7 DEF SeedStep

LEMMA MoveSamples == ASSUME Typed, SampleInv, NEW s \in Samples, MoveSample(s) PROVE SampleInv'
<1>1. PICK to \in ReturnStatus : sample' = [sample EXCEPT ![s].status = to]
  BY MoveFacts
<1>2. UNCHANGED <<claimed, run>> /\ ~Locked(s)
  BY DEF MoveSample
<1>3. \A x \in Samples : /\ sample'[x].count = sample[x].count
                         /\ x # s => sample'[x].status = sample[x].status
  BY <1>1 DEF Typed, TypeOK, Sample
<1>4. LocksHold'
  BY <1>2, <1>3 DEF SampleInv, LocksHold, Locked
<1>5. "intake" \in Samples
  BY DEF Samples
<1> QED BY <1>2, <1>3, <1>4, <1>5 DEF SampleInv, SamplesLone, Lone, IntakeLone

\* One more case of an order leaves the first one as it is.
LEMMA GrowFacts ==
    ASSUME Typed, NEW s \in Samples, sample' = [sample EXCEPT ![s].count = @ + 1]
    PROVE  \A x \in Samples :
              /\ sample'[x].status = sample[x].status
              /\ sample'[x].count = IF x = s THEN sample[x].count + 1 ELSE sample[x].count
BY DEF Typed, TypeOK, Sample

LEMMA IntakeSamples == ASSUME Typed, SampleInv, Intake PROVE SampleInv'
<1>1. "intake" \in Samples
  BY DEF Samples
<1>2. UNCHANGED run /\ ~run.claims /\ claimed' = TRUE
  BY DEF Intake
<1>3. CASE claimed
  <2>1. UNCHANGED sample
    BY <1>3 DEF Intake
  <2> QED BY <1>2, <1>3, <2>1 DEF SampleInv, LocksHold, SamplesLone, Lone, IntakeLone, Locked
<1>4. CASE ~claimed
  <2>1. sample' = [sample EXCEPT !["intake"].count = @ + 1]
    BY <1>4 DEF Intake
  <2>2. \A x \in Samples :
            /\ sample'[x].status = sample[x].status
            /\ sample'[x].count = IF x = "intake" THEN sample[x].count + 1 ELSE sample[x].count
    BY <1>1, <2>1, GrowFacts
  <2>3. LocksHold'
    BY <1>2, <2>2 DEF SampleInv, LocksHold, Locked
  <2>4. \A x \in Samples \ ReusedOrders : Lone(x)'
    BY <1>1, <1>2, <1>4, <2>2 DEF SampleInv, SamplesLone, Lone, IntakeLone
  <2>5. "intake" \notin ReusedOrders => IntakeLone'
    BY <1>2 DEF SampleInv, SamplesLone, IntakeLone
  <2> QED BY <2>3, <2>4, <2>5 DEF SampleInv, SamplesLone
<1> QED BY <1>3, <1>4

LEMMA ReuseSamples ==
    ASSUME Typed, SampleInv, NEW s \in Samples, ReuseOrder(s)
    PROVE  SampleInv'
<1>1. /\ UNCHANGED <<claimed, run>> /\ s \in ReusedOrders
      /\ sample' = [sample EXCEPT ![s].count = @ + 1]
  BY DEF ReuseOrder
<1>2. \A x \in Samples :
          /\ sample'[x].status = sample[x].status
          /\ sample'[x].count = IF x = s THEN sample[x].count + 1 ELSE sample[x].count
  BY <1>1, GrowFacts
<1>3. "intake" \in Samples
  BY DEF Samples
<1> QED BY <1>1, <1>2, <1>3 DEF SampleInv, LocksHold, SamplesLone, Lone, IntakeLone, Locked

LEMMA NextSamples == ASSUME Typed, Credentials, SampleInv, [Next]_vars PROVE SampleInv'
<1>1. CASE LoseFile
  BY <1>1, SamplesKept DEF LoseFile
<1>2. CASE UNCHANGED vars
  BY <1>2, SamplesKept DEF vars
<1> QED
  BY <1>1, <1>2, RunSamples, MoveSamples, ReuseSamples, IntakeSamples DEF Next

-----------------------------------------------------------------------------
\* What the seed knows of the credential and what it plans for the samples stays
\* true while the demo is in use (main and _initialize_automation_token_file).
THEOREM SeedHolds == Spec => []SeedInv
<1>1. Init => SeedInv
  BY InitTyped, InitCredentials, InitSamples DEF SeedInv, SampleInv
<1>2. SeedInv /\ [Next]_vars => SeedInv'
  BY NextTyped, NextCredentials, NextSamples DEF SeedInv, SampleInv
<1> QED BY <1>1, <1>2, PTL DEF Spec

\* However often the seed runs, dies and runs again, beside people and beside the
\* intake workflow, _find_case meets one case of each sample.
THEOREM SampleIsFound == Spec => []NotDuplicated
<1>1. SeedInv => NotDuplicated
  BY DEF SeedInv, SamplesLone, Lone, NotDuplicated
<1> QED BY <1>1, SeedHolds, PTL

\* A run that ended well leaves a credential file that works, whatever crashes,
\* lost races and lost files came before it, unless one of them tore the file.
THEOREM CredentialWorks == Spec => []FileWorks
<1>1. SeedInv => FileWorks
  BY DEF SeedInv, Credentials, FileWorks
<1> QED BY <1>1, SeedHolds, PTL
-----------------------------------------------------------------------------
(***************************************************************************)
(* The samples move forward.                                               *)
(***************************************************************************)
LEMMA LaterTarget ==
    ASSUME NEW s \in ReturnStatus, NEW t \in TRANSITIONS[s]
    PROVE  t \in Later[s] /\ t \in ReturnStatus
BY DeclaredMoves DEF Later

LEMMA LaterGoesOn ==
    ASSUME NEW s \in ReturnStatus, NEW t \in Later[s], NEW u \in TRANSITIONS[t]
    PROVE  u \in Later[s] /\ u \in ReturnStatus
<1>1. t \in ReturnStatus /\ \A S \in Closed : TRANSITIONS[s] \subseteq S => t \in S
  BY DEF Later
<1>2. u \in ReturnStatus
  BY <1>1, DeclaredMoves
<1>3. \A S \in Closed : TRANSITIONS[s] \subseteq S => u \in S
  BY <1>1 DEF Closed
<1> QED BY <1>2, <1>3 DEF Later

\* The way of a return from its request to its refund.
LEMMA Way ==
    /\ {"requested", "authorized", "received", "inspected", "refund_approved",
        "refunded", "reconciled"} \subseteq ReturnStatus
    /\ "rejected" \in TRANSITIONS["requested"]
    /\ "authorized" \in TRANSITIONS["requested"]
    /\ "received" \in TRANSITIONS["authorized"]
    /\ "inspected" \in TRANSITIONS["received"]
    /\ "refund_approved" \in TRANSITIONS["inspected"]
    /\ "refund_pending" \in TRANSITIONS["refund_approved"]
    /\ "reconciled" \in TRANSITIONS["refunded"]
    /\ "closed" \in TRANSITIONS["reconciled"]
BY DEF TRANSITIONS, ReturnStatus

LEMMA WayLater ==
    /\ "received" \in Later["requested"] /\ "received" \in Later["authorized"]
    /\ \A s \in {"requested", "authorized", "received"} : "inspected" \in Later[s]
    /\ \A s \in {"requested", "authorized", "received", "inspected"} :
          "refund_pending" \in Later[s]
    /\ "rejected" \in Later["requested"]
    /\ "closed" \in Later["refunded"] /\ "closed" \in Later["reconciled"]
<1>1. "authorized" \in Later["requested"] /\ "received" \in Later["authorized"]
      /\ "inspected" \in Later["received"] /\ "refund_approved" \in Later["inspected"]
      /\ "rejected" \in Later["requested"] /\ "reconciled" \in Later["refunded"]
      /\ "closed" \in Later["reconciled"]
  BY Way, LaterTarget
<1>2. "received" \in Later["requested"] /\ "inspected" \in Later["authorized"]
  BY <1>1, Way, LaterGoesOn
<1>3. "inspected" \in Later["requested"] /\ "closed" \in Later["refunded"]
  BY <1>1, <1>2, Way, LaterGoesOn
<1>4. ASSUME NEW s \in {"requested", "authorized", "received", "inspected"}
      PROVE  "refund_pending" \in Later[s]
  <2>1. s \in ReturnStatus
    BY Way
  <2>2. "refund_approved" \in Later[s]
    BY <1>1, <1>2, <1>3, <2>1, Way, LaterGoesOn
  <2> QED BY <2>1, <2>2, Way, LaterGoesOn
<1> QED BY <1>1, <1>2, <1>3, <1>4

LEMMA EnsuredLater ==
    ASSUME NEW s \in Samples, NEW status \in ReturnStatus, Ensured(s, status) # status
    PROVE  Ensured(s, status) \in Later[status]
<1>1. CASE s = "intake"
  BY <1>1 DEF Ensured
<1>2. CASE s = "rejected"
  BY <1>2, WayLater DEF Ensured
<1>3. CASE s = "warehouse"
  BY <1>3, WayLater DEF Ensured
<1>4. CASE s = "finance" \/ s = "high"
  BY <1>4, WayLater DEF Ensured, ToInspected
<1>5. CASE s = "normal"
  BY <1>5, WayLater DEF Ensured, ToInspected
<1> QED BY <1>1, <1>2, <1>3, <1>4, <1>5 DEF Samples

\* A step moves the only case of each sample forward, or leaves it.
Forward ==
    \A s \in Samples : sample[s].count = 1 /\ sample'[s].status # sample[s].status
        => sample'[s].status \in Later[sample[s].status]

LEMMA CommitForward == ASSUME SeedInv, CommitSamples PROVE Forward
<1> SUFFICES ASSUME NEW s \in Samples, sample[s].count = 1,
                    sample'[s].status # sample[s].status
             PROVE  sample'[s].status \in Later[sample[s].status]
  BY DEF Forward
<1>1. sample[s].status \in ReturnStatus
  BY DEF SeedInv, Typed, TypeOK, Sample
<1>2. Locked(s) /\ sample'[s].status = run.kept[s].status
  BY CommitSamplesFacts DEF SeedInv, Locked
<1>3. sample'[s].status = Ensured(s, sample[s].status)
  BY <1>2 DEF SeedInv, LocksHold
<1> QED BY <1>1, <1>3, EnsuredLater

LEMMA FinishForward == ASSUME SeedInv, FinishSample PROVE Forward
<1>1. /\ sample["normal"].status \in {"refunded", "reconciled"}
      /\ sample' = [sample EXCEPT !["normal"].status = "closed"]
  BY DEF FinishSample
<1>2. \A s \in Samples : sample'[s].status = IF s = "normal" THEN "closed" ELSE sample[s].status
  BY <1>1 DEF SeedInv, Typed, TypeOK, Sample
<1> QED BY <1>1, <1>2, WayLater DEF Forward

LEMMA MoveForward == ASSUME SeedInv, NEW s \in Samples, MoveSample(s) PROVE Forward
<1>1. PICK to \in ReturnStatus : /\ to \in TRANSITIONS[sample[s].status]
                                 /\ sample' = [sample EXCEPT ![s].status = to]
  BY MoveFacts DEF SeedInv
<1>2. \A x \in Samples : sample'[x].status = IF x = s THEN to ELSE sample[x].status
  BY <1>1 DEF SeedInv, Typed, TypeOK, Sample
<1>3. sample[s].status \in ReturnStatus
  BY DEF SeedInv, Typed, TypeOK, Sample
<1> QED BY <1>1, <1>2, <1>3, LaterTarget DEF Forward

LEMMA GrowForward ==
    ASSUME SeedInv, NEW s \in Samples, sample' = [sample EXCEPT ![s].count = @ + 1]
    PROVE  Forward
BY GrowFacts DEF SeedInv, Forward

LEMMA NextForward == SeedInv /\ [Next]_vars => Forward
<1> SUFFICES ASSUME SeedInv, [Next]_vars PROVE Forward
  OBVIOUS
<1>1. CASE UNCHANGED sample
  BY <1>1 DEF Forward
<1>2. CASE Intake
  <2>1. CASE ~claimed
    <3>1. sample' = [sample EXCEPT !["intake"].count = @ + 1] /\ "intake" \in Samples
      BY <1>2, <2>1 DEF Intake, Samples
    <3> QED BY <3>1, GrowForward
  <2>2. CASE claimed
    BY <1>1, <1>2, <2>2 DEF Intake
  <2> QED BY <2>1, <2>2
<1>3. ASSUME NEW s \in Samples, ReuseOrder(s) PROVE Forward
  BY <1>3, GrowForward DEF ReuseOrder
<1>4. CASE SeedStep \/ Start \/ Dies \/ LoseFile \/ UNCHANGED vars
  <2>1. UNCHANGED sample \/ CommitSamples \/ FinishSample
    BY <1>4, Zenon
    DEF SeedStep, Start, Dies, LoseFile, vars, FindsSeveral, EnsureSample, SkipSample, KeepFile,
        Rotate, OpenFile, WriteFile, CommitToken, LeaveSample, FindsSeveralLate
  <2> QED BY <1>1, <2>1, CommitForward, FinishForward
<1> QED BY <1>2, <1>3, <1>4, MoveForward DEF Next

\* The seed and the demo only take a sample to statuses that lie after its own:
\* what people did between the look of the seed and its commit is not undone.
THEOREM SamplesGoForward == Spec => SamplesMoveForward
<1> DEFINE Ahead == \A s \in Samples : sample[s].count = 1 /\ sample'[s].status # sample[s].status
                        => sample'[s].status \in Later[sample[s].status]
<1>1. SeedInv /\ [Next]_vars => [Ahead]_vars
  BY NextForward DEF Forward
<1>2. [Ahead]_vars <=> [\A s \in Samples :
                            sample[s].count = 1 /\ sample'[s].status # sample[s].status
                               => sample'[s].status \in Later[sample[s].status]]_vars
  OBVIOUS
<1> HIDE DEF Ahead
<1> QED BY <1>1, <1>2, SeedHolds, PTL DEF Spec, SamplesMoveForward
=============================================================================
