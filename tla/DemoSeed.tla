------------------------------ MODULE DemoSeed ------------------------------
(***************************************************************************)
(* The demo seed (seed.py), which start-demo runs and reruns beside a      *)
(* system in use: one transaction that finds or creates the identities and *)
(* the sample cases and brings each sample as far as the demo wants it,    *)
(* then the credential file of the automation user, then the end of the    *)
(* sample that is refunded for real.                                       *)
(*                                                                         *)
(* People, the worker and the intake workflow act on the samples at the    *)
(* same time.  A sample the seed has updated is locked until it commits;   *)
(* a race it loses aborts the whole transaction.  The file is outside of   *)
(* any transaction.                                                        *)
(***************************************************************************)
EXTENDS Naturals, Sequences, Functions, ReturnStates

CONSTANTS
    Order,            \* the samples main() ensures, in its order
    Tokens, NoToken,  \* API tokens
    MaxFaults,        \* bound: crashes, lost races, credential files lost
    ReusedOrders      \* samples for whose orders people may open returns

\* The samples of main().  An instance may leave some out of Order.
Samples == {"intake", "rejected", "warehouse", "finance", "high", "normal"}

ASSUME OrderAssumption == Order \in Seq(Samples) /\ IsInjective(Order)
\* Tokens never run out: there is a second one, and none looks like no token.
ASSUME TokensAssumption ==
    /\ Tokens \cap {NoToken, "absent", "torn"} = {}
    /\ \E j, k \in Tokens : j # k
ASSUME ReusedAssumption == ReusedOrders \in SUBSET Samples
ASSUME FaultsAssumption == MaxFaults \in Nat

VARIABLES
    sample,   \* by sample: how many cases have its order, status of the first one
    claimed,  \* is there a record of the intake event's key?
    hash,     \* the token the automation user is known by, NoToken before it exists
    file,     \* the credential file
    drawn,    \* tokens a database or a file has ever held
    run,      \* the seed process
    torn,     \* history: did a run die between opening the file and its commit?
    faults

vars == <<sample, claimed, hash, file, drawn, run, torn, faults>>

Sample == [count : Nat, status : ReturnStatus]
Kept == [status : ReturnStatus \cup {"none"}, created : BOOLEAN]
Run == [pc : {"idle", "samples", "committed", "rotated", "writing", "written",
              "finishing", "done", "broken"},
        next : Nat, token : Tokens \cup {NoToken}, claims : BOOLEAN, normal : BOOLEAN,
        kept : [Samples -> Kept]]

\* Rows, the file and the process keep their types.
TypeOK ==
    /\ sample \in [Samples -> Sample]
    /\ claimed \in BOOLEAN
    /\ hash \in Tokens \cup {NoToken}
    /\ file \in Tokens \cup {"absent", "torn"}
    /\ drawn \in SUBSET Tokens
    /\ run \in Run
    /\ torn \in BOOLEAN
    /\ faults \in Nat

-----------------------------------------------------------------------------
Untouched == [status |-> "none", created |-> FALSE]
NoRun == [pc |-> "idle", next |-> 1, token |-> NoToken, claims |-> FALSE, normal |-> FALSE,
          kept |-> [s \in Samples |-> Untouched]]

Init ==
    /\ sample = [s \in Samples |-> [count |-> 0, status |-> "requested"]]
    /\ claimed = FALSE
    /\ hash = NoToken
    /\ file = "absent"
    /\ drawn = {}
    /\ run = NoRun
    /\ torn = FALSE
    /\ faults = 0

\* secrets.token_urlsafe; which of the unused tokens it is makes no difference.
Fresh == CHOOSE k \in Tokens : k \notin drawn

Fault == faults < MaxFaults /\ faults' = faults + 1   \* bound

\* Rows the transaction of the run has updated.
Locked(s) == run.kept[s].status # "none" /\ ~run.kept[s].created

-----------------------------------------------------------------------------
(***************************************************************************)
(* The seed.                                                               *)
(***************************************************************************)
ToInspected(status) ==
    IF status \in {"requested", "authorized", "received"} THEN "inspected" ELSE status

\* How far each _ensure_..._sample brings a sample it finds in a status.
Ensured(s, status) ==
    CASE s = "intake"    -> status
      [] s = "rejected"  -> IF status = "requested" THEN "rejected" ELSE status
      [] s = "warehouse" -> IF status \in {"requested", "authorized"} THEN "received" ELSE status
      [] s \in {"finance", "high"} -> ToInspected(status)
      [] s = "normal"    -> IF ToInspected(status) = "inspected" THEN "refund_pending" ELSE status

\* A run starts; a first one creates the identities and keeps the token it drew.
Start ==
    /\ run.pc \in {"idle", "done", "broken"}
    /\ \E normal \in BOOLEAN :
          IF hash = NoToken
          THEN run' = [NoRun EXCEPT !.pc = "samples", !.normal = normal, !.token = Fresh]
          ELSE run' = [NoRun EXCEPT !.pc = "samples", !.normal = normal]
    /\ UNCHANGED <<sample, claimed, hash, file, drawn, torn, faults>>

Sampling == run.pc = "samples" /\ run.next <= Len(Order)
Current == Order[run.next]
Skips(s) == \/ s = "normal" /\ ~run.normal
            \/ s = "intake" /\ claimed

\* _find_case meets several cases of one order: the run ends with an exception.
FindsSeveral ==
    /\ Sampling /\ ~Skips(Current) /\ sample[Current].count > 1
    /\ run' = [NoRun EXCEPT !.pc = "broken"]
    /\ UNCHANGED <<sample, claimed, hash, file, drawn, torn, faults>>

\* Mutated form: a sample that has gone further is brought back.
EnsureSampleAfresh ==
    LET s == Current
    IN  /\ Sampling /\ ~Skips(s) /\ sample[s].count <= 1
        /\ run' = [run EXCEPT !.next = @ + 1, !.claims = (@ \/ s = "intake"),
                              !.kept[s] = [status |-> Ensured(s, "requested"),
                                           created |-> sample[s].count = 0]]
        /\ UNCHANGED <<sample, claimed, hash, file, drawn, torn, faults>>

\* Find or create a sample and bring it forward.
EnsureSample ==
    LET s == Current
        row == sample[s]
        status == Ensured(s, IF row.count = 0 THEN "requested" ELSE row.status)
    IN  /\ Sampling /\ ~Skips(s) /\ row.count <= 1
        /\ run' = [run EXCEPT
                     !.next = @ + 1,
                     !.claims = (@ \/ s = "intake"),
                     !.kept[s] = IF row.count = 1 /\ row.status = status
                                 THEN Untouched
                                 ELSE [status |-> status, created |-> row.count = 0]]
        /\ UNCHANGED <<sample, claimed, hash, file, drawn, torn, faults>>

SkipSample ==
    /\ Sampling /\ Skips(Current)
    /\ run' = [run EXCEPT !.next = @ + 1]
    /\ UNCHANGED <<sample, claimed, hash, file, drawn, torn, faults>>

\* The commit of everything so far.  A case created for an order somebody has
\* used in the meantime is one more case of that order.
CommitSamples ==
    /\ run.pc = "samples" /\ run.next > Len(Order)
    /\ sample' = [s \in Samples |->
          LET kept == run.kept[s] IN
          CASE kept.status = "none"           -> sample[s]
            [] kept.created /\ sample[s].count > 0 -> [sample[s] EXCEPT !.count = @ + 1]
            [] OTHER -> [count |-> IF kept.created THEN 1 ELSE sample[s].count,
                         status |-> kept.status]]
    /\ claimed' = (claimed \/ run.claims)
    /\ hash' = IF run.token # NoToken THEN run.token ELSE hash
    /\ run' = [run EXCEPT !.pc = "committed", !.kept = NoRun.kept]
    /\ drawn' = drawn \cup ({run.token} \ {NoToken})
    /\ UNCHANGED <<file, torn, faults>>

\* Mutated form: any credential is taken as good, a missing one too.
KeepFileUnseen ==
    /\ run.pc = "committed" /\ run.token = NoToken
    /\ run' = [run EXCEPT !.pc = "finishing"]
    /\ UNCHANGED <<sample, claimed, hash, file, drawn, torn, faults>>

\* _initialize_automation_token_file: a file that exists is taken as good ...
KeepFile ==
    /\ run.pc = "committed" /\ run.token = NoToken /\ file # "absent"
    /\ run' = [run EXCEPT !.pc = "finishing"]
    /\ UNCHANGED <<sample, claimed, hash, file, drawn, torn, faults>>

\* ... a missing one is replaced under a new token, whose hash is flushed first.
Rotate ==
    /\ run.pc = "committed" /\ run.token = NoToken /\ file = "absent"
    /\ run' = [run EXCEPT !.pc = "rotated", !.token = Fresh]
    /\ UNCHANGED <<sample, claimed, hash, file, drawn, torn, faults>>

\* write_text opens and truncates, then writes.
OpenFile ==
    /\ \/ run.pc = "committed" /\ run.token # NoToken
       \/ run.pc = "rotated"
    /\ file' = "torn"
    /\ drawn' = drawn \cup {run.token}
    /\ run' = [run EXCEPT !.pc = "writing"]
    /\ UNCHANGED <<sample, claimed, hash, torn, faults>>

WriteFile ==
    /\ run.pc = "writing"
    /\ file' = run.token
    /\ run' = [run EXCEPT !.pc = "written"]
    /\ UNCHANGED <<sample, claimed, hash, drawn, torn, faults>>

\* Mutated form: the rotated hash is never committed.
CommitTokenForgotten ==
    /\ run.pc = "written"
    /\ run' = [run EXCEPT !.pc = "finishing"]
    /\ UNCHANGED <<sample, claimed, hash, file, drawn, torn, faults>>

\* The commit of a rotation; a first token has been committed before.
CommitToken ==
    /\ run.pc = "written"
    /\ hash' = run.token
    /\ run' = [run EXCEPT !.pc = "finishing"]
    /\ UNCHANGED <<sample, claimed, file, drawn, torn, faults>>

\* _finish_normal_sample: reconcile and close in one commit, once it is refunded;
\* give up on an exception, an end, or after sixty looks.
FinishSample ==
    /\ run.pc = "finishing" /\ run.normal /\ sample["normal"].count = 1
    /\ sample["normal"].status \in {"refunded", "reconciled"}
    /\ sample' = [sample EXCEPT !["normal"].status = "closed"]
    /\ run' = [NoRun EXCEPT !.pc = "done"]
    /\ UNCHANGED <<claimed, hash, file, drawn, torn, faults>>

LeaveSample ==
    /\ run.pc = "finishing"
    /\ ~(run.normal /\ sample["normal"].count > 1)
    /\ run' = [NoRun EXCEPT !.pc = "done"]
    /\ UNCHANGED <<sample, claimed, hash, file, drawn, torn, faults>>

FindsSeveralLate ==
    /\ run.pc = "finishing" /\ run.normal /\ sample["normal"].count > 1
    /\ run' = [NoRun EXCEPT !.pc = "broken"]
    /\ UNCHANGED <<sample, claimed, hash, file, drawn, torn, faults>>

\* The run dies, or a lost race ends it: its transaction rolls back.
Dies ==
    /\ run.pc \notin {"idle", "done", "broken"}
    /\ run' = NoRun
    /\ torn' = (torn \/ run.pc \in {"writing", "written"})
    /\ Fault
    /\ UNCHANGED <<sample, claimed, hash, file, drawn>>

-----------------------------------------------------------------------------
(***************************************************************************)
(* The demo in use.                                                        *)
(***************************************************************************)
\* People and the worker move a sample along the declared state machine.
MoveSample(s) ==
    /\ sample[s].count > 0 /\ ~Locked(s)
    /\ \E to \in TRANSITIONS[sample[s].status] :
          sample' = [sample EXCEPT ![s].status = to]
    /\ UNCHANGED <<claimed, hash, file, drawn, run, torn, faults>>

\* Mutated form: the workflow's key is not the one the seed claims.
IntakeKeyedApart ==
    /\ hash # NoToken /\ sample["intake"].count < 2
    /\ claimed' = TRUE
    /\ sample' = [sample EXCEPT !["intake"].count = @ + 1]
    /\ UNCHANGED <<hash, file, drawn, run, torn, faults>>

\* The workflow delivers the intake event: a claimed key is replayed.  While the
\* seed holds the key it waits.
Intake ==
    /\ hash # NoToken /\ ~run.claims
    /\ claimed' = TRUE
    /\ sample' = IF claimed THEN sample ELSE [sample EXCEPT !["intake"].count = @ + 1]
    /\ UNCHANGED <<hash, file, drawn, run, torn, faults>>

\* Somebody opens a return for the order of a sample.
ReuseOrder(s) ==
    /\ s \in ReusedOrders /\ hash # NoToken /\ sample[s].count < 2   \* bound
    /\ sample' = [sample EXCEPT ![s].count = @ + 1]
    /\ UNCHANGED <<claimed, hash, file, drawn, run, torn, faults>>

\* The credential file is deleted, as on a fresh checkout beside an old volume.
LoseFile ==
    /\ run.pc \in {"idle", "done", "broken"} /\ file # "absent"
    /\ Tokens # drawn   \* bound
    /\ file' = "absent"
    /\ Fault
    /\ UNCHANGED <<sample, claimed, hash, drawn, run, torn>>

SeedStep ==
    \/ FindsSeveral \/ EnsureSample \/ SkipSample \/ CommitSamples
    \/ KeepFile \/ Rotate \/ OpenFile \/ WriteFile \/ CommitToken
    \/ FinishSample \/ LeaveSample \/ FindsSeveralLate

Next ==
    \/ Start \/ SeedStep \/ Dies
    \/ \E s \in Samples : MoveSample(s) \/ ReuseOrder(s)
    \/ Intake \/ LoseFile

Spec == Init /\ [][Next]_vars

\* A rerun is started after a run that failed, and a run goes on: it waits for
\* nobody but the transactions of the demo, which are short.
RerunSpec == Spec /\ WF_vars(Start) /\ WF_vars(SeedStep)

-----------------------------------------------------------------------------
(***************************************************************************)
(* Properties.                                                             *)
(***************************************************************************)
\* The statuses that lie after a status: whatever contains its targets, and those
\* of its members, contains them.
Closed == {S \in SUBSET ReturnStatus : \A s \in S : TRANSITIONS[s] \subseteq S}
Later == [s \in ReturnStatus |->
            {t \in ReturnStatus : \A S \in Closed : TRANSITIONS[s] \subseteq S => t \in S}]

\* The seed never brings a sample back that people have moved on, whatever it
\* found when it looked and whatever they did until it committed.
SamplesMoveForward ==
    [][\A s \in Samples : sample[s].count = 1 /\ sample'[s].status # sample[s].status
          => sample'[s].status \in Later[sample[s].status]]_vars

\* A sample has one case, however often the seed runs, dies and runs again, and
\* whether the intake event comes before, between or after its runs.
\* Only an order that people open returns for may have several.
NotDuplicated == \A s \in Samples \ ReusedOrders : sample[s].count <= 1

\* After a run that ended well the credential in the file is the one the API
\* knows, until the file is lost: whatever failed before, unless a run died
\* between opening the file and committing the token it wrote.
FileWorks == run.pc = "done" => file \in {"absent", hash} \/ torn

\* A lost credential file is finally replaced by one that works, unless a torn
\* file is in the way or an order with several cases stops each run.
CredentialRecovers ==
    file = "absent" ~> \/ file = hash /\ file # "absent"
                       \/ torn
                       \/ \E s \in ReusedOrders : sample[s].count > 1
=============================================================================
