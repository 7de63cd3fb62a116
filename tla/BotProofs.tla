------------------------------ MODULE BotProofs ------------------------------
(* Theorems about TaskBots, for every set of instructions, every number of   *)
(* attempts and every bound.                                                 *)
EXTENDS TaskBots, TLAPS

USE BotAssumption, NoRecordIsNone
-----------------------------------------------------------------------------
(* The inductive invariant *)

\* What holds of the record and of every copy a thread holds.
Grounded(r) ==
    /\ r.state = "completed" => evidence /\ r.proof = "verified"
    /\ r.state = "cancelled" => asked /\ r.proof # "missing"
    /\ r.artifacts => evidence
    /\ r.cancel => asked
    /\ r.pending \subseteq accepted
    /\ supervisor # "off" => r.beat >= Lapsed
    /\ worker = "starting" => r.beat >= Cut

InUse == {disk} \cup {held[a] : a \in Actor}

Records == \A r \in Record : r \in InUse => Grounded(r)

\* What holds of the edits a thread has still to make.
Fit(a, s) ==
    \A i \in 1..Len(s) :
        /\ s[i] \in {"attach", "complete"} => evidence
        /\ s[i] \in {"flag", "cancel"} => asked
        /\ s[i] \in Note => a = "user" /\ i = 1 /\ s[i] \notin accepted
        /\ s[i] \in {"verified", "complete"} => a = "worker" /\ ~stopped
        /\ s[i] = "verified" => i + 1 \in 1..Len(s) /\ s[i + 1] = "complete"

Program == Seq(EditName \cup Note)

Edits == \A a \in Actor : \A s \in Program : s = todo[a] => Fit(a, s)

\* Before there is a record nothing has happened.
Blank ==
    ~Exists => /\ \A a \in Actor : todo[a] = <<>>
               /\ worker = "off" /\ supervisor = "off"
               /\ attempts = MaxAttempts
               /\ accepted = {} /\ taken = {}

Ghosts ==
    /\ worker = "starting" => attempts = MaxAttempts
    /\ worker = "proved" => evidence
    /\ taken \subseteq accepted
    /\ stopped => Exists /\ disk.state = "cancelled"

IInv == TypeOK /\ Records /\ Edits /\ Blank /\ Ghosts /\ InstructionsKept
-----------------------------------------------------------------------------
(* Sequences and records *)

LEMMA HeadAndTail ==
    ASSUME NEW S, NEW s \in Seq(S), s # <<>>
    PROVE  /\ Head(s) = s[1] /\ Head(s) \in S /\ 1 \in 1..Len(s)
           /\ Tail(s) \in Seq(S) /\ Len(Tail(s)) = Len(s) - 1
           /\ \A i \in 1..Len(Tail(s)) : Tail(s)[i] = s[i + 1] /\ i + 1 \in 1..Len(s)
  OBVIOUS

Proof == {"missing", "pending", "verified", "failed", "cancelled"}

\* What an edit does to the fields the invariant speaks of.
LEMMA WrittenRecord ==
    ASSUME NEW r \in Record, NEW e \in EditName \cup Note, booting \in BOOLEAN
    PROVE  /\ Written(e, r) \in Record
           /\ Written(e, r).state = "completed" => e = "complete" \/ (r.state = "completed" /\ Written(e, r).proof \in {r.proof, "verified"})
           /\ e = "complete" => Written(e, r).proof = "verified"
           /\ Written(e, r).state = "cancelled" =>
                \/ e = "cancel" /\ Written(e, r).proof = "cancelled"
                \/ r.state = "cancelled" /\ Written(e, r).proof \in {r.proof, "verified"}
           /\ Written(e, r).state = "verified" => e = "verified" \/ r.state = "verified"
           /\ Written(e, r).artifacts => e = "attach" \/ r.artifacts
           /\ Written(e, r).cancel => e = "flag" \/ r.cancel
           /\ Written(e, r).pending = IF e \in Note THEN r.pending \cup {e}
                                      ELSE IF e = "take" THEN {} ELSE r.pending
           /\ Written(e, r).beat \in {r.beat, Cut, Recent}
<1> DEFINE w == Written(e, r)
<1>0. r.state \in State /\ r.proof \in Proof
    BY DEF Record, Proof
<1>1. CASE e \in Note
  <2>1. w = [r EXCEPT !.pending = @ \cup {e}]
    BY <1>1 DEF Written, EditName
  <2>2. e \notin EditName
    BY <1>1
  <2>3. QED BY <1>1, <2>1, <2>2 DEF Record, EditName
<1>2. CASE e \in {"take", "flag", "attach", "verify"}
  <2>1. e \notin Note
    BY <1>2 DEF EditName
  <2>2. /\ e = "take" => w = [r EXCEPT !.pending = {}]
        /\ e = "flag" => w = [r EXCEPT !.cancel = TRUE]
        /\ e = "attach" => w = [r EXCEPT !.artifacts = TRUE]
        /\ e = "verify" => w = r
    BY <1>2, <2>1 DEF Written, Drained
  <2>3. QED BY <1>2, <2>1, <2>2 DEF Record
<1>3. CASE e \in {"start", "progress", "told", "proved", "verified", "complete",
                  "unproven", "fail", "hold", "cancel"}
  <2>1. e \notin Note
    BY <1>3 DEF EditName
  <2>2. /\ e = "start" => w = Updated(r, "executing", r.proof, FALSE)
        /\ e = "progress" => w = Updated(r, r.state, r.proof, FALSE)
        /\ e = "told" => w = Updated(r, r.state, r.proof, TRUE)
        /\ e = "proved" => w = Updated(r, r.state, "verified", TRUE)
        /\ e = "verified" => w = Updated(r, "verified", "verified", TRUE)
        /\ e = "complete" => w = Updated(r, "completed", "verified", FALSE)
        /\ e \in {"unproven", "fail"} => w = Updated(r, "failed", "failed", FALSE)
        /\ e = "hold" => w = Updated(r, "awaiting_proof", "pending", TRUE)
        /\ e = "cancel" => w = Updated(r, "cancelled", "cancelled", FALSE)
    BY <1>3, <2>1 DEF Written
  <2>3. /\ "executing" \in State /\ "verified" \in State /\ "completed" \in State
        /\ "failed" \in State /\ "awaiting_proof" \in State /\ "cancelled" \in State
    BY DEF State, Closed, Ended
  <2> DEFINE Like(s, p) ==
               /\ w \in Record /\ w.state = s /\ w.proof = p
               /\ w.artifacts = r.artifacts /\ w.cancel = r.cancel
               /\ w.pending = r.pending /\ w.beat \in {r.beat, Cut, Recent}
  <2>4. ASSUME NEW s \in State, NEW p \in Proof,
               w = Updated(r, s, p, TRUE) \/ w = Updated(r, s, p, FALSE)
        PROVE  Like(s, p)
    <3> HIDE DEF w
    <3>1. PICK b \in {r.beat, Cut, Recent} :
              w = [r EXCEPT !.state = s, !.proof = p, !.beat = b]
        BY <2>4 DEF Updated, Stamp
    <3>2. b \in Idle..Recent
        BY DEF Record, Idle, Cut, Recent
    <3>3. QED BY <3>1, <3>2 DEF Record, Proof, Like
  <2>5. "verified" \in Proof /\ "failed" \in Proof /\ "pending" \in Proof /\ "cancelled" \in Proof
    BY DEF Proof
  <2> HIDE DEF w, Like
  <2>6. /\ e = "start" => Like("executing", r.proof)
        /\ e \in {"progress", "told"} => Like(r.state, r.proof)
        /\ e = "proved" => Like(r.state, "verified")
        /\ e = "verified" => Like("verified", "verified")
        /\ e = "complete" => Like("completed", "verified")
        /\ e \in {"unproven", "fail"} => Like("failed", "failed")
        /\ e = "hold" => Like("awaiting_proof", "pending")
        /\ e = "cancel" => Like("cancelled", "cancelled")
    BY <1>0, <2>2, <2>3, <2>4, <2>5
  <2> USE DEF Like
  <2>7. QED BY <1>3, <2>1, <2>6 DEF w
<1>4. QED BY <1>1, <1>2, <1>3 DEF EditName

\* An edit of this sort needs no ground.
Plain == {"progress", "told", "take", "start", "proved", "verify", "unproven",
          "hold", "fail"}

LEMMA PlainFits ==
    ASSUME NEW a \in Actor, NEW s \in Program,
           \A i \in 1..Len(s) : s[i] \in Plain
    PROVE  Fit(a, s) /\ Fit(a, s)'
<1>1. Plain \cap Note = {}
    BY DEF Plain, EditName
<1>2. QED BY <1>1 DEF Fit, Plain
-----------------------------------------------------------------------------
(* Steps that leave the record alone *)

\* The invariant's parts survive a thread's decision.
LEMMA RecordsKeep ==
    ASSUME TypeOK, TypeOK', Records, disk' = disk,
           \A b \in Actor : held'[b] \in {held[b], disk, NoRecord},
           accepted' = accepted, evidence => evidence', asked => asked',
           supervisor' # "off" => supervisor # "off" \/ worker = "starting",
           worker' = "starting" => worker = "starting"
    PROVE  Records'
<1> SUFFICES ASSUME NEW r \in Record, r \in InUse'
             PROVE  Grounded(r)'
    BY DEF Records
<1>1. r \in InUse
    BY DEF InUse
<1>2. Grounded(r)
    BY <1>1 DEF Records
<1>3. r.beat \in Nat /\ Cut \in Nat /\ Lapsed \in Nat /\ Lapsed <= Cut
    BY DEF Record, Idle, Lapsed, Cut, Recent
<1>4. QED BY <1>2, <1>3 DEF Grounded

LEMMA EditsKeep ==
    ASSUME TypeOK, Edits, NEW a \in Actor, NEW s \in Program,
           todo' = [todo EXCEPT ![a] = s], Fit(a, s)',
           accepted' = accepted, stopped' = stopped,
           evidence => evidence', asked => asked'
    PROVE  Edits'
<1> SUFFICES ASSUME NEW b \in Actor, NEW p \in Program, p = todo'[b]
             PROVE  Fit(b, p)'
    BY DEF Edits
<1>1. CASE b = a
    BY <1>1 DEF TypeOK
<1>2. CASE b # a
  <2>1. p = todo[b]
    BY <1>2 DEF TypeOK
  <2>2. Fit(b, p)
    BY <2>1 DEF Edits
  <2>3. QED BY <2>2 DEF Fit
<1>3. QED BY <1>1, <1>2

LEMMA EditsStay ==
    ASSUME Edits, todo' = todo, accepted' = accepted, stopped' = stopped,
           evidence => evidence', asked => asked'
    PROVE  Edits'
<1> SUFFICES ASSUME NEW b \in Actor, NEW p \in Program, p = todo'[b]
             PROVE  Fit(b, p)'
    BY DEF Edits
<1>1. Fit(b, p)
    BY DEF Edits
<1>2. QED BY <1>1 DEF Fit

\* A decision on a record that exists.
LEMMA Decision ==
    ASSUME IInv, TypeOK', Edits', disk' = disk,
           Exists \/ UNCHANGED <<todo, worker, supervisor, attempts>>,
           \A b \in Actor : held'[b] \in {held[b], disk, NoRecord},
           accepted' = accepted, taken' = taken, stopped' = stopped,
           overwrote' = overwrote, evidence => evidence', asked => asked',
           supervisor' # "off" => supervisor # "off" \/ worker = "starting",
           worker' = "starting" => worker = "starting" /\ attempts' = attempts,
           worker' = "proved" => evidence'
    PROVE  IInv'
<1>1. Records'
    BY RecordsKeep DEF IInv
<1>2. Blank'
    BY DEF IInv, Blank, Exists
<1>3. Ghosts'
    BY DEF IInv, Ghosts, Exists
<1>4. InstructionsKept'
    BY DEF IInv, InstructionsKept, Exists
<1>5. QED BY <1>1, <1>2, <1>3, <1>4 DEF IInv

LEMMA ReadKeeps ==
    ASSUME IInv, NEW a \in Actor, Read(a)
    PROVE  IInv'
<1>1. Exists
    BY DEF IInv, Blank, Read, Free
<1>2. TypeOK'
    BY <1>1 DEF IInv, TypeOK, Read, Free
<1>3. Edits'
    BY EditsStay DEF IInv, Read
<1>4. \A b \in Actor : held'[b] \in {held[b], disk, NoRecord}
    BY DEF IInv, TypeOK, Read
<1>5. /\ disk' = disk /\ worker' = worker /\ supervisor' = supervisor
      /\ attempts' = attempts /\ accepted' = accepted /\ taken' = taken
      /\ stopped' = stopped /\ overwrote' = overwrote
      /\ evidence' = evidence /\ asked' = asked
    BY DEF Read
<1>6. (evidence => evidence') /\ (asked => asked') /\ (worker' = "proved" => evidence')
    BY <1>5 DEF IInv, Ghosts
<1>7. QED BY <1>1, <1>2, <1>3, <1>4, <1>5, <1>6, Decision

LEMMA RefusedKeeps ==
    ASSUME IInv, Refused
    PROVE  IInv'
<1>1. Exists
    BY DEF IInv, TypeOK, Blank, Refused, Free, Actor
<1>2. TypeOK'
    BY DEF IInv, TypeOK, Refused, Free, Begin, Actor
<1>3. Edits'
  <2>1. <<>> \in Program /\ Fit("worker", <<>>)'
    BY DEF Program, Fit
  <2>2. QED BY <2>1, EditsKeep DEF IInv, Refused, Begin, Actor
<1>4. \A b \in Actor : held'[b] \in {held[b], disk, NoRecord}
    BY DEF IInv, TypeOK, Refused
<1>5. QED BY <1>1, <1>2, <1>3, <1>4, Decision DEF Refused

\* The programs a thread may begin.
LEMMA Programs ==
    ASSUME NEW a \in Actor
    PROVE  /\ <<>> \in Program /\ Fit(a, <<>>)'
           /\ Attempt \in Program /\ Attempt # <<>> /\ Fit(a, Attempt)'
           /\ \A e \in Plain : <<e>> \in Program /\ <<e>> # <<>> /\ Fit(a, <<e>>)'
<1>1. <<>> \in Program /\ Fit(a, <<>>)'
    BY DEF Program, Fit
<1>2. Attempt \in Program /\ Attempt # <<>> /\ \A i \in 1..Len(Attempt) : Attempt[i] \in Plain
    BY DEF Attempt, Program, EditName, Plain
<1>3. ASSUME NEW e \in Plain
      PROVE  <<e>> \in Program /\ <<e>> # <<>> /\ \A i \in 1..Len(<<e>>) : <<e>>[i] \in Plain
    BY DEF Program, EditName, Plain
<1>4. Fit(a, Attempt)' /\ \A e \in Plain : Fit(a, <<e>>)'
    BY <1>2, <1>3, PlainFits
<1>5. QED BY <1>1, <1>2, <1>3, <1>4

LEMMA CancelFits ==
    ASSUME NEW a \in Actor, asked'
    PROVE  <<"cancel">> \in Program /\ Fit(a, <<"cancel">>)'
<1>1. "cancel" \in EditName /\ "cancel" \notin Note
    BY DEF EditName
<1>2. QED BY <1>1 DEF Program, Fit

\* A record that says the user asked for a stop belongs to a run asked to stop.
LEMMA FlagIsAsked ==
    ASSUME IInv, Exists, disk.cancel
    PROVE  asked
  BY DEF IInv, TypeOK, Records, InUse, Grounded, Exists

LEMMA DispatchKeeps ==
    ASSUME IInv, Dispatch
    PROVE  IInv'
<1>1. Exists
    BY DEF IInv, Blank, Dispatch
<1>2. attempts' \in 0..MaxAttempts
    BY DEF IInv, TypeOK, Ghosts, Dispatch
<1>3. TypeOK'
    BY <1>1, <1>2, Programs DEF IInv, TypeOK, Dispatch, Free, Start, Begin, Actor, Apart, Program, Exists
<1>4. Edits'
    BY Programs, EditsKeep DEF IInv, Dispatch, Start, Begin, Actor, Apart
<1>5. \A b \in Actor : held'[b] \in {held[b], disk, NoRecord}
    BY DEF IInv, TypeOK, Dispatch, Start
<1>6. QED BY <1>1, <1>3, <1>4, <1>5, Decision DEF Dispatch, Apart

LEMMA EventKeeps ==
    ASSUME IInv, Event
    PROVE  IInv'
<1>1. Exists
    BY DEF IInv, Blank, Event, Running
<1>2. TypeOK'
    BY DEF IInv, TypeOK, Event, Free, Apart
<1>3. Edits'
    BY EditsStay DEF IInv, Event, Apart
<1>4. QED BY <1>1, <1>2, <1>3, Decision DEF Event, Apart

LEMMA StepKeeps ==
    ASSUME IInv, Step
    PROVE  IInv'
<1>1. Exists
    BY DEF IInv, Blank, Step
<1>2. PICK s \in Program : todo' = [todo EXCEPT !["worker"] = s] /\ s # <<>> /\ Fit("worker", s)'
    BY <1>1, Programs, CancelFits, FlagIsAsked DEF Step, Begin, Apart, Actor, Plain
<1>3. TypeOK'
    BY <1>2 DEF IInv, TypeOK, Step, Free, Apart, Actor, Program
<1>4. Edits'
    BY <1>2, EditsKeep DEF IInv, Step, Apart, Actor
<1>5. QED BY <1>1, <1>3, <1>4, Decision DEF Step, Apart

LEMMA RetryKeeps ==
    ASSUME IInv, Retry \/ ProofLost
    PROVE  IInv'
<1>1. Exists
    BY DEF IInv, Blank, Retry, Running, ProofLost
<1>2. PICK s \in Program : /\ todo' = [todo EXCEPT !["worker"] = s] /\ s # <<>>
                           /\ Fit("worker", s)'
                           /\ held' = [held EXCEPT !["worker"] = disk]
    BY Programs DEF Retry, ProofLost, Retried, Start, Begin, Actor, Plain
<1>3. attempts' \in 0..MaxAttempts
    BY DEF IInv, TypeOK, Retry, ProofLost, Retried
<1>4. worker' \in {"running", "off"} /\ disk' = disk /\ supervisor' = supervisor
      /\ evidence' = evidence /\ UNCHANGED Apart
    BY DEF Retry, ProofLost, Retried
<1>5. TypeOK'
    BY <1>1, <1>2, <1>3, <1>4 DEF IInv, TypeOK, Free, Actor, Program, Apart, Exists
<1>6. Edits'
    BY <1>2, <1>4, EditsKeep DEF IInv, Apart, Actor
<1>7. \A b \in Actor : held'[b] \in {held[b], disk, NoRecord}
    BY <1>2 DEF IInv, TypeOK
<1>8. QED BY <1>1, <1>4, <1>5, <1>6, <1>7, Decision DEF Apart

LEMMA GiveUpKeeps ==
    ASSUME IInv, GiveUp
    PROVE  IInv'
<1>1. Exists
    BY DEF IInv, Blank, GiveUp, Running
<1>2. PICK s \in Program : /\ todo' = [todo EXCEPT !["worker"] = s] /\ s # <<>>
                           /\ Fit("worker", s)'
                           /\ held' = [held EXCEPT !["worker"] = disk]
    BY Programs DEF GiveUp, Start, Begin, Actor, Plain
<1>3. TypeOK'
    BY <1>1, <1>2 DEF IInv, TypeOK, GiveUp, Free, Actor, Program, Apart, Exists
<1>4. Edits'
    BY <1>2, EditsKeep DEF IInv, GiveUp, Apart, Actor
<1>5. \A b \in Actor : held'[b] \in {held[b], disk, NoRecord}
    BY <1>2 DEF IInv, TypeOK
<1>6. QED BY <1>1, <1>3, <1>4, <1>5, Decision DEF GiveUp, Apart

LEMMA ProofFits ==
    ASSUME evidence'
    PROVE  <<"attach", "proved">> \in Program /\ Fit("worker", <<"attach", "proved">>)'
<1>1. /\ "attach" \in EditName /\ "proved" \in EditName
      /\ "attach" \notin Note /\ "proved" \notin Note
    BY DEF EditName
<1>2. QED BY <1>1 DEF Program, Fit

LEMMA FinishKeeps ==
    ASSUME IInv, Finish
    PROVE  IInv'
<1>1. Exists
    BY DEF IInv, Blank, Finish, Running
<1>2. /\ worker' \in {"unverified", "proved"} /\ disk' = disk
      /\ supervisor' = supervisor /\ attempts' = attempts /\ UNCHANGED Apart
      /\ evidence' \in BOOLEAN
    BY DEF Finish, IInv, TypeOK
<1>3. evidence => evidence'
    BY DEF Finish
<1>4. worker' = "proved" => evidence'
    BY DEF Finish
<1>5. CASE UNCHANGED <<todo, held>>
  <2>1. TypeOK'
    BY <1>2, <1>5 DEF IInv, TypeOK, Free, Apart
  <2>2. Edits'
    BY <1>2, <1>3, <1>5, EditsStay DEF IInv, Apart
  <2>3. QED BY <1>1, <1>2, <1>3, <1>4, <1>5, <2>1, <2>2, Decision DEF Apart
<1>6. CASE worker' = "proved" /\ Start("worker", <<"attach", "proved">>)
  <2>1. <<"attach", "proved">> \in Program /\ Fit("worker", <<"attach", "proved">>)'
    BY <1>4, <1>6, ProofFits
  <2>2. TypeOK'
    BY <1>1, <1>2, <1>6, <2>1 DEF IInv, TypeOK, Free, Start, Begin, Actor, Program, Apart, Exists
  <2>3. Edits'
    BY <1>2, <1>3, <1>6, <2>1, EditsKeep DEF IInv, Start, Begin, Actor, Apart
  <2>4. \A b \in Actor : held'[b] \in {held[b], disk, NoRecord}
    BY <1>6 DEF IInv, TypeOK, Start
  <2>5. QED BY <1>1, <1>2, <1>3, <1>4, <2>2, <2>3, <2>4, Decision DEF Apart
<1>7. QED BY <1>5, <1>6 DEF Finish

\* What complete_execution goes on to write.
Full == <<"verify", "verified", "complete">>

Completions == {<<>>, <<"unproven">>, <<"complete">>, Full}

Claims(s) == s \in {<<"complete">>, Full}

\* It is covered by the evidence, and it writes nothing over a run that reads
\* cancelled.
LEMMA CompletionFits ==
    ASSUME IInv, NEW s \in Completions, stopped' = stopped,
           Claims(s) => evidence' /\ disk.state # "cancelled"
    PROVE  s \in Program /\ Fit("worker", s)'
<1>1. stopped => disk.state = "cancelled"
    BY DEF IInv, Ghosts
<1>2. /\ {"unproven", "verify", "verified", "complete"} \subseteq EditName
      /\ {"unproven", "verify", "verified", "complete"} \cap Note = {}
    BY DEF EditName
<1>3. CASE Claims(s)
  <2>1. evidence' /\ ~stopped'
    BY <1>1, <1>3
  <2>2. CASE s = <<"complete">>
    BY <1>2, <2>1, <2>2 DEF Program, Fit
  <2>3. CASE s = Full
    BY <1>2, <2>1, <2>3 DEF Program, Fit, Full
  <2>4. QED BY <1>3, <2>2, <2>3 DEF Claims
<1>4. CASE s = <<>>
    BY <1>4, Programs DEF Actor
<1>5. CASE s = <<"unproven">>
    BY <1>5, Programs DEF Actor, Plain
<1>6. QED BY <1>3, <1>4, <1>5 DEF Completions, Claims

LEMMA CompleteKeeps ==
    ASSUME IInv, Complete
    PROVE  IInv'
<1>1. Exists
    BY DEF IInv, Blank, Complete
<1>2. /\ worker' = "off" /\ disk' = disk /\ held' = held /\ supervisor' = supervisor
      /\ attempts' = attempts /\ UNCHANGED Apart
    BY DEF Complete
<1>3. disk.artifacts => evidence
    BY <1>1 DEF IInv, TypeOK, Records, InUse, Grounded, Exists
<1>4. worker = "proved" => evidence
    BY DEF IInv, Ghosts
<1>5. CASE Begin("worker", Completion(worker = "proved")) /\ evidence' = evidence
  <2>1. PICK s \in Completions :
           /\ todo' = [todo EXCEPT !["worker"] = s]
           /\ Claims(s) => /\ disk.state # "cancelled"
                           /\ worker = "proved" \/ disk.artifacts
    BY <1>5 DEF Begin, Completion, Completions, Claims, Full
  <2>2. Claims(s) => evidence' /\ disk.state # "cancelled"
    BY <1>3, <1>4, <1>5, <2>1
  <2>3. s \in Program /\ Fit("worker", s)'
    BY <1>2, <2>2, CompletionFits DEF Apart
  <2>4. TypeOK'
    BY <1>2, <1>5, <2>1, <2>3 DEF IInv, TypeOK, Complete, Free, Actor, Program, Apart
  <2>5. Edits'
    BY <1>2, <1>5, <2>1, <2>3, EditsKeep DEF IInv, Actor, Apart
  <2>6. QED BY <1>1, <1>2, <1>5, <2>4, <2>5, Decision DEF Apart
<1>6. CASE Begin("worker", <<"hold">>) /\ evidence' = evidence
  <2>1. <<"hold">> \in Program /\ Fit("worker", <<"hold">>)'
    BY Programs DEF Actor, Plain
  <2>2. TypeOK'
    BY <1>2, <1>6, <2>1 DEF IInv, TypeOK, Complete, Free, Begin, Actor, Program, Apart
  <2>3. Edits'
    BY <1>2, <1>6, <2>1, EditsKeep DEF IInv, Begin, Actor, Apart
  <2>4. QED BY <1>1, <1>2, <1>6, <2>2, <2>3, Decision DEF Apart
<1>7. CASE Begin("worker", Completion(TRUE)) /\ evidence' = TRUE
  <2>1. PICK s \in Completions :
           /\ todo' = [todo EXCEPT !["worker"] = s]
           /\ Claims(s) => disk.state # "cancelled"
    BY <1>7 DEF Begin, Completion, Completions, Claims, Full
  <2>2. s \in Program /\ Fit("worker", s)'
    BY <1>2, <1>7, <2>1, CompletionFits DEF Apart
  <2>3. TypeOK'
    BY <1>2, <1>7, <2>1, <2>2 DEF IInv, TypeOK, Complete, Free, Actor, Program, Apart
  <2>4. Edits'
    BY <1>2, <1>7, <2>1, <2>2, EditsKeep DEF IInv, Actor, Apart
  <2>5. QED BY <1>1, <1>2, <1>7, <2>3, <2>4, Decision DEF Apart
<1>8. QED BY <1>5, <1>6, <1>7 DEF Complete

LEMMA LookKeeps ==
    ASSUME IInv, Look
    PROVE  IInv'
<1>1. Exists
    BY DEF IInv, Blank, Look
<1>2. /\ supervisor # "off" /\ supervisor' \in {"off", "late", "timely"}
      /\ disk' = disk /\ todo' = todo /\ UNCHANGED Watched /\ UNCHANGED Apart
    BY DEF Look, Watched
<1>3. TypeOK'
    BY <1>2 DEF IInv, TypeOK, Free, Watched, Apart
<1>4. Edits'
    BY <1>2, EditsStay DEF IInv, Watched, Apart
<1>5. worker' = "proved" => evidence'
    BY <1>2 DEF IInv, Ghosts, Watched
<1>6. QED BY <1>1, <1>2, <1>3, <1>4, <1>5, Decision DEF Watched, Apart

LEMMA JudgeKeeps ==
    ASSUME IInv, Judge
    PROVE  IInv'
<1>1. Exists
    BY DEF IInv, Blank, Judge
<1>2. /\ supervisor # "off" /\ supervisor' \in {"off", "watching"}
      /\ UNCHANGED Watched /\ UNCHANGED Apart
    BY DEF Judge
<1>3. worker' = "proved" => evidence'
    BY <1>2 DEF IInv, Ghosts, Watched
<1>4. CASE todo' = todo
  <2>1. TypeOK'
    BY <1>2, <1>4 DEF IInv, TypeOK, Free, Watched, Apart
  <2>2. Edits'
    BY <1>2, <1>4, EditsStay DEF IInv, Watched, Apart
  <2>3. QED BY <1>1, <1>2, <1>3, <2>1, <2>2, Decision DEF Watched, Apart
<1>5. CASE todo' # todo
  <2>1. PICK s \in Program : /\ todo' = [todo EXCEPT !["supervisor"] = s] /\ s # <<>>
                             /\ Fit("supervisor", s)'
    BY <1>1, <1>2, <1>5, Programs, CancelFits, FlagIsAsked DEF Judge, Begin, Actor, Plain, Apart
  <2>2. TypeOK'
    BY <1>2, <2>1 DEF IInv, TypeOK, Free, Actor, Program, Watched, Apart
  <2>3. Edits'
    BY <1>2, <2>1, EditsKeep DEF IInv, Actor, Watched, Apart
  <2>4. QED BY <1>1, <1>2, <1>3, <2>2, <2>3, Decision DEF Watched, Apart
<1>6. QED BY <1>4, <1>5

LEMMA SweepKeeps ==
    ASSUME IInv, StartupSweep \/ Sweep
    PROVE  IInv'
<1>1. /\ sweeper' = "loop" /\ UNCHANGED Swept
    BY DEF StartupSweep, Sweep
<1>2. worker' = "proved" => evidence'
    BY <1>1 DEF IInv, Ghosts, Swept
<1>3. CASE todo' = todo
  <2>1. TypeOK'
    BY <1>1, <1>3 DEF IInv, TypeOK, Free, Swept
  <2>2. Edits'
    BY <1>1, <1>3, EditsStay DEF IInv, Swept
  <2>3. QED BY <1>1, <1>2, <1>3, <2>1, <2>2, Decision DEF Swept
<1>4. CASE todo' # todo
  <2>1. Exists
    BY <1>4 DEF StartupSweep, StartupFinds, Sweep, Sweepable, IsOpen
  <2>2. PICK s \in Program : /\ todo' = [todo EXCEPT !["sweeper"] = s] /\ s # <<>>
                             /\ Fit("sweeper", s)'
    BY <1>4, Programs DEF StartupSweep, Sweep, Begin, Actor, Plain
  <2>3. TypeOK'
    BY <1>1, <2>2 DEF IInv, TypeOK, Free, Actor, Program, Swept
  <2>4. Edits'
    BY <1>1, <2>2, EditsKeep DEF IInv, Actor, Swept
  <2>5. QED BY <1>1, <1>2, <2>1, <2>3, <2>4, Decision DEF Swept
<1>5. QED BY <1>3, <1>4

LEMMA RequestKeeps ==
    ASSUME IInv, NEW s \in Program, s # <<>>, Fit("user", s)', Request(s),
           asked => asked', asked' \in BOOLEAN
    PROVE  IInv'
<1>1. Exists /\ UNCHANGED Asked /\ requests' \in 0..MaxRequests
    BY DEF Request, IInv, TypeOK
<1>2. /\ todo' = [todo EXCEPT !["user"] = s]
      /\ held' = [held EXCEPT !["user"] = disk]
    BY DEF Request, Start, Begin
<1>3. TypeOK'
    BY <1>1, <1>2 DEF IInv, TypeOK, Free, Actor, Program, Asked, Exists
<1>4. Edits'
    BY <1>1, <1>2, EditsKeep DEF IInv, Actor, Asked
<1>5. \A b \in Actor : held'[b] \in {held[b], disk, NoRecord}
    BY <1>2 DEF IInv, TypeOK
<1>6. worker' = "proved" => evidence'
    BY <1>1 DEF IInv, Ghosts, Asked
<1>7. QED BY <1>1, <1>3, <1>4, <1>5, <1>6, Decision DEF Asked

LEMMA UserKeeps ==
    ASSUME IInv, User
    PROVE  IInv'
<1>1. {"told", "flag"} \subseteq EditName /\ {"told", "flag"} \cap Note = {}
    BY DEF EditName
<1>2. CASE RequestCancel
  <2>1. asked' = TRUE /\ Request(<<"flag", "told">>)
    BY <1>2 DEF RequestCancel
  <2>2. <<"flag", "told">> \in Program /\ <<"flag", "told">> # <<>>
    BY <1>1 DEF Program
  <2>3. Fit("user", <<"flag", "told">>)'
    BY <1>1, <2>1 DEF Fit
  <2>4. QED BY <2>1, <2>2, <2>3, RequestKeeps
<1>3. ASSUME NEW n \in Note, SteerExecution(n)
      PROVE  IInv'
  <2>1. n \notin accepted /\ Request(<<n, "told">>) /\ asked' = asked
    BY <1>3 DEF SteerExecution
  <2>2. <<n, "told">> \in Program /\ <<n, "told">> # <<>>
    BY <1>1 DEF Program
  <2>3. n \notin accepted' /\ n \notin EditName
    BY <2>1 DEF Request, Asked
  <2>4. Fit("user", <<n, "told">>)'
    BY <1>1, <2>3 DEF Fit, EditName
  <2>5. asked' \in BOOLEAN /\ (asked => asked')
    BY <2>1 DEF IInv, TypeOK
  <2>6. QED BY <2>1, <2>2, <2>4, <2>5, RequestKeeps
<1>4. QED BY <1>2, <1>3 DEF User
-----------------------------------------------------------------------------
(* Steps that change the record *)

LEMMA LaunchKeeps ==
    ASSUME IInv, Launch
    PROVE  IInv'
<1>1. /\ ~Exists /\ worker = "off" /\ supervisor = "off" /\ attempts = MaxAttempts
      /\ accepted = {} /\ taken = {} /\ \A a \in Actor : held[a] = NoRecord
      /\ ~stopped
    BY DEF IInv, TypeOK, Blank, Launch, Free, Ghosts
<1>2. disk' \in Record
    BY DEF Launch, Record, State, Closed, Ended, Stamp, Idle, Cut, Recent
<1>3. /\ disk'.state = "requested" /\ disk'.artifacts = FALSE /\ disk'.cancel = FALSE
      /\ disk'.pending = {} /\ disk'.beat \in {Cut, Recent}
    BY DEF Launch, Stamp
<1>4. /\ held' = held /\ supervisor' = supervisor /\ attempts' = attempts
      /\ evidence' = evidence /\ worker' = "starting" /\ UNCHANGED Apart
      /\ todo' = [todo EXCEPT !["worker"] = <<"start">>]
    BY DEF Launch, Begin
<1>5. <<"start">> \in Program /\ Fit("worker", <<"start">>)'
    BY Programs DEF Actor, Plain
<1>6. TypeOK'
    BY <1>2, <1>4, <1>5 DEF IInv, TypeOK, Free, Actor, Program, Apart
<1>7. Records'
  <2>1. InUse' = {disk', NoRecord}
    BY <1>1, <1>4 DEF InUse, Actor
  <2>2. ASSUME NEW r \in Record, r = disk'
        PROVE  Grounded(r)'
    BY <2>2, <1>1, <1>3, <1>4 DEF Grounded, Lapsed, Cut, Recent
  <2>3. QED BY <2>1, <2>2 DEF Records
<1>8. Edits'
    BY <1>4, <1>5, EditsKeep DEF IInv, Actor, Apart
<1>9. Blank' /\ Ghosts' /\ InstructionsKept'
    BY <1>1, <1>2, <1>3, <1>4 DEF Blank, Ghosts, InstructionsKept, Exists, Apart
<1>10. QED BY <1>6, <1>7, <1>8, <1>9 DEF IInv

\* Between calls, only the age of the record changes.
LEMMA AgeKeeps ==
    ASSUME IInv, Exists, Calm, NEW b \in Idle..Recent,
           disk' = [disk EXCEPT !.beat = b], UNCHANGED booting, UNCHANGED Passing,
           supervisor # "off" => b >= Lapsed, worker # "starting"
    PROVE  IInv'
<1>1. disk \in Record /\ \A a \in Actor : held[a] = NoRecord
    BY DEF IInv, TypeOK, Exists, Calm
<1>2. /\ disk' \in Record /\ disk'.state = disk.state /\ disk'.proof = disk.proof
      /\ disk'.artifacts = disk.artifacts /\ disk'.cancel = disk.cancel
      /\ disk'.pending = disk.pending /\ disk'.beat = b
    BY <1>1 DEF Record
<1>3. TypeOK'
    BY <1>2 DEF IInv, TypeOK, Passing, Free
<1>4. Records'
  <2>1. InUse' = {disk', NoRecord}
    BY <1>1 DEF InUse, Passing, Actor
  <2>2. Grounded(disk)
    BY <1>1 DEF IInv, Records, InUse
  <2>3. ASSUME NEW r \in Record, r = disk'
        PROVE  Grounded(r)'
    BY <2>3, <1>2, <2>2 DEF Grounded, Passing
  <2>4. QED BY <2>1, <2>3 DEF Records
<1>5. Edits'
    BY EditsStay DEF IInv, Passing
<1>6. Blank' /\ Ghosts' /\ InstructionsKept'
    BY <1>2 DEF IInv, Blank, Ghosts, InstructionsKept, Exists, Passing
<1>7. QED BY <1>3, <1>4, <1>5, <1>6 DEF IInv

LEMMA ClockKeeps ==
    ASSUME IInv, Clock
    PROVE  IInv'
<1>1. CASE SecondPasses
  <2>1. disk' = disk /\ booting' = FALSE /\ UNCHANGED Passing
    BY <1>1 DEF SecondPasses
  <2>2. TypeOK'
    BY <2>1 DEF IInv, TypeOK, Passing, Free
  <2>3. Edits'
    BY <2>1, EditsStay DEF IInv, Passing
  <2>4. worker' = "proved" => evidence'
    BY <2>1 DEF IInv, Ghosts, Passing
  <2>5. QED BY <2>1, <2>2, <2>3, <2>4, Decision DEF Passing
<1>2. CASE Lapse
  <2>1. Lapsed \in Idle..Recent /\ Lapsed >= Lapsed
    BY DEF Lapsed, Idle, Recent
  <2>2. QED BY <1>2, <2>1, AgeKeeps DEF Lapse, IsOpen, Older
<1>3. CASE Quiet
  <2>1. Idle \in Idle..Recent
    BY DEF Idle, Recent
  <2>2. worker # "starting"
    <3>1. disk \in Record /\ Grounded(disk)
      BY <1>3 DEF Quiet, IsOpen, IInv, TypeOK, Records, InUse, Exists
    <3>2. QED BY <1>3, <3>1 DEF Quiet, Grounded, Cut, Lapsed, Orphaned
  <2>3. QED BY <1>3, <2>1, <2>2, AgeKeeps DEF Quiet, IsOpen, Older
<1>4. QED BY <1>1, <1>2, <1>3 DEF Clock

LEMMA RestartKeeps ==
    ASSUME IInv, Restart
    PROVE  IInv'
<1>1. disk \in Record /\ Exists
    BY DEF IInv, TypeOK, Exists, Restart
<1>2. /\ disk' \in Record /\ disk'.state = disk.state /\ disk'.proof = disk.proof
      /\ disk'.artifacts = disk.artifacts /\ disk'.cancel = disk.cancel
      /\ disk'.pending = disk.pending
    BY <1>1 DEF Record, Restart, Older, Idle, Orphaned, Recent
<1>3. /\ todo' = [a \in Actor |-> <<>>] /\ held' = [a \in Actor |-> NoRecord]
      /\ worker' = "off" /\ supervisor' = "off" /\ restarts' \in 0..MaxRestarts
      /\ sweeper' = "startup" /\ booting' = TRUE
      /\ UNCHANGED <<attempts, requests, accepted, taken, asked, evidence, stopped,
                     overwrote>>
    BY DEF Restart, IInv, TypeOK
<1>4. TypeOK'
    BY <1>2, <1>3 DEF IInv, TypeOK, Free
<1>5. Records'
  <2>1. InUse' = {disk', NoRecord}
    BY <1>3 DEF InUse, Actor
  <2>2. Grounded(disk)
    BY <1>1 DEF IInv, Records, InUse
  <2>3. ASSUME NEW r \in Record, r = disk'
        PROVE  Grounded(r)'
    BY <2>3, <1>2, <1>3, <2>2 DEF Grounded
  <2>4. QED BY <2>1, <2>3 DEF Records
<1>6. Edits'
  <2>1. \A a \in Actor : Fit(a, <<>>)'
    BY Programs
  <2>2. QED BY <1>3, <2>1 DEF Edits
<1>7. Blank' /\ Ghosts' /\ InstructionsKept'
    BY <1>1, <1>2, <1>3 DEF IInv, Blank, Ghosts, InstructionsKept, Exists
<1>8. QED BY <1>4, <1>5, <1>6, <1>7 DEF IInv

\* What a write does to the fields the invariant speaks of.
LEMMA WriteStep ==
    ASSUME IInv, NEW a \in Actor, Write(a)
    PROVE  /\ Exists /\ todo[a] \in Program /\ todo[a] # <<>>
           /\ held[a] \in Record /\ Head(todo[a]) \in EditName \cup Note
           /\ disk' = IF Silent(Head(todo[a]), held[a]) THEN disk
                      ELSE Written(Head(todo[a]), held[a])
           /\ accepted' = IF Head(todo[a]) \in Note THEN accepted \cup {Head(todo[a])}
                          ELSE accepted
           /\ taken' = IF Head(todo[a]) = "take" THEN taken \cup held[a].pending
                       ELSE taken
           /\ ~overwrote' => ~overwrote /\ (Silent(Head(todo[a]), held[a]) \/ held[a] = disk)
           /\ stopped' => disk'.state = "cancelled" /\ (stopped \/ ~Claiming)
           /\ overwrote' \in BOOLEAN /\ stopped' \in BOOLEAN
           /\ todo' = [todo EXCEPT ![a] = Tail(todo[a])]
           /\ held' = [held EXCEPT ![a] = NoRecord]
           /\ worker' = worker /\ supervisor' = supervisor /\ sweeper' = sweeper
           /\ booting' = booting /\ attempts' = attempts /\ requests' = requests
           /\ restarts' = restarts /\ asked' = asked /\ evidence' = evidence
<1>1. held[a] # NoRecord /\ todo[a] # <<>> /\ todo[a] \in Program /\ held[a] \in Record
    BY DEF IInv, TypeOK, Write, Free, Program
<1>2. Exists
    BY <1>1 DEF IInv, Blank
<1>3. Head(todo[a]) \in EditName \cup Note
    BY <1>1, HeadAndTail DEF Program
<1>4. /\ disk' = IF Silent(Head(todo[a]), held[a]) THEN disk
                 ELSE Written(Head(todo[a]), held[a])
      /\ accepted' = IF Head(todo[a]) \in Note THEN accepted \cup {Head(todo[a])}
                     ELSE accepted
      /\ taken' = IF Head(todo[a]) = "take" THEN taken \cup held[a].pending ELSE taken
    BY DEF Write
<1>5. /\ ~overwrote' => ~overwrote /\ (Silent(Head(todo[a]), held[a]) \/ ~Behind(a))
      /\ overwrote' \in BOOLEAN
    BY DEF Write
<1>6. /\ stopped' => disk'.state = "cancelled" /\ (stopped \/ ~Claiming)
      /\ stopped' \in BOOLEAN
    BY DEF Write
<1>7. ~Behind(a) => held[a] = disk
    BY <1>1 DEF Behind
<1>8. /\ todo' = [todo EXCEPT ![a] = Tail(todo[a])]
      /\ held' = [held EXCEPT ![a] = NoRecord]
      /\ worker' = worker /\ supervisor' = supervisor /\ sweeper' = sweeper
      /\ booting' = booting /\ attempts' = attempts /\ requests' = requests
      /\ restarts' = restarts /\ asked' = asked /\ evidence' = evidence
    BY DEF Write, Begin
<1>9. ~overwrote' => ~overwrote /\ (Silent(Head(todo[a]), held[a]) \/ held[a] = disk)
    BY <1>5, <1>7
<1>10. QED BY <1>1, <1>2, <1>3, <1>4, <1>5, <1>6, <1>8, <1>9

LEMMA WriteKeeps ==
    ASSUME IInv, NEW a \in Actor, Write(a)
    PROVE  IInv'
<1> DEFINE s == todo[a]
           e == Head(todo[a])
           r == held[a]
           w == Written(e, r)
<1>1. /\ Exists /\ s \in Program /\ s # <<>> /\ r \in Record /\ e \in EditName \cup Note
      /\ disk' = IF Silent(e, r) THEN disk ELSE w
      /\ accepted' = IF e \in Note THEN accepted \cup {e} ELSE accepted
      /\ taken' = IF e = "take" THEN taken \cup r.pending ELSE taken
      /\ ~overwrote' => ~overwrote /\ (Silent(e, r) \/ r = disk)
      /\ stopped' => disk'.state = "cancelled" /\ (stopped \/ ~Claiming)
      /\ overwrote' \in BOOLEAN /\ stopped' \in BOOLEAN
      /\ todo' = [todo EXCEPT ![a] = Tail(s)]
      /\ held' = [held EXCEPT ![a] = NoRecord]
      /\ worker' = worker /\ supervisor' = supervisor /\ sweeper' = sweeper
      /\ booting' = booting /\ attempts' = attempts /\ requests' = requests
      /\ restarts' = restarts /\ asked' = asked /\ evidence' = evidence
    BY WriteStep
<1>2. disk \in Record /\ Grounded(disk) /\ Grounded(r)
    BY <1>1 DEF IInv, TypeOK, Records, InUse, Exists
<1>3. /\ e = s[1] /\ 1 \in 1..Len(s) /\ Tail(s) \in Program
      /\ Len(Tail(s)) = Len(s) - 1
      /\ \A i \in 1..Len(Tail(s)) : Tail(s)[i] = s[i + 1] /\ i + 1 \in 1..Len(s)
    BY <1>1, HeadAndTail DEF Program
<1>4. Fit(a, s)
    BY <1>1 DEF IInv, Edits
<1>5. /\ e \in {"attach", "complete"} => evidence
      /\ e \in {"flag", "cancel"} => asked
      /\ e \in Note => a = "user" /\ e \notin accepted
      /\ e \in {"verified", "complete"} => ~stopped
    BY <1>3, <1>4 DEF Fit
<1>6. /\ w \in Record
      /\ w.state = "completed" => e = "complete" \/ (r.state = "completed" /\ w.proof \in {r.proof, "verified"})
      /\ e = "complete" => w.proof = "verified"
      /\ w.state = "cancelled" =>
           \/ e = "cancel" /\ w.proof = "cancelled"
           \/ r.state = "cancelled" /\ w.proof \in {r.proof, "verified"}
      /\ w.artifacts => e = "attach" \/ r.artifacts
      /\ w.cancel => e = "flag" \/ r.cancel
      /\ w.pending = IF e \in Note THEN r.pending \cup {e}
                     ELSE IF e = "take" THEN {} ELSE r.pending
      /\ w.beat \in {r.beat, Cut, Recent}
    BY <1>1, WrittenRecord DEF IInv, TypeOK
<1> HIDE DEF w, e, r, s
<1>7. disk' \in Record /\ disk' \in {disk, w}
    BY <1>1, <1>2, <1>6
<1>8. accepted \subseteq accepted' /\ accepted' \subseteq accepted \cup {e}
      /\ accepted' \subseteq Note
    BY <1>1 DEF IInv, TypeOK
<1>9. taken' \subseteq accepted' /\ taken' \subseteq Note
    BY <1>1, <1>2, <1>8 DEF IInv, TypeOK, Ghosts, Grounded
<1>10. TypeOK'
  <2>1. todo' \in [Actor -> Program] /\ held' \in [Actor -> Record \cup {NoRecord}]
    BY <1>1, <1>3 DEF IInv, TypeOK, Program
  <2>2. \A b \in Actor : held'[b] # NoRecord => todo'[b] # <<>>
    BY <1>1 DEF IInv, TypeOK, Free
  <2>3. QED BY <1>1, <1>7, <1>8, <1>9, <2>1, <2>2 DEF IInv, TypeOK, Free, Program
<1>11. Records'
  <2> SUFFICES ASSUME NEW q \in Record, q \in InUse'
               PROVE  Grounded(q)'
    BY DEF Records
  <2>1. CASE q \in InUse
    <3>1. Grounded(q)
      BY <2>1 DEF IInv, Records
    <3>2. QED BY <1>1, <1>8, <3>1 DEF Grounded
  <2>2. CASE q = w
    <3>1. /\ q.state = "completed" => evidence /\ q.proof = "verified"
          /\ q.state = "cancelled" => asked /\ q.proof # "missing"
          /\ q.artifacts => evidence
          /\ q.cancel => asked
      BY <1>2, <1>5, <1>6, <2>2 DEF Grounded
    <3>2. q.pending \subseteq accepted'
      BY <1>1, <1>2, <1>6, <2>2 DEF Grounded
    <3>3. /\ supervisor # "off" => q.beat >= Lapsed
          /\ worker = "starting" => q.beat >= Cut
      BY <1>2, <1>6, <2>2 DEF Grounded, Lapsed, Cut, Recent
    <3>4. QED BY <1>1, <3>1, <3>2, <3>3 DEF Grounded
  <2>3. q \in InUse \/ q = w
    BY <1>1, <1>7 DEF InUse, IInv, TypeOK
  <2>4. QED BY <2>1, <2>2, <2>3
<1>12. Edits'
  <2> SUFFICES ASSUME NEW b \in Actor, NEW p \in Program, p = todo'[b]
               PROVE  Fit(b, p)'
    BY DEF Edits
  <2>1. todo["worker"] \in Program /\ Fit("worker", todo["worker"])
    BY DEF IInv, TypeOK, Edits, Program, Actor
  <2>2. ASSUME NEW i \in 1..Len(todo["worker"]), todo["worker"][i] \in {"verified", "complete"}
        PROVE  ~stopped'
    <3>1. ~stopped
      BY <2>1, <2>2 DEF Fit
    <3>2. PICK j \in 1..Len(todo["worker"]) : todo["worker"][j] = "complete"
      BY <2>1, <2>2 DEF Fit
    <3>3. Claiming
      BY <2>1, <3>2 DEF Claiming, Range, Program
    <3>4. QED BY <1>1, <3>1, <3>3
  <2>3. CASE b = a
    <3>1. p = Tail(s)
      BY <1>1, <2>3 DEF IInv, TypeOK
    <3> SUFFICES ASSUME NEW i \in 1..Len(Tail(s))
                 PROVE  /\ Tail(s)[i] \in {"attach", "complete"} => evidence
                        /\ Tail(s)[i] \in {"flag", "cancel"} => asked
                        /\ Tail(s)[i] \notin Note
                        /\ Tail(s)[i] \in {"verified", "complete"} => a = "worker" /\ ~stopped'
                        /\ Tail(s)[i] = "verified" => i + 1 \in 1..Len(Tail(s)) /\ Tail(s)[i + 1] = "complete"
      BY <1>1, <2>3, <3>1 DEF Fit
    <3>2. Tail(s)[i] = s[i + 1] /\ i + 1 \in 1..Len(s) /\ i \in Nat /\ i + 1 # 1 /\ Len(s) \in Nat
      BY <1>1, <1>3 DEF Program
    <3>3. /\ Tail(s)[i] \in {"attach", "complete"} => evidence
          /\ Tail(s)[i] \in {"flag", "cancel"} => asked
          /\ Tail(s)[i] \notin Note
          /\ Tail(s)[i] \in {"verified", "complete"} => a = "worker"
          /\ Tail(s)[i] = "verified" => (i + 1) + 1 \in 1..Len(s) /\ s[(i + 1) + 1] = "complete"
      BY <1>4, <3>2 DEF Fit
    <3>4. Tail(s)[i] \in {"verified", "complete"} => ~stopped'
      BY <2>2, <3>2, <3>3 DEF s
    <3>5. Tail(s)[i] = "verified" => i + 1 \in 1..Len(Tail(s)) /\ Tail(s)[i + 1] = "complete"
      <4>1. SUFFICES ASSUME Tail(s)[i] = "verified"
                     PROVE  i + 1 \in 1..Len(Tail(s)) /\ Tail(s)[i + 1] = "complete"
        OBVIOUS
      <4>2. i + 1 \in 1..Len(Tail(s))
        BY <1>3, <3>2, <3>3, <4>1
      <4>3. Tail(s)[i + 1] = s[(i + 1) + 1]
        BY <1>3, <4>2
      <4>4. QED BY <3>3, <4>1, <4>2, <4>3
    <3>6. QED BY <3>3, <3>4, <3>5
  <2>4. CASE b # a
    <3>1. p = todo[b]
      BY <1>1, <2>4 DEF IInv, TypeOK
    <3>2. Fit(b, p)
      BY <3>1 DEF IInv, Edits
    <3>3. ASSUME NEW i \in 1..Len(p), p[i] \in Note
          PROVE  p[i] \notin accepted'
      BY <1>1, <1>5, <2>4, <3>2, <3>3 DEF Fit
    <3>4. ASSUME NEW i \in 1..Len(p), p[i] \in {"verified", "complete"}
          PROVE  ~stopped'
      BY <2>2, <3>1, <3>2, <3>4 DEF Fit
    <3>5. QED BY <1>1, <3>2, <3>3, <3>4 DEF Fit
  <2>5. QED BY <2>3, <2>4
<1>13. Blank'
    BY <1>7 DEF Blank, Exists
<1>14. Ghosts'
    BY <1>1, <1>7, <1>9 DEF IInv, Ghosts, Exists
<1>15. InstructionsKept'
  <2>1. SUFFICES ASSUME ~overwrote'
                 PROVE  /\ accepted' \subseteq disk'.pending \cup taken'
                        /\ disk'.pending \cap taken' = {}
    BY DEF InstructionsKept
  <2>2. /\ accepted \subseteq disk.pending \cup taken
        /\ disk.pending \cap taken = {}
    BY <1>1, <2>1 DEF IInv, InstructionsKept
  <2>3. CASE Silent(e, r)
    <3>1. "take" \notin Note
      BY DEF EditName
    <3>2. QED BY <1>1, <2>2, <2>3, <3>1 DEF Silent
  <2>4. CASE ~Silent(e, r)
    <3>1. disk' = w /\ r = disk
      BY <1>1, <2>1, <2>4
    <3>2. e \in Note => e \notin taken /\ e # "take"
      BY <1>5 DEF IInv, Ghosts, EditName
    <3>3. QED BY <1>1, <1>6, <2>2, <3>1, <3>2
  <2>5. QED BY <2>3, <2>4
<1>16. QED BY <1>10, <1>11, <1>12, <1>13, <1>14, <1>15 DEF IInv
-----------------------------------------------------------------------------
(* The specification *)

LEMMA InitHolds == Init => IInv
<1> SUFFICES ASSUME Init PROVE IInv
    OBVIOUS
<1>1. TypeOK
  <2>1. todo \in [Actor -> Seq(EditName \cup Note)] /\ held \in [Actor -> Record \cup {NoRecord}]
    BY DEF Init
  <2>2. attempts \in 0..MaxAttempts /\ restarts \in 0..MaxRestarts /\ requests \in 0..MaxRequests
    BY DEF Init
  <2>3. QED BY <2>1, <2>2 DEF Init, TypeOK
<1>2. Records
    BY DEF Init, Records, InUse
<1>3. Edits
    BY DEF Init, Edits, Fit
<1>4. Blank /\ Ghosts /\ InstructionsKept
    BY DEF Init, Blank, Ghosts, InstructionsKept, Exists
<1>5. QED BY <1>1, <1>2, <1>3, <1>4 DEF IInv

LEMMA NextKeeps == IInv /\ [Next]_vars => IInv'
<1> SUFFICES ASSUME IInv, [Next]_vars PROVE IInv'
    OBVIOUS
<1>1. CASE \E a \in Actor : Read(a) \/ Write(a)
    BY <1>1, ReadKeeps, WriteKeeps
<1>2. CASE Worker
    BY <1>2, LaunchKeeps, DispatchKeeps, EventKeeps, StepKeeps, RetryKeeps,
       GiveUpKeeps, FinishKeeps, CompleteKeeps, RefusedKeeps DEF Worker
<1>3. CASE Supervisor
    BY <1>3, LookKeeps, JudgeKeeps DEF Supervisor
<1>4. CASE User
    BY <1>4, UserKeeps
<1>5. CASE StartupSweep \/ Sweep
    BY <1>5, SweepKeeps
<1>6. CASE Clock
    BY <1>6, ClockKeeps
<1>7. CASE Restart
    BY <1>7, RestartKeeps
<1>8. CASE UNCHANGED vars
  <2>1. TypeOK'
    BY <1>8 DEF IInv, TypeOK, Free, vars
  <2>2. Edits'
    BY <1>8, EditsStay DEF IInv, vars
  <2>3. worker' = "proved" => evidence'
    BY <1>8 DEF IInv, Ghosts, vars
  <2>4. QED BY <1>8, <2>1, <2>2, <2>3, Decision DEF vars
<1>9. QED BY <1>1, <1>2, <1>3, <1>4, <1>5, <1>6, <1>7, <1>8 DEF Next

\* Every reachable state satisfies the inductive invariant: whatever record a
\* thread holds, stale or not, has its grounds, and so has every edit to come.
THEOREM BotInvariant == Spec => []IInv
<1>1. QED BY InitHolds, NextKeeps, PTL DEF Spec

\* The variables keep their types; a thread holds a record only in an edit.
THEOREM BotTypes == Spec => []TypeOK
<1>1. IInv => TypeOK
    BY DEF IInv
<1>2. QED BY <1>1, BotInvariant, PTL

\* A record that says completed is proved, and one that says cancelled belongs
\* to a run the user asked to stop, however the writers interleave.
THEOREM HonestEndings == Spec => []EndingsAreHonest
<1>1. IInv => EndingsAreHonest
    BY DEF IInv, TypeOK, Records, InUse, Grounded, EndingsAreHonest, Exists
<1>2. QED BY <1>1, BotInvariant, PTL

\* A queued instruction waits for the worker and is taken once, while nobody
\* writes over a record it had not read.
THEOREM InstructionsAreKept == Spec => []InstructionsKept
<1>1. IInv => InstructionsKept
    BY DEF IInv
<1>2. QED BY <1>1, BotInvariant, PTL

\* A step leaves the record's state alone unless it launches or writes it.
LEMMA StateChanges ==
    ASSUME IInv, Exists, [Next]_vars
    PROVE  disk'.state = disk.state \/ \E a \in Actor : Write(a)
<1>1. disk \in Record
    BY DEF IInv, TypeOK, Exists
<1>2. ASSUME NEW b \in Nat, Older(b)
      PROVE  disk'.state = disk.state
    BY <1>1, <1>2 DEF Older, Record
<1>3. CASE \E a \in Actor : Read(a) \/ Write(a)
    BY <1>3 DEF Read
<1>4. CASE Worker
    BY <1>4 DEF Worker, Launch, Dispatch, Event, Step, Retry, GiveUp, Finish,
                ProofLost, Complete, Refused
<1>5. CASE Supervisor
    BY <1>5 DEF Supervisor, Look, Judge, Watched
<1>6. CASE User
    BY <1>6 DEF User, RequestCancel, SteerExecution, Request, Asked
<1>7. CASE StartupSweep \/ Sweep
    BY <1>7 DEF StartupSweep, Sweep, Swept
<1>8. CASE Clock
    BY <1>2, <1>8 DEF Clock, SecondPasses, Lapse, Quiet, Lapsed, Idle
<1>9. CASE Restart
    BY <1>2, <1>9 DEF Restart, Orphaned
<1>10. CASE UNCHANGED vars
    BY <1>10 DEF vars
<1>11. QED BY <1>3, <1>4, <1>5, <1>6, <1>7, <1>8, <1>9, <1>10 DEF Next

\* A run the user ended before its completion was claimed does not come to read
\* verified or completed, while nobody writes over a record it had not read.
THEOREM StopsAreKept == Spec => StoppedIsNotCompleted
<1>1. ASSUME IInv, [Next]_vars, stopped, ~overwrote'
      PROVE  disk'.state \notin {"verified", "completed"}
  <2>1. Exists /\ disk.state = "cancelled"
    BY <1>1 DEF IInv, Ghosts
  <2>2. ASSUME NEW a \in Actor, Write(a)
        PROVE  disk'.state \notin {"verified", "completed"}
    <3> DEFINE e == Head(todo[a])
               r == held[a]
               w == Written(e, r)
    <3>1. /\ todo[a] \in Program /\ todo[a] # <<>> /\ r \in Record
          /\ e \in EditName \cup Note
          /\ disk' = IF Silent(e, r) THEN disk ELSE w
          /\ Silent(e, r) \/ r = disk
      BY <1>1, <2>2, WriteStep
    <3>2. e \notin {"verified", "complete"}
      BY <1>1, <3>1, HeadAndTail DEF IInv, Edits, Fit, Program
    <3>3. /\ w.state = "completed" => e = "complete" \/ r.state = "completed"
          /\ w.state = "verified" => e = "verified" \/ r.state = "verified"
      BY <1>1, <3>1, WrittenRecord DEF IInv, TypeOK
    <3> HIDE DEF e, r, w
    <3>4. QED BY <2>1, <3>1, <3>2, <3>3
  <2>3. QED BY <1>1, <2>1, <2>2, StateChanges
<1>2. QED BY <1>1, BotInvariant, PTL DEF Spec, StoppedIsNotCompleted

\* Only a sweep begins a program of the sweeper's.
LEMMA SweepsAreSweeps ==
    ASSUME IInv, [Next]_vars, Free("sweeper"), todo'["sweeper"] # <<>>
    PROVE  StartupSweep \/ Sweep
<1>1. todo \in [Actor -> Program] /\ held["sweeper"] = NoRecord /\ todo["sweeper"] = <<>>
    BY DEF IInv, TypeOK, Free, Actor, Program
<1>2. ASSUME NEW a \in Actor \ {"sweeper"}, NEW s, Begin(a, s)
      PROVE  FALSE
    BY <1>1, <1>2 DEF Begin, Actor
<1>3. todo' # todo
    BY <1>1
<1>4. ~(\E a \in Actor : Read(a) \/ Write(a))
    BY <1>1, <1>2, <1>3 DEF Read, Write
<1>5. ~Worker
  <2>1. "worker" \in Actor \ {"sweeper"}
    BY DEF Actor
  <2>2. ~(Launch \/ Dispatch \/ Event \/ Step \/ Refused \/ Complete)
    BY <1>2, <1>3, <2>1 DEF Launch, Dispatch, Event, Step, Refused, Complete, Start
  <2>3. ~(Retry \/ GiveUp \/ Finish \/ ProofLost)
    BY <1>2, <1>3, <2>1 DEF Retry, Retried, GiveUp, Finish, ProofLost, Start
  <2>4. QED BY <2>2, <2>3 DEF Worker
<1>6. ~Supervisor
    BY <1>2, <1>3 DEF Supervisor, Look, Judge, Actor
<1>7. ~User
    BY <1>2 DEF User, RequestCancel, SteerExecution, Request, Start, Actor
<1>8. ~Clock
    BY <1>3 DEF Clock, SecondPasses, Lapse, Quiet, Passing
<1>9. ~Restart
    BY DEF Restart, Actor
<1>10. ~(UNCHANGED vars)
    BY <1>3 DEF vars
<1>11. QED BY <1>4, <1>5, <1>6, <1>7, <1>8, <1>9, <1>10 DEF Next

\* The sweep sets out to fail a record with a watching supervisor only if the
\* record was stamped in the second of the boot.
THEOREM LivingAreSpared == Spec => SweepSparesTheLiving
<1>1. ASSUME IInv, [Next]_vars, todo'["sweeper"] # <<>>, Free("sweeper"),
             supervisor # "off"
      PROVE  disk.beat = Cut
  <2>1. CASE StartupSweep
    <3>1. StartupFinds /\ Exists
      BY <1>1, <2>1 DEF StartupSweep, Free, StartupFinds, Sweepable, IsOpen
    <3>2. disk.beat >= Lapsed
      BY <1>1, <3>1 DEF IInv, TypeOK, Records, InUse, Grounded, Exists
    <3>3. QED BY <3>1, <3>2 DEF StartupFinds, Lapsed, Cut, Orphaned, Idle
  <2>2. CASE Sweep
    <3>1. disk.beat >= Lapsed
      BY <1>1, <2>2 DEF Sweep, Sweepable, IsOpen, IInv, TypeOK, Records, InUse, Grounded, Exists
    <3>2. QED BY <2>2, <3>1 DEF Sweep, Lapsed, Idle
  <2>3. QED BY <1>1, <2>1, <2>2, SweepsAreSweeps
<1>2. QED BY <1>1, BotInvariant, PTL DEF Spec, SweepSparesTheLiving
=============================================================================
