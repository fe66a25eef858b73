--------------------------- MODULE Records_proofs ---------------------------
(***************************************************************************)
(* The records that outlive an invocation.  For any number of processes    *)
(* that save, load, recover and are killed: an acknowledged checkpoint is  *)
(* never lost, a load without the lock is never older than what was        *)
(* acknowledged before it, and a recovery replaces what it had loaded.     *)
(* For any number of recorders, lanes and readers of the event log, any    *)
(* owners and limits: a diagnosis of healthy and a view of ready mean what *)
(* they say, and everybody who is given a handoff is given the same one.   *)
(***************************************************************************)
EXTENDS CheckpointStore, Supervision, Induction_proofs, FiniteSetTheorems,
        SequenceTheorems

AnyBody == [life : Lives(2), report : BOOLEAN, silent : BOOLEAN, clean : BOOLEAN]
Envelopes == [gen : Generations, plan : Plans, body : AnyBody]
Files == Envelopes \cup {None}
Procedure == [pc : {"idle", "read", "done", "sealed", "write", "moved", "installed"},
              op : {"none", "load", "recover", "save"}, want : SUBSET Plans, floor : Int,
              first : Files, result : Files, env : Files]

(* What is on disk as long as load accepts every file.                     *)
Latest == IF target # None THEN target ELSE backup

Accepted(file) == file # None => NestedAccepted(file.body)

CkTypes ==
    /\ target \in Files /\ backup \in Files /\ acked \in Files
    /\ clean \in BOOLEAN
    /\ lock \in {{}} \cup {{p} : p \in Procs}
    /\ proc \in [Procs -> Procedure]

(* Who writes holds the lock, and knows what it is about to write.         *)
WriterInv ==
    \A p \in Procs :
        /\ proc[p].pc \in {"write", "moved", "installed"} => lock = {p}
        /\ proc[p].pc \in {"sealed", "write", "moved", "installed"} => proc[p].env # None
        /\ proc[p].pc = "moved" => target = None
        /\ proc[p].pc = "installed" => target = proc[p].env

(* The two files: the backup is the older one, and the newer one is not    *)
(* older than what was acknowledged.                                       *)
DiskInv ==
    /\ Accepted(target) /\ Accepted(backup)
    /\ target # None => backup.gen < target.gen
    /\ acked.gen <= Latest.gen

(* A writer under the lock goes beyond the newest file.                    *)
BeyondInv == \A p \in Procs : proc[p].pc \in {"write", "moved"} => Latest.gen < proc[p].env.gen

(* A file somebody has read is the newest one or older than it.            *)
Past(file) == file = None \/ file = Latest \/ file.gen < Latest.gen

ReaderInv ==
    \A p \in Procs :
        LET me == proc[p] IN
        /\ Accepted(me.first) /\ Past(me.first) /\ Past(me.result)
        /\ me.pc = "read" => me.first.gen >= me.floor \/ backup.gen >= me.floor
        /\ /\ me.op \in {"load", "recover"} /\ me.want = {}
           /\ me.pc \in {"done", "sealed", "write", "moved"}
           => me.result.gen >= me.floor

(* A recovery saves the generation after the one it loaded.                *)
RecoveryInv ==
    \A p \in Procs :
        LET me == proc[p] IN
        me.op = "recover" =>
            /\ me.pc = "sealed" => me.result # None /\ me.env.gen = me.result.gen + 1
            /\ me.pc \in {"write", "moved"} => me.result = Latest

CkInv ==
    /\ CkTypes /\ WriterInv
    /\ clean => DiskInv /\ BeyondInv /\ ReaderInv /\ RecoveryInv

-----------------------------------------------------------------------------
(* Envelopes have a generation, which tells them from no file.             *)
LEMMA FileFacts ==
    /\ None.gen = -1 /\ None \in Files
    /\ \A e \in Envelopes : e # None /\ e.gen \in Nat /\ e.body \in AnyBody /\ e.plan \in Plans
    /\ \A e \in Files : e.gen \in Int /\ e.gen >= -1 /\ (e # None => e \in Envelopes)
    /\ \A e \in Files : e.gen = -1 => e = None
<1>1. None.gen = -1 /\ None \in Files
  BY DEF None, Files
<1>2. \A e \in Envelopes : e.gen \in Nat /\ e.body \in AnyBody /\ e.plan \in Plans
  BY MaxGenAssumption DEF Envelopes, Generations
<1>3. \A e \in Envelopes : e # None
  BY <1>1, <1>2
<1> QED
  BY <1>1, <1>2, <1>3 DEF Files

(* Newest answers the newest of two files that are accepted.               *)
LEMMA NewestOfTwo ==
    ASSUME NEW a \in Files, NEW b \in Files, NEW want \in SUBSET Plans
    PROVE  LET n == Newest(Candidates(a, b, want)) IN
           /\ n \in {a, b, None}
           /\ n # None => Valid(n, want)
           /\ Valid(a, want) => n.gen >= a.gen
           /\ Valid(b, want) => n.gen >= b.gen
<1> DEFINE files == Candidates(a, b, want)
           n == Newest(files)
<1>1. \A e \in files : e \in {a, b} /\ Valid(e, want) /\ e \in Files /\ e.gen \in Int
  BY FileFacts DEF Candidates
<1>2. CASE files = {}
  <2>1. ~Valid(a, want) /\ ~Valid(b, want)
    BY <1>2 DEF Candidates
  <2> QED
    BY <1>2, <2>1 DEF Newest
<1>3. CASE files # {}
  <2>1. \E file \in files : \A other \in files : other.gen <= file.gen
    BY <1>1, <1>3
  <2>2. n \in files /\ \A other \in files : other.gen <= n.gen
    BY <1>3, <2>1 DEF Newest
  <2>3. (Valid(a, want) => a \in files) /\ (Valid(b, want) => b \in files)
    BY DEF Candidates
  <2> HIDE DEF n, files
  <2>4. n.gen \in Int /\ a.gen \in Int /\ b.gen \in Int
    BY <1>1, <2>2, FileFacts
  <2>5. Valid(a, want) => n.gen >= a.gen
    BY <2>2, <2>3, <2>4
  <2>6. Valid(b, want) => n.gen >= b.gen
    BY <2>2, <2>3, <2>4
  <2> QED
    BY <1>1, <2>2, <2>5, <2>6 DEF n, files
<1> QED
  BY <1>2, <1>3

(* While load accepts every file, it finds the newest.                     *)
LEMMA OnDiskIsLatest ==
    ASSUME CkTypes, DiskInv
    PROVE  OnDisk = Latest /\ Latest \in Files /\ Accepted(Latest)
<1>1. target \in Files /\ backup \in Files /\ Accepted(target) /\ Accepted(backup)
  BY DEF CkTypes, DiskInv
<1>2. (Valid(target, {}) <=> target # None) /\ (Valid(backup, {}) <=> backup # None)
  BY <1>1 DEF Accepted, Valid
<1>3. OnDisk \in {target, backup, None} /\ (OnDisk # None => Valid(OnDisk, {}))
      /\ (Valid(target, {}) => OnDisk.gen >= target.gen)
      /\ (Valid(backup, {}) => OnDisk.gen >= backup.gen)
  BY <1>1, NewestOfTwo DEF OnDisk
<1>4. target.gen \in Int /\ backup.gen \in Int /\ OnDisk.gen \in Int
  BY <1>1, <1>3, FileFacts
<1>5. CASE target # None
  <2>1. backup.gen < target.gen
    BY <1>5 DEF DiskInv
  <2>2. OnDisk.gen >= target.gen
    BY <1>2, <1>3, <1>5
  <2>3. OnDisk # None
    BY <1>1, <1>4, <1>5, <2>2, FileFacts
  <2> QED
    BY <1>1, <1>3, <1>4, <1>5, <2>1, <2>2, <2>3 DEF Latest
<1>6. CASE target = None
  <2>1. CASE backup = None
    BY <1>1, <1>3, <1>6, <2>1 DEF Latest
  <2>2. CASE backup # None
    <3>1. OnDisk.gen >= backup.gen
      BY <1>2, <1>3, <2>2
    <3>2. OnDisk # None
      BY <1>1, <1>4, <2>2, <3>1, FileFacts
    <3> QED
      BY <1>1, <1>3, <1>6, <3>2 DEF Latest
  <2> QED
    BY <2>1, <2>2
<1> QED
  BY <1>5, <1>6

-----------------------------------------------------------------------------
(* A process that does nothing.                                            *)
LEMMA IdleInProcedure ==
    /\ Idle \in Procedure /\ Idle.pc = "idle" /\ Idle.op = "none" /\ Idle.want = {}
    /\ Idle.first = None /\ Idle.result = None /\ Idle.env = None
BY FileFacts DEF Idle, Procedure

(* What recover makes of a body is a body that is as acceptable.           *)
LEMMA RecoveredInBody ==
    ASSUME NEW b \in AnyBody
    PROVE  Recovered(b) \in AnyBody
<1>1. b.life \in Lives(2) /\ Fail(b.life, TRUE) \in Lives(2)
  BY DEF AnyBody, Lives, Fail, States
<1>2. RecoverOrphan(b.life, b.report, b.silent) \in Lives(2)
  BY <1>1 DEF RecoverOrphan
<1> QED
  BY <1>2 DEF Recovered, AnyBody

(* What a process outside the lock must know when it goes on.              *)
Outside(r) ==
    /\ r \in Procedure
    /\ r.pc \in {"idle", "read", "done", "sealed"}
    /\ r.pc = "sealed" => r.env # None
    /\ clean =>
        /\ Accepted(r.first) /\ Past(r.first) /\ Past(r.result)
        /\ r.pc = "read" => r.first.gen >= r.floor \/ backup.gen >= r.floor
        /\ r.op \in {"load", "recover"} /\ r.want = {} /\ r.pc \in {"done", "sealed"}
           => r.result.gen >= r.floor
        /\ r.op = "recover" /\ r.pc = "sealed" => r.result # None /\ r.env.gen = r.result.gen + 1

LEMMA OutsideKeeps ==
    ASSUME CkInv, NEW p \in Procs, NEW r, Outside(r),
           proc' = [proc EXCEPT ![p] = r],
           UNCHANGED <<target, backup, acked, clean>>, lock' = lock \/ lock' = lock \ {p}
    PROVE  CkInv'
<1>0. CkTypes /\ WriterInv /\ proc \in [Procs -> Procedure] /\ r \in Procedure
  BY DEF CkInv, CkTypes, Outside
<1>1. proc'[p] = r /\ \A q \in Procs : q # p => proc'[q] = proc[q]
  BY <1>0
<1>2. CkTypes'
  <2>1. lock' \in {{}} \cup {{q} : q \in Procs}
    BY <1>0 DEF CkTypes
  <2> QED
    BY <1>0, <2>1 DEF CkTypes
<1>3. \A q \in Procs : q # p /\ proc[q].pc \in {"write", "moved", "installed"} => lock' = {q}
  BY <1>0 DEF WriterInv
<1>4. WriterInv'
  BY <1>0, <1>1, <1>3 DEF WriterInv, Outside
<1>5. ASSUME clean PROVE DiskInv' /\ BeyondInv' /\ ReaderInv' /\ RecoveryInv'
  <2>0. DiskInv /\ BeyondInv /\ ReaderInv /\ RecoveryInv /\ Latest' = Latest
    BY <1>5 DEF CkInv, Latest
  <2>1. DiskInv'
    BY <2>0 DEF DiskInv, Accepted
  <2>2. BeyondInv'
    BY <1>1, <2>0 DEF BeyondInv, Outside
  <2>3. ReaderInv'
    BY <1>1, <1>5, <2>0 DEF ReaderInv, Outside, Accepted, Past
  <2>4. RecoveryInv'
    BY <1>1, <1>5, <2>0 DEF RecoveryInv, Outside
  <2> QED
    BY <2>1, <2>2, <2>3, <2>4
<1> QED
  BY <1>2, <1>4, <1>5 DEF CkInv

(* A process that comes to rest.                                           *)
LEMMA IdleIsOutside == Outside(Idle)
BY IdleInProcedure DEF Outside, Accepted, Past

-----------------------------------------------------------------------------
(* Reading.                                                                *)
LEMMA OpenTargetKeeps ==
    ASSUME CkInv, NEW p \in Procs, OpenTarget(p)
    PROVE  CkInv'
<1>1. PICK op \in {"load", "recover"}, want \in {{h} : h \in Plans} \cup {{}} :
          /\ proc[p].pc = "idle"
          /\ proc' = [proc EXCEPT ![p] = [Idle EXCEPT !.pc = "read", !.op = op, !.want = want,
                                                      !.floor = acked.gen, !.first = target]]
          /\ UNCHANGED <<target, backup, lock, acked, clean>>
  BY DEF OpenTarget
<1> DEFINE r == [Idle EXCEPT !.pc = "read", !.op = op, !.want = want,
                             !.floor = acked.gen, !.first = target]
<1>2. /\ r.pc = "read" /\ r.op = op /\ r.want = want /\ r.floor = acked.gen /\ r.first = target
      /\ r.result = None /\ r.env = None
  BY DEF Idle
<1>3. CkTypes /\ target \in Files /\ backup \in Files /\ acked \in Files
  BY DEF CkInv, CkTypes
<1>4. r \in Procedure
  BY <1>3, FileFacts, IdleInProcedure DEF Procedure
<1>5. proc' = [proc EXCEPT ![p] = r]
  BY <1>1
<1> HIDE DEF r
<1>6. ASSUME clean
      PROVE  /\ Accepted(target) /\ Past(target) /\ Past(None)
             /\ target.gen >= acked.gen \/ backup.gen >= acked.gen
  BY <1>3, <1>6, FileFacts DEF CkInv, DiskInv, Past, Latest
<1>7. Outside(r)
  BY <1>2, <1>4, <1>6 DEF Outside
<1> QED
  BY <1>1, <1>5, <1>7, OutsideKeeps

LEMMA OpenBackupKeeps ==
    ASSUME CkInv, NEW p \in Procs, OpenBackup(p)
    PROVE  CkInv'
<1> DEFINE me    == proc[p]
           found == Newest(Candidates(me.first, backup, me.want))
           fixed == Recovered(found.body)
           saves == found # None /\ me.op = "recover" /\ fixed # found.body /\ found.gen < MaxGen
           next  == IF saves THEN "sealed" ELSE "done"
           made  == IF saves THEN Envelope(found.gen + 1, found.plan, fixed) ELSE None
           r     == [me EXCEPT !.result = found, !.first = None, !.pc = next, !.env = made]
<1>1. /\ me.pc = "read"
      /\ proc' = [proc EXCEPT ![p].result = found, ![p].first = None, ![p].pc = next, ![p].env = made]
      /\ UNCHANGED <<target, backup, lock, acked, clean>>
  BY DEF OpenBackup
<1>2. /\ CkTypes /\ target \in Files /\ backup \in Files /\ me \in Procedure
      /\ proc \in [Procs -> Procedure]
  BY DEF CkInv, CkTypes
<1>3. me.first \in Files /\ me.want \in SUBSET Plans /\ me.floor \in Int
  BY <1>2 DEF Procedure
<1>4. /\ found \in {me.first, backup, None}
      /\ found # None => Valid(found, me.want)
      /\ Valid(me.first, me.want) => found.gen >= me.first.gen
      /\ Valid(backup, me.want) => found.gen >= backup.gen
  BY <1>2, <1>3, NewestOfTwo
<1>5. found \in Files
  BY <1>2, <1>3, <1>4, FileFacts
<1>6. saves \in BOOLEAN /\ (saves => found # None /\ found.gen < MaxGen)
  OBVIOUS
<1> HIDE DEF found
<1>7. saves => Envelope(found.gen + 1, found.plan, fixed) \in Envelopes
  <2>1. SUFFICES ASSUME saves PROVE Envelope(found.gen + 1, found.plan, fixed) \in Envelopes
    OBVIOUS
  <2>2. found \in Envelopes /\ found.gen \in Nat /\ found.body \in AnyBody /\ found.plan \in Plans
    BY <1>5, <2>1, FileFacts
  <2>3. fixed \in AnyBody
    BY <2>2, RecoveredInBody
  <2>4. found.gen + 1 \in Generations
    BY <2>1, <2>2, MaxGenAssumption DEF Generations
  <2> HIDE DEF fixed
  <2> QED
    BY <2>2, <2>3, <2>4 DEF Envelope, Envelopes
<1>8. made \in Files /\ (saves => made # None /\ made.gen = found.gen + 1)
  BY <1>7, FileFacts DEF Files, Envelope
<1>9. next \in {"sealed", "done"} /\ (next = "sealed" => saves)
  OBVIOUS
<1>10. saves => found # None /\ me.op = "recover"
  OBVIOUS
<1> HIDE DEF saves, next, made, fixed
<1>11. /\ r.result = found /\ r.first = None /\ r.pc = next /\ r.env = made
       /\ r.op = me.op /\ r.want = me.want /\ r.floor = me.floor
  BY <1>2 DEF Procedure
<1>12. r \in Procedure
  BY <1>2, <1>5, <1>8, <1>9, FileFacts DEF Procedure
<1>13. proc' = [proc EXCEPT ![p] = r]
  BY <1>1, <1>2
<1>14. ASSUME clean
       PROVE  Past(found) /\ (me.want = {} => found.gen >= me.floor)
  <2>1. /\ DiskInv /\ Past(me.first) /\ Accepted(me.first)
        /\ me.first.gen >= me.floor \/ backup.gen >= me.floor
    BY <1>1, <1>14 DEF CkInv, ReaderInv
  <2>2. Past(backup)
    BY <1>2, <2>1, FileFacts DEF DiskInv, Past, Latest
  <2>3. Past(found)
    BY <1>4, <2>1, <2>2 DEF Past
  <2>4. ASSUME me.want = {} PROVE found.gen >= me.floor
    <3>1. found.gen \in Int /\ found.gen >= -1 /\ me.first.gen \in Int /\ backup.gen \in Int
      BY <1>2, <1>3, <1>5, FileFacts
    <3>2. me.first # None => Valid(me.first, me.want)
      BY <2>1, <2>4 DEF Valid, Accepted
    <3>3. backup # None => Valid(backup, me.want)
      BY <2>1, <2>4 DEF DiskInv, Valid, Accepted
    <3>4. found.gen >= me.first.gen /\ found.gen >= backup.gen
      BY <1>4, <3>1, <3>2, <3>3, FileFacts
    <3> QED
      BY <1>3, <2>1, <3>1, <3>4
  <2> QED
    BY <2>3, <2>4
<1> HIDE DEF r, me
<1>15. Outside(r)
  <2>1. Accepted(None) /\ Past(None)
    BY DEF Accepted, Past
  <2>2. r.pc = "sealed" => r.env # None
    BY <1>8, <1>9, <1>11
  <2>3. ASSUME clean
        PROVE  /\ Accepted(r.first) /\ Past(r.first) /\ Past(r.result) /\ r.pc # "read"
               /\ r.want = {} => r.result.gen >= r.floor
               /\ r.op = "recover" /\ r.pc = "sealed" => r.result # None /\ r.env.gen = r.result.gen + 1
    BY <1>8, <1>9, <1>10, <1>11, <1>14, <2>1, <2>3
  <2> QED
    BY <1>9, <1>11, <1>12, <2>2, <2>3 DEF Outside
<1> QED
  BY <1>1, <1>13, <1>15, OutsideKeeps

(* Steps after which the process is outside the lock, at rest or with an   *)
(* envelope to save.                                                       *)
LEMMA LeavingKeeps ==
    ASSUME CkInv, NEW p \in Procs, Return(p) \/ Seal(p) \/ Stale(p) \/ Interrupt(p)
    PROVE  CkInv'
<1>1. CASE Return(p) \/ Stale(p) \/ Interrupt(p)
  BY <1>1, IdleIsOutside, OutsideKeeps DEF Return, Stale, Interrupt
<1>2. CASE Seal(p)
  <2>1. PICK gen \in Generations, plan \in Plans, body \in Bodies :
            /\ proc' = [proc EXCEPT ![p] = [Idle EXCEPT !.pc = "sealed", !.op = "save",
                                                        !.env = Envelope(gen, plan, body)]]
            /\ UNCHANGED <<target, backup, lock, acked, clean>>
    BY <1>2 DEF Seal
  <2> DEFINE e == Envelope(gen, plan, body)
             r == [Idle EXCEPT !.pc = "sealed", !.op = "save", !.env = e]
  <2>2. e \in Envelopes
    BY BodiesAssumption DEF Envelope, Envelopes, AnyBody
  <2>3. e # None /\ e \in Files
    BY <2>2, FileFacts DEF Files
  <2>4. proc' = [proc EXCEPT ![p] = r]
    BY <2>1
  <2> HIDE DEF e
  <2>5. /\ r.pc = "sealed" /\ r.op = "save" /\ r.env = e /\ r.first = None /\ r.result = None
        /\ r \in Procedure
    BY <2>3, IdleInProcedure DEF Idle, Procedure
  <2> HIDE DEF r
  <2>6. Outside(r)
    BY <2>3, <2>5 DEF Outside, Accepted, Past
  <2> QED
    BY <2>1, <2>4, <2>6, OutsideKeeps
<1> QED
  BY <1>1, <1>2

-----------------------------------------------------------------------------
(* Writing, under the lock.                                                *)
LEMMA EnterKeeps ==
    ASSUME CkInv, NEW p \in Procs, Enter(p)
    PROVE  CkInv'
<1> DEFINE me == proc[p]
           r == [me EXCEPT !.pc = "write"]
<1>1. /\ me.pc = "sealed" /\ lock = {} /\ Increases(me.env.gen) /\ lock' = {p}
      /\ proc' = [proc EXCEPT ![p].pc = "write"]
      /\ UNCHANGED <<target, backup, acked, clean>>
  BY DEF Enter
<1>2. CkTypes /\ WriterInv /\ proc \in [Procs -> Procedure] /\ me \in Procedure
  BY DEF CkInv, CkTypes
<1>3. /\ r.pc = "write" /\ r.op = me.op /\ r.want = me.want /\ r.floor = me.floor
      /\ r.first = me.first /\ r.result = me.result /\ r.env = me.env /\ r \in Procedure
  BY <1>2 DEF Procedure
<1>4. proc' = [proc EXCEPT ![p] = r]
  BY <1>1, <1>2
<1> HIDE DEF r
<1>5. proc'[p] = r /\ \A q \in Procs : q # p => proc'[q] = proc[q]
  BY <1>2, <1>4
<1>6. \A q \in Procs : proc[q].pc \notin {"write", "moved", "installed"}
  BY <1>1, <1>2 DEF WriterInv
<1>7. CkTypes'
  BY <1>1, <1>2, <1>3, <1>4 DEF CkTypes
<1>8. WriterInv'
  BY <1>1, <1>2, <1>3, <1>5, <1>6 DEF WriterInv
<1>9. ASSUME clean PROVE DiskInv' /\ BeyondInv' /\ ReaderInv' /\ RecoveryInv'
  <2>0. DiskInv /\ BeyondInv /\ ReaderInv /\ RecoveryInv /\ Latest' = Latest
    BY <1>1, <1>9 DEF CkInv, Latest
  <2>1. Latest \in Files /\ Accepted(Latest) /\ Latest \in {target, backup}
    BY <1>2, <2>0, OnDiskIsLatest DEF Latest
  <2>2. me.env \in Files /\ me.env # None /\ me.result \in Files
    BY <1>1, <1>2 DEF Procedure, WriterInv
  <2>3. Latest.gen \in Int /\ Latest.gen >= -1 /\ me.env.gen \in Nat /\ me.result.gen \in Int
    BY <2>1, <2>2, FileFacts
  <2>4. Latest.gen < me.env.gen
    <3>1. CASE Latest = None
      BY <2>3, <3>1, FileFacts
    <3>2. CASE Latest # None
      <4>1. Latest \in Candidates(target, backup, {})
        BY <2>1, <3>2 DEF Accepted, Candidates, Valid
      <4> QED
        BY <1>1, <2>3, <4>1 DEF Increases
    <3> QED
      BY <3>1, <3>2
  <2>5. me.op = "recover" => me.result = Latest
    <3>1. SUFFICES ASSUME me.op = "recover" PROVE me.result = Latest
      OBVIOUS
    <3>2. me.result # None /\ me.env.gen = me.result.gen + 1 /\ Past(me.result)
      BY <1>1, <2>0, <3>1 DEF RecoveryInv, ReaderInv
    <3>3. ~(me.result.gen < Latest.gen)
      BY <2>3, <2>4, <3>2
    <3> QED
      BY <3>2, <3>3 DEF Past
  <2>6. DiskInv'
    BY <1>1, <2>0 DEF DiskInv, Accepted
  <2>7. BeyondInv'
    BY <1>3, <1>5, <1>6, <2>0, <2>4 DEF BeyondInv
  <2>8. ReaderInv'
    BY <1>1, <1>3, <1>5, <2>0 DEF ReaderInv, Accepted, Past
  <2>9. RecoveryInv'
    BY <1>3, <1>5, <2>0, <2>5 DEF RecoveryInv
  <2> QED
    BY <2>6, <2>7, <2>8, <2>9
<1> QED
  BY <1>1, <1>7, <1>8, <1>9 DEF CkInv

LEMMA MoveAsideKeeps ==
    ASSUME CkInv, NEW p \in Procs, MoveAside(p)
    PROVE  CkInv'
<1> DEFINE me == proc[p]
           r == [me EXCEPT !.pc = "moved"]
<1>1. /\ me.pc = "write" /\ target' = None
      /\ backup' = IF target = None THEN backup ELSE target
      /\ proc' = [proc EXCEPT ![p].pc = "moved"]
      /\ UNCHANGED <<lock, acked, clean>>
  BY DEF MoveAside
<1>2. /\ CkTypes /\ WriterInv /\ proc \in [Procs -> Procedure] /\ me \in Procedure
      /\ target \in Files /\ backup \in Files
  BY DEF CkInv, CkTypes
<1>3. /\ r.pc = "moved" /\ r.op = me.op /\ r.want = me.want /\ r.floor = me.floor
      /\ r.first = me.first /\ r.result = me.result /\ r.env = me.env /\ r \in Procedure
  BY <1>2 DEF Procedure
<1>4. proc' = [proc EXCEPT ![p] = r]
  BY <1>1, <1>2
<1> HIDE DEF r
<1>5. proc'[p] = r /\ \A q \in Procs : q # p => proc'[q] = proc[q]
  BY <1>2, <1>4
<1>6. lock = {p} /\ \A q \in Procs : q # p => proc[q].pc \notin {"write", "moved", "installed"}
  BY <1>1, <1>2 DEF WriterInv
<1>7. CkTypes'
  BY <1>1, <1>2, <1>3, <1>4, FileFacts DEF CkTypes
<1>8. WriterInv'
  BY <1>1, <1>2, <1>3, <1>5, <1>6 DEF WriterInv
<1>9. Latest' = Latest
  BY <1>1 DEF Latest
<1>10. ASSUME clean PROVE DiskInv' /\ BeyondInv' /\ ReaderInv' /\ RecoveryInv'
  <2>0. DiskInv /\ BeyondInv /\ ReaderInv /\ RecoveryInv
    BY <1>10 DEF CkInv
  <2>1. DiskInv'
    <3>1. Accepted(target') /\ Accepted(backup')
      BY <1>1, <2>0 DEF DiskInv, Accepted
    <3> QED
      BY <1>1, <1>9, <2>0, <3>1 DEF DiskInv, Accepted
  <2>2. BeyondInv'
    BY <1>1, <1>3, <1>5, <1>6, <1>9, <2>0 DEF BeyondInv
  <2>3. backup.gen <= backup'.gen
    BY <1>1, <1>2, <2>0, FileFacts DEF DiskInv
  <2>4. ReaderInv'
    <3> SUFFICES ASSUME NEW q \in Procs
                 PROVE  /\ Accepted(proc[q].first)' /\ Past(proc[q].first)' /\ Past(proc[q].result)'
                        /\ proc'[q].pc = "read" =>
                               proc'[q].first.gen >= proc'[q].floor \/ backup'.gen >= proc'[q].floor
                        /\ /\ proc'[q].op \in {"load", "recover"} /\ proc'[q].want = {}
                           /\ proc'[q].pc \in {"done", "sealed", "write", "moved"}
                           => proc'[q].result.gen >= proc'[q].floor
      BY DEF ReaderInv
    <3>1. /\ Accepted(proc[q].first) /\ Past(proc[q].first) /\ Past(proc[q].result)
          /\ proc[q].pc = "read" =>
                 proc[q].first.gen >= proc[q].floor \/ backup.gen >= proc[q].floor
          /\ /\ proc[q].op \in {"load", "recover"} /\ proc[q].want = {}
             /\ proc[q].pc \in {"done", "sealed", "write", "moved"}
             => proc[q].result.gen >= proc[q].floor
      BY <2>0 DEF ReaderInv
    <3>2. proc[q].floor \in Int /\ backup.gen \in Int /\ backup'.gen \in Int
      <4>1. backup' \in Files
        BY <1>7 DEF CkTypes
      <4> QED
        BY <1>2, <4>1, FileFacts DEF Procedure
    <3>3. /\ proc'[q].first = proc[q].first /\ proc'[q].result = proc[q].result
          /\ proc'[q].floor = proc[q].floor /\ proc'[q].op = proc[q].op
          /\ proc'[q].want = proc[q].want
          /\ proc'[q].pc = "moved" => proc[q].pc \in {"write", "moved"}
          /\ proc'[q].pc # "moved" => proc'[q].pc = proc[q].pc
      BY <1>1, <1>3, <1>5
    <3>4. Accepted(proc[q].first)' /\ Past(proc[q].first)' /\ Past(proc[q].result)'
      BY <1>9, <3>1, <3>3 DEF Accepted, Past
    <3>5. proc'[q].pc = "read" => proc'[q].first.gen >= proc'[q].floor \/ backup'.gen >= proc'[q].floor
      BY <2>3, <3>1, <3>2, <3>3
    <3> QED
      BY <3>1, <3>3, <3>4, <3>5
  <2>5. RecoveryInv'
    BY <1>1, <1>3, <1>5, <1>9, <2>0 DEF RecoveryInv
  <2> QED
    BY <2>1, <2>2, <2>4, <2>5
<1> QED
  BY <1>1, <1>7, <1>8, <1>10 DEF CkInv

LEMMA InstallKeeps ==
    ASSUME CkInv, NEW p \in Procs, Install(p)
    PROVE  CkInv'
<1> DEFINE me == proc[p]
           r == [Idle EXCEPT !.pc = "installed", !.env = me.env]
<1>1. /\ me.pc = "moved" /\ target' = me.env
      /\ clean' = (clean /\ NestedAccepted(me.env.body))
      /\ acked' = IF clean' THEN acked ELSE None
      /\ proc' = [proc EXCEPT ![p] = r]
      /\ UNCHANGED <<backup, lock>>
  BY DEF Install
<1>2. /\ CkTypes /\ WriterInv /\ proc \in [Procs -> Procedure] /\ me \in Procedure
      /\ target \in Files /\ backup \in Files /\ acked \in Files /\ clean \in BOOLEAN
  BY DEF CkInv, CkTypes
<1>3. me.env \in Files /\ me.env # None /\ target = None /\ lock = {p}
  BY <1>1, <1>2 DEF WriterInv, Procedure
<1>4. /\ r.pc = "installed" /\ r.op = "none" /\ r.env = me.env
      /\ r.first = None /\ r.result = None /\ r \in Procedure
  BY <1>3, IdleInProcedure DEF Idle, Procedure
<1> HIDE DEF r
<1>5. proc'[p] = r /\ \A q \in Procs : q # p => proc'[q] = proc[q]
  BY <1>1, <1>2
<1>6. \A q \in Procs : q # p => proc[q].pc \notin {"write", "moved", "installed"}
  BY <1>2, <1>3 DEF WriterInv
<1>7. CkTypes'
  BY <1>1, <1>2, <1>3, <1>4, FileFacts DEF CkTypes
<1>8. WriterInv'
  BY <1>1, <1>2, <1>3, <1>4, <1>5, <1>6 DEF WriterInv
<1>9. ASSUME clean' PROVE DiskInv' /\ BeyondInv' /\ ReaderInv' /\ RecoveryInv'
  <2>0. /\ DiskInv /\ BeyondInv /\ ReaderInv /\ RecoveryInv /\ clean
        /\ NestedAccepted(me.env.body) /\ acked' = acked
    BY <1>1, <1>9 DEF CkInv
  <2>1. Latest = backup /\ Latest' = me.env /\ Latest.gen < me.env.gen
    BY <1>1, <1>3, <2>0 DEF Latest, BeyondInv
  <2>2. backup.gen \in Int /\ me.env.gen \in Int /\ acked.gen \in Int
    BY <1>2, <1>3, FileFacts
  <2>3. DiskInv'
    BY <1>1, <1>3, <2>0, <2>1, <2>2 DEF DiskInv, Accepted
  <2>4. BeyondInv'
    BY <1>4, <1>5, <1>6 DEF BeyondInv
  <2>5. ASSUME NEW e \in Files, Past(e) PROVE e = None \/ e = me.env \/ e.gen < me.env.gen
    <3>1. e.gen \in Int
      BY FileFacts
    <3> QED
      BY <2>1, <2>2, <2>5, <3>1 DEF Past
  <2>6. ReaderInv'
    <3>1. ASSUME NEW q \in Procs, q # p
          PROVE  Past(proc[q].first)' /\ Past(proc[q].result)'
      <4>1. proc[q].first \in Files /\ proc[q].result \in Files
        BY <1>2 DEF Procedure
      <4>2. Past(proc[q].first) /\ Past(proc[q].result)
        BY <2>0 DEF ReaderInv
      <4> QED
        BY <1>5, <2>1, <2>5, <3>1, <4>1, <4>2 DEF Past
    <3> QED
      BY <1>1, <1>4, <1>5, <2>0, <3>1 DEF ReaderInv, Accepted, Past
  <2>7. RecoveryInv'
    BY <1>4, <1>5, <1>6, <2>0 DEF RecoveryInv
  <2> QED
    BY <2>3, <2>4, <2>6, <2>7
<1> QED
  BY <1>7, <1>8, <1>9 DEF CkInv

LEMMA AckKeeps ==
    ASSUME CkInv, NEW p \in Procs, Ack(p)
    PROVE  CkInv'
<1>1. /\ proc[p].pc = "installed" /\ lock' = {}
      /\ acked' = IF clean THEN proc[p].env ELSE acked
      /\ proc' = [proc EXCEPT ![p] = Idle]
      /\ UNCHANGED <<target, backup, clean>>
  BY DEF Ack
<1>2. /\ CkTypes /\ WriterInv /\ proc \in [Procs -> Procedure] /\ proc[p] \in Procedure
      /\ target \in Files /\ acked \in Files
  BY DEF CkInv, CkTypes
<1>3. proc[p].env \in Files /\ proc[p].env # None /\ target = proc[p].env /\ lock = {p}
  BY <1>1, <1>2 DEF WriterInv, Procedure
<1>4. proc'[p] = Idle /\ \A q \in Procs : q # p => proc'[q] = proc[q]
  BY <1>1, <1>2
<1>5. \A q \in Procs : q # p => proc[q].pc \notin {"write", "moved", "installed"}
  BY <1>2, <1>3 DEF WriterInv
<1>6. CkTypes'
  BY <1>1, <1>2, <1>3, IdleInProcedure DEF CkTypes
<1>7. WriterInv'
  BY <1>1, <1>2, <1>4, <1>5, IdleInProcedure DEF WriterInv
<1>8. ASSUME clean PROVE DiskInv' /\ BeyondInv' /\ ReaderInv' /\ RecoveryInv'
  <2>0. DiskInv /\ BeyondInv /\ ReaderInv /\ RecoveryInv /\ Latest' = Latest
    BY <1>1, <1>8 DEF CkInv, Latest
  <2>1. acked' = Latest /\ Latest.gen \in Int
    BY <1>1, <1>2, <1>3, <1>8, FileFacts DEF Latest
  <2>2. DiskInv'
    BY <1>1, <2>0, <2>1 DEF DiskInv, Accepted
  <2>3. BeyondInv'
    BY <1>4, <1>5, IdleInProcedure DEF BeyondInv
  <2>4. ReaderInv'
    BY <1>1, <1>4, <2>0, IdleInProcedure DEF ReaderInv, Accepted, Past
  <2>5. RecoveryInv'
    BY <1>4, <1>5, <2>0, IdleInProcedure DEF RecoveryInv
  <2> QED
    BY <2>2, <2>3, <2>4, <2>5
<1> QED
  BY <1>1, <1>6, <1>7, <1>8 DEF CkInv

-----------------------------------------------------------------------------
(* The invariant of the two files, whoever writes, reads or is killed.     *)
LEMMA CkInvariant == Spec => []CkInv
<1>1. Init => CkInv
  <2> SUFFICES ASSUME Init PROVE CkInv
    OBVIOUS
  <2> USE IdleInProcedure, FileFacts DEF Init
  <2>1. CkTypes
    BY DEF CkTypes
  <2>2. WriterInv
    BY DEF WriterInv
  <2>3. DiskInv
    BY DEF DiskInv, Accepted, Latest
  <2>4. BeyondInv /\ RecoveryInv
    BY DEF BeyondInv, RecoveryInv
  <2>5. ReaderInv
    BY DEF ReaderInv, Accepted, Past
  <2> QED
    BY <2>1, <2>2, <2>3, <2>4, <2>5 DEF CkInv
<1>2. CkInv /\ [Next]_ckVars => CkInv'
  <2> SUFFICES ASSUME CkInv, [Next]_ckVars PROVE CkInv'
    OBVIOUS
  <2>1. CASE UNCHANGED ckVars
    BY <2>1 DEF ckVars, CkInv, CkTypes, WriterInv, DiskInv, BeyondInv, ReaderInv, RecoveryInv,
       Accepted, Past, Latest
  <2>2. CASE Next
    BY <2>2, OpenTargetKeeps, OpenBackupKeeps, LeavingKeeps, EnterKeeps, MoveAsideKeeps,
       InstallKeeps, AckKeeps DEF Next
  <2> QED
    BY <2>1, <2>2
<1> QED
  BY <1>1, <1>2, PTL DEF Spec

(* What save() returned is in one of the two files, or something newer is, *)
(* wherever later saves fail or are killed.                                *)
THEOREM CheckpointSurvives == Spec => []AckedCheckpointSurvives
<1>1. CkInv => AckedCheckpointSurvives
  BY OnDiskIsLatest DEF CkInv, DiskInv, AckedCheckpointSurvives
<1> QED
  BY <1>1, CkInvariant, PTL

(* load() without the lock finds nothing older than what was acknowledged  *)
(* before it began, although the files are renamed while it reads them.    *)
THEOREM LoadFresh == Spec => []LoadIsFresh
<1>1. CkInv => LoadIsFresh
  BY DEF CkInv, ReaderInv, LoadIsFresh
<1> QED
  BY <1>1, CkInvariant, PTL

(* A recovery that gets to write replaces exactly what it had loaded.      *)
THEOREM RecoveryUndoesNothing == Spec => []RecoverUndoesNothing
<1>1. CkInv => RecoverUndoesNothing
  BY OnDiskIsLatest DEF CkInv, RecoveryInv, RecoverUndoesNothing
<1> QED
  BY <1>1, CkInvariant, PTL

-----------------------------------------------------------------------------
(* Records carry a sequence number.                                        *)
LEMMA EventFacts ==
    \A e \in Events : /\ e.seq.whole \in Nat /\ e.seq.part \in Nat /\ e.seq.float \in BOOLEAN
                      /\ e.seq.part # 0 => e.seq.float
<1>1. \A e \in Events : e.seq \in Numbers
  BY DEF Events, TransitionEvents, CheckpointEvents
<1>2. \A x \in Numbers : /\ x.whole \in Nat /\ x.part \in Nat /\ x.float \in BOOLEAN
                         /\ x.part # 0 => x.float
  BY LogAssumption
<1> QED
  BY <1>1, <1>2

(* The first d are integers and go up by one.                              *)
Counted(events, d) ==
    \A i \in 1 .. d : /\ events[i].seq.part = 0 /\ ~events[i].seq.float
                      /\ events[i].seq.whole = events[1].seq.whole + i - 1

(* A diagnosis of healthy: the numbers go up by one.                       *)
LEMMA HealthyCounts ==
    ASSUME NEW events \in Seq(Events), Diagnosis(events) = "healthy"
    PROVE  /\ Len(events) > 0
           /\ Counted(events, Len(events))
           /\ ~Broken(events)
<1>1. events # <<>> /\ ~NonInteger(events) /\ ~Disordered(events) /\ ~Gaps(events) /\ ~Broken(events)
  BY DEF Diagnosis
<1>2. Len(events) \in Nat /\ Len(events) > 0 /\ DOMAIN events = 1 .. Len(events)
  BY <1>1
<1> DEFINE w(i) == events[i].seq.whole
<1>a. \A i \in 1 .. Len(events) : events[i] \in Events
  OBVIOUS
<1>b. \A i \in 1 .. Len(events) : w(i) \in Nat /\ events[i].seq.part = 0 /\ ~events[i].seq.float
  BY <1>1, <1>2, <1>a, EventFacts DEF NonInteger
<1>3. \A i \in 1 .. Len(events) - 1 : w(i + 1) = w(i) + 1
  <2> SUFFICES ASSUME NEW i \in 1 .. Len(events) - 1 PROVE w(i + 1) = w(i) + 1
    OBVIOUS
  <2>1. i \in 1 .. Len(events) /\ i + 1 \in 1 .. Len(events)
    BY <1>2
  <2>2. Less(events[i].seq, events[i + 1].seq) /\ ~(w(i + 1) > w(i) + 1)
    BY <1>1 DEF Disordered, Gaps
  <2>3. w(i) < w(i + 1)
    BY <1>b, <2>1, <2>2 DEF Less
  <2> QED
    BY <1>b, <2>1, <2>2, <2>3
<1> HIDE DEF w
<1> DEFINE T == {i \in 1 .. Len(events) : w(i) # w(1) + i - 1}
<1>4. T = {}
  <2>1. SUFFICES ASSUME T # {} PROVE FALSE
    OBVIOUS
  <2>2. T \in SUBSET Nat
    BY <1>2
  <2>3. PICK x \in T : \A y \in T : x <= y
    <3> HIDE DEF T
    <3> QED
      BY <2>1, <2>2, LeastNumber
  <2>4. x \in 1 .. Len(events) /\ w(x) # w(1) + x - 1
    BY <2>3
  <2>5. x # 1
    BY <1>2, <1>b, <2>4
  <2>6. x - 1 \in 1 .. Len(events) - 1 /\ x - 1 \in 1 .. Len(events) /\ x - 1 \notin T
    BY <1>2, <2>3, <2>4, <2>5
  <2>7. w(x - 1) = w(1) + (x - 1) - 1
    BY <2>6
  <2>8. w((x - 1) + 1) = w(x - 1) + 1 /\ (x - 1) + 1 = x
    BY <1>3, <2>4, <2>6
  <2>9. w(x) = (w(1) + (x - 1) - 1) + 1
    BY <2>7, <2>8
  <2>10. w(1) \in Nat /\ x \in Nat
    BY <1>2, <1>b, <2>4
  <2> QED
    BY <2>4, <2>9, <2>10
<1>5. \A i \in 1 .. Len(events) : w(i) = w(1) + i - 1
  BY <1>4
<1> QED
  BY <1>1, <1>2, <1>b, <1>5 DEF Counted, w

(* Not broken: every transition starts where an earlier one of its task    *)
(* ended, namely the one right before it.                                  *)
LEMMA UnbrokenFollows ==
    ASSUME NEW events \in Seq(Events), ~Broken(events), NEW t \in Tasks,
           NEW i \in DOMAIN events, NEW j \in DOMAIN events,
           i < j, events[i].task = t, events[j].task = t
    PROVE  \E k \in i .. j - 1 : events[k].task = t /\ events[k].move[2] = events[j].move[1]
<1>1. i \in Nat /\ j \in Nat /\ i >= 1 /\ j <= Len(events) /\ Len(events) \in Nat /\ DOMAIN events = 1 .. Len(events)
  OBVIOUS
<1> DEFINE T == {m \in 1 .. j - i : events[j - m].task = t}
<1>2. T \in SUBSET Nat /\ j - i \in T
  BY <1>1
<1>3. PICK m \in T : \A y \in T : m <= y
  <2> HIDE DEF T
  <2> QED
    BY <1>2, LeastNumber
<1>4. m \in 1 .. j - i /\ events[j - m].task = t
  BY <1>3
<1> DEFINE k == j - m
<1>5. k \in i .. j - 1 /\ k \in DOMAIN events /\ k < j
  BY <1>1, <1>4
<1>6. \A l \in k + 1 .. j - 1 : events[l].task # t
  <2> SUFFICES ASSUME NEW l \in k + 1 .. j - 1, events[l].task = t PROVE FALSE
    OBVIOUS
  <2>1. j - l \in 1 .. j - i /\ j - (j - l) = l /\ ~(m <= j - l)
    BY <1>1, <1>4
  <2>2. j - l \in T
    BY <2>1
  <2> QED
    BY <1>3, <2>1, <2>2
<1>7. events[k].move[2] = events[j].move[1]
  <2> HIDE DEF k
  <2> QED
    BY <1>4, <1>5, <1>6 DEF Broken, k
<1> QED
  BY <1>4, <1>5, <1>7

-----------------------------------------------------------------------------
(* The log: numbers go up, and lines are in a file that is there.          *)
LogInv ==
    /\ log \in Seq(Events)
    /\ created \in BOOLEAN /\ torn \in BOOLEAN
    /\ \A i, j \in 1 .. Len(log) : i < j => Less(log[i].seq, log[j].seq)

(* The first n lines.                                                      *)
LEMMA SeenFacts ==
    ASSUME log \in Seq(Events), NEW n \in 0 .. Len(log)
    PROVE  /\ Seen(n) \in Seq(Events) /\ Len(Seen(n)) = n /\ DOMAIN Seen(n) = 1 .. n
           /\ \A i \in 1 .. n : Seen(n)[i] = log[i]
<1>1. Len(log) \in Nat /\ n \in Int /\ n >= 0 /\ \A i \in 1 .. n : log[i] \in Events
  OBVIOUS
<1>2. /\ SubSeq(log, 1, n) \in Seq(Events)
      /\ Len(SubSeq(log, 1, n)) = IF 1 <= n THEN n - 1 + 1 ELSE 0
      /\ \A i \in 1 .. n - 1 + 1 : SubSeq(log, 1, n)[i] = log[1 + i - 1]
  BY <1>1, SubSeqProperties
<1>3. Len(Seen(n)) = n /\ Seen(n) \in Seq(Events)
  BY <1>1, <1>2 DEF Seen
<1>4. \A i \in 1 .. n : Seen(n)[i] = log[i]
  <2> SUFFICES ASSUME NEW i \in 1 .. n PROVE SubSeq(log, 1, n)[i] = log[i]
    BY DEF Seen
  <2>1. i \in 1 .. n - 1 + 1 /\ 1 + i - 1 = i
    BY <1>1
  <2> QED
    BY <1>2, <2>1
<1> QED
  BY <1>3, <1>4

(* What replay(limit) returns.                                             *)
LEMMA ReplayFacts ==
    ASSUME log \in Seq(Events)
    PROVE  \E n \in 0 .. Len(log) :
               /\ Replay(Limit) = Seen(n) /\ n <= Limit
               /\ n = Len(log) \/ n = Limit
<1>1. Len(log) \in Nat /\ Limit \in Nat
  BY SupervisionAssumption
<1> DEFINE n == IF Len(log) < Limit THEN Len(log) ELSE Limit
<1>2. n \in 0 .. Len(log) /\ n <= Limit /\ (n = Len(log) \/ n = Limit)
  BY <1>1
<1>3. Replay(Limit) = Seen(n)
  BY DEF Replay, Seen
<1> QED
  BY <1>2, <1>3

LEMMA LogNextInv ==
    ASSUME LogInv, LogNext
    PROVE  /\ LogInv' /\ Len(log) <= Len(log') /\ Len(log') \in Nat
           /\ \A i \in 1 .. Len(log) : log'[i] = log[i]
<1>1. CASE AppendEvent
  <2>1. PICK e \in Events : Acceptable(e) /\ log' = Append(log, e) /\ created' = TRUE /\ UNCHANGED torn
    BY <1>1 DEF AppendEvent
  <2>a. ASSUME NEW x \in Events, NEW y \in Events, NEW z \in Events,
               Less(x.seq, y.seq), Less(y.seq, z.seq)
        PROVE  Less(x.seq, z.seq)
    BY <2>a, EventFacts DEF Less
  <2>2. /\ log' \in Seq(Events) /\ Len(log') = Len(log) + 1 /\ log'[Len(log) + 1] = e
        /\ \A i \in 1 .. Len(log) : log'[i] = log[i]
    BY <2>1, AppendProperties DEF LogInv
  <2>3. Len(log) \in Nat /\ \A i \in 1 .. Len(log) : log[i] \in Events
    BY DEF LogInv
  <2>4. \A i \in 1 .. Len(log) : Less(log[i].seq, e.seq)
    <3> SUFFICES ASSUME NEW i \in 1 .. Len(log) PROVE Less(log[i].seq, e.seq)
      OBVIOUS
    <3>1. log # <<>> /\ Len(log) \in 1 .. Len(log)
      BY <2>3
    <3>2. Less(log[Len(log)].seq, e.seq)
      BY <2>1, <3>1 DEF Acceptable
    <3>3. i = Len(log) \/ Less(log[i].seq, log[Len(log)].seq)
      BY <2>3, <3>1 DEF LogInv
    <3> QED
      BY <2>3, <2>a, <3>1, <3>2, <3>3
  <2>5. \A i, j \in 1 .. Len(log') : i < j => Less(log'[i].seq, log'[j].seq)
    <3> SUFFICES ASSUME NEW i \in 1 .. Len(log'), NEW j \in 1 .. Len(log'), i < j
                 PROVE  Less(log'[i].seq, log'[j].seq)
      OBVIOUS
    <3>1. i \in 1 .. Len(log) /\ (j \in 1 .. Len(log) \/ j = Len(log) + 1)
      BY <2>2, <2>3
    <3> QED
      BY <2>2, <2>4, <3>1 DEF LogInv
  <2> QED
    BY <2>1, <2>2, <2>3, <2>5 DEF LogInv
<1>2. CASE AppendCut
  BY <1>2 DEF AppendCut, LogInv
<1> QED
  BY <1>1, <1>2 DEF LogNext

-----------------------------------------------------------------------------
(* A log that fits into the limit and is called healthy is complete.       *)
LEMMA HealthyMeansComplete == LogInv => HealthyIsComplete
<1> SUFFICES ASSUME LogInv, NEW owner \in Epochs,
                    ~Raises(log, owner), Len(log) <= Limit, Diagnosis(Replay(Limit)) = "healthy"
             PROVE  /\ Contiguous(log)
                    /\ \A i \in DOMAIN log : log[i].epoch = owner
                    /\ \A t \in Tasks : \A i, j \in DOMAIN log :
                          /\ i < j /\ log[i].task = t /\ log[j].task = t
                          => \E k \in i .. j - 1 : log[k].task = t /\ log[k].move[2] = log[j].move[1]
  BY DEF HealthyIsComplete
<1>1. log \in Seq(Events) /\ Len(log) \in Nat /\ DOMAIN log = 1 .. Len(log)
  BY DEF LogInv
<1>2. Replay(Limit) = log
  <2>1. PICK n \in 0 .. Len(log) :
            Replay(Limit) = Seen(n) /\ n <= Limit /\ (n = Len(log) \/ n = Limit)
    BY <1>1, ReplayFacts
  <2>2. n = Len(log)
    <3>1. Limit \in Nat /\ n \in Nat /\ n <= Len(log)
      BY <1>1, SupervisionAssumption
    <3>2. \A a, b, c \in Nat : a <= b /\ b <= c /\ (a = b \/ a = c) => a = b
      OBVIOUS
    <3>3. Len(log) \in Nat
      BY <1>1
    <3> QED
      BY <2>1, <3>1, <3>2, <3>3, Zenon
  <2>3. /\ Seen(n) \in Seq(Events) /\ Len(Seen(n)) = Len(log)
        /\ \A i \in 1 .. Len(log) : Seen(n)[i] = log[i]
    BY <1>1, <2>2, SeenFacts
  <2>4. Seen(n) = log
    BY <1>1, <2>3, SeqEqual
  <2> QED
    BY <2>1, <2>4
<1>3. Diagnosis(log) = "healthy"
  BY <1>2
<1>4. Counted(log, Len(log)) /\ ~Broken(log)
  BY <1>1, <1>3, HealthyCounts
<1>5. Contiguous(log)
  BY <1>1, <1>4 DEF Contiguous, Counted
<1>6. \A i \in DOMAIN log : log[i].epoch = owner
  BY SupervisionAssumption DEF Raises
<1>7. ASSUME NEW t \in Tasks, NEW i \in DOMAIN log, NEW j \in DOMAIN log,
             i < j, log[i].task = t, log[j].task = t
      PROVE  \E k \in i .. j - 1 : log[k].task = t /\ log[k].move[2] = log[j].move[1]
  BY <1>1, <1>4, <1>7, UnbrokenFollows
<1> QED
  BY <1>5, <1>6, <1>7

(* The readiness command: what it remembers of its reads holds of the part *)
(* of the log it read, which no append changes.                            *)
ReaderTypes ==
    /\ reader.pc \in {"idle", "load", "replay", "stat", "done"}
    /\ reader.diagnosed \in Nat /\ reader.replayed \in Nat
    /\ store \in Int /\ reader.snapshot \in Int
    /\ reader = [pc |-> reader.pc, owner |-> reader.owner, event |-> reader.event,
                 diagnosed |-> reader.diagnosed, snapshot |-> reader.snapshot,
                 replayed |-> reader.replayed, view |-> reader.view]

Diagnosed ==
    reader.pc # "idle" =>
        /\ reader.diagnosed <= Len(log) /\ reader.diagnosed <= Limit
        /\ reader.event \in {"unknown", "healthy", "degraded"}
        /\ reader.event = "healthy" =>
               reader.diagnosed > 0 /\ Counted(log, reader.diagnosed)

Replayed ==
    /\ reader.pc \in {"replay", "stat", "done"} => reader.snapshot <= store
    /\ reader.pc \in {"stat", "done"} =>
           reader.diagnosed <= reader.replayed /\ reader.replayed <= Len(log)

Reconciled ==
    reader.view = "ready" =>
        /\ reader.pc = "done" /\ reader.event = "healthy"
        /\ reader.snapshot = reader.replayed
        /\ log[reader.replayed].seq.whole = reader.snapshot /\ log[reader.replayed].seq.part = 0
        /\ reader.owner # NoOwner => \A i \in 1 .. reader.replayed : log[i].epoch = reader.owner

ReadyInv == LogInv /\ ReaderTypes /\ Diagnosed /\ Replayed /\ Reconciled

(* The log grows under the reader.                                         *)
LEMMA GrowthKeepsReader ==
    ASSUME ReadyInv, LogInv', UNCHANGED reader, store' \in Int, store <= store',
           Len(log) <= Len(log'), Len(log') \in Nat, \A i \in 1 .. Len(log) : log'[i] = log[i]
    PROVE  ReadyInv'
<1>0. /\ ReaderTypes /\ Diagnosed /\ Replayed /\ Reconciled /\ Len(log) \in Nat /\ Limit \in Nat
      /\ reader.diagnosed \in Nat /\ reader.replayed \in Nat /\ store \in Int /\ reader.snapshot \in Int
  BY SupervisionAssumption DEF ReadyInv, ReaderTypes, LogInv
<1>1. ReaderTypes'
  BY <1>0 DEF ReaderTypes
<1>2. Diagnosed'
  <2> SUFFICES ASSUME reader.pc # "idle" PROVE Diagnosed'
    BY DEF Diagnosed
  <2>1. reader.diagnosed <= Len(log)
    BY <1>0 DEF Diagnosed
  <2>2. \A i \in 1 .. reader.diagnosed : log'[i] = log[i]
    BY <1>0, <2>1
  <2>3. reader.diagnosed > 0 => log'[1] = log[1]
    BY <1>0, <2>2
  <2>4. reader.diagnosed <= Len(log')
    BY <1>0, <2>1
  <2> QED
    BY <1>0, <2>2, <2>3, <2>4 DEF Diagnosed, Counted
<1>3. Replayed'
  BY <1>0 DEF Replayed
<1>4. Reconciled'
  <2> SUFFICES ASSUME reader.view = "ready" PROVE Reconciled'
    BY DEF Reconciled
  <2>1. reader.replayed \in 1 .. Len(log)
    BY <1>0 DEF Reconciled, Replayed, Diagnosed
  <2> QED
    BY <1>0, <2>1 DEF Reconciled
<1> QED
  BY <1>1, <1>2, <1>3, <1>4 DEF ReadyInv

(* The command's own steps.                                                *)
LEMMA DiagnoseKeeps ==
    ASSUME ReadyInv, Diagnose
    PROVE  ReadyInv'
<1>1. PICK owner \in Owners :
          /\ reader' = [Nobody EXCEPT !.pc = "load", !.owner = owner,
                                      !.event = Diagnosis(Replay(Limit)),
                                      !.diagnosed = Len(Replay(Limit))]
          /\ UNCHANGED <<logVars, store>>
  BY DEF Diagnose
<1>2. /\ LogInv /\ LogInv' /\ log' = log /\ store' = store /\ store \in Int
      /\ log \in Seq(Events) /\ Len(log) \in Nat
  BY <1>1 DEF logVars, ReadyInv, ReaderTypes, LogInv
<1>3. PICK n \in 0 .. Len(log) : Replay(Limit) = Seen(n) /\ n <= Limit
  BY <1>2, ReplayFacts
<1>4. /\ Seen(n) \in Seq(Events) /\ Len(Seen(n)) = n /\ DOMAIN Seen(n) = 1 .. n
      /\ \A i \in 1 .. n : Seen(n)[i] = log[i]
  BY <1>2, SeenFacts
<1> DEFINE d == Diagnosis(Seen(n))
<1>5. d \in {"unknown", "healthy", "degraded"}
  BY DEF Diagnosis
<1>6. d = "healthy" => n > 0 /\ Counted(log, n)
  <2> SUFFICES ASSUME d = "healthy" PROVE n > 0 /\ Counted(log, n)
    OBVIOUS
  <2>1. n > 0 /\ Counted(Seen(n), n)
    BY <1>4, HealthyCounts
  <2>2. 1 \in 1 .. n
    BY <1>2, <2>1
  <2> QED
    BY <1>4, <2>1, <2>2 DEF Counted
<1> HIDE DEF d
<1>7. /\ reader'.pc = "load" /\ reader'.owner = owner /\ reader'.event = d
      /\ reader'.diagnosed = n /\ reader'.snapshot = -1 /\ reader'.replayed = 0 /\ reader'.view = "none"
      /\ reader' = [pc |-> "load", owner |-> owner, event |-> d, diagnosed |-> n, snapshot |-> -1,
                    replayed |-> 0, view |-> "none"]
  BY <1>1, <1>3, <1>4 DEF Nobody, d
<1>8. ReaderTypes'
  BY <1>2, <1>7 DEF ReaderTypes
<1> QED
  BY <1>2, <1>3, <1>5, <1>6, <1>7, <1>8 DEF ReadyInv, Diagnosed, Replayed, Reconciled

LEMMA NobodyKeeps ==
    ASSUME ReadyInv, reader' = Nobody, UNCHANGED <<logVars, store>>
    PROVE  ReadyInv'
<1>1. LogInv' /\ log' = log /\ store' = store /\ store \in Int
  BY DEF ReadyInv, ReaderTypes, LogInv, logVars
<1>2. ReaderTypes'
  BY <1>1 DEF ReaderTypes, Nobody
<1> QED
  BY <1>1, <1>2 DEF ReadyInv, Diagnosed, Replayed, Reconciled, Nobody

LEMMA LoadStoreKeeps ==
    ASSUME ReadyInv, LoadStore
    PROVE  ReadyInv'
<1>1. /\ LogInv /\ LogInv' /\ log' = log /\ store' = store /\ store \in Int
      /\ ReaderTypes /\ Diagnosed /\ Reconciled
  BY DEF LoadStore, logVars, ReadyInv, ReaderTypes, LogInv
<1>2. /\ reader.pc = "load" /\ reader'.pc = "replay" /\ reader'.snapshot = store
      /\ reader'.owner = reader.owner /\ reader'.event = reader.event
      /\ reader'.diagnosed = reader.diagnosed /\ reader'.replayed = reader.replayed
      /\ reader'.view = reader.view
      /\ reader' = [pc |-> "replay", owner |-> reader.owner, event |-> reader.event,
                    diagnosed |-> reader.diagnosed, snapshot |-> store,
                    replayed |-> reader.replayed, view |-> reader.view]
  BY <1>1 DEF LoadStore, ReaderTypes
<1>3. ReaderTypes'
  BY <1>1, <1>2 DEF ReaderTypes
<1>4. Diagnosed'
  BY <1>1, <1>2 DEF Diagnosed
<1>5. Replayed'
  BY <1>1, <1>2 DEF Replayed
<1>6. Reconciled'
  BY <1>1, <1>2 DEF Reconciled
<1> QED
  BY <1>1, <1>3, <1>4, <1>5, <1>6 DEF ReadyInv

LEMMA ReplayLogKeeps ==
    ASSUME ReadyInv, ReplayLog
    PROVE  ReadyInv'
<1>1. CASE reader' = Nobody
  BY <1>1, NobodyKeeps DEF ReplayLog
<1>2. CASE reader' = [reader EXCEPT !.pc = "stat", !.replayed = Len(Replay(Limit))]
  <2>1. /\ LogInv /\ LogInv' /\ log' = log /\ store' = store /\ store \in Int
        /\ ReaderTypes /\ Diagnosed /\ Replayed /\ Reconciled /\ reader.pc = "replay"
        /\ log \in Seq(Events) /\ Len(log) \in Nat /\ Limit \in Nat /\ reader.diagnosed \in Nat
    BY SupervisionAssumption DEF ReplayLog, logVars, ReadyInv, ReaderTypes, LogInv
  <2>2. PICK n \in 0 .. Len(log) : Replay(Limit) = Seen(n) /\ (n = Len(log) \/ n = Limit)
    BY <2>1, ReplayFacts
  <2>3. Len(Replay(Limit)) = n
    BY <2>1, <2>2, SeenFacts
  <2>4. /\ reader'.pc = "stat" /\ reader'.snapshot = reader.snapshot
        /\ reader'.owner = reader.owner /\ reader'.event = reader.event
        /\ reader'.diagnosed = reader.diagnosed /\ reader'.replayed = n
        /\ reader'.view = reader.view
        /\ reader' = [pc |-> "stat", owner |-> reader.owner, event |-> reader.event,
                      diagnosed |-> reader.diagnosed, snapshot |-> reader.snapshot,
                      replayed |-> n, view |-> reader.view]
    BY <1>2, <2>1, <2>3 DEF ReaderTypes
  <2>5. reader.diagnosed <= n
    BY <2>1, <2>2 DEF Diagnosed
  <2>6. ReaderTypes'
    BY <2>1, <2>4 DEF ReaderTypes
  <2>7. Diagnosed'
    BY <2>1, <2>4 DEF Diagnosed
  <2>8. Replayed'
    BY <2>1, <2>4, <2>5 DEF Replayed
  <2>9. Reconciled'
    BY <2>1, <2>4 DEF Reconciled
  <2> QED
    BY <2>1, <2>6, <2>7, <2>8, <2>9 DEF ReadyInv
<1> QED
  BY <1>1, <1>2 DEF ReplayLog

LEMMA ComposeKeeps ==
    ASSUME ReadyInv, Compose
    PROVE  ReadyInv'
<1> DEFINE n == reader.replayed
           rec == Reconciliation(reader.snapshot, Seen(n), created, reader.owner)
<1>1. PICK supervisor \in Reports :
          /\ reader.pc = "stat"
          /\ reader' = [reader EXCEPT !.pc = "done", !.view = Readiness(supervisor, reader.event, rec)]
          /\ UNCHANGED <<logVars, store>>
  BY DEF Compose
<1>2. /\ LogInv /\ LogInv' /\ log' = log /\ store' = store /\ store \in Int
      /\ ReaderTypes /\ Diagnosed /\ Replayed /\ Reconciled
      /\ log \in Seq(Events) /\ Len(log) \in Nat /\ n \in Nat /\ n <= Len(log)
  BY <1>1 DEF logVars, ReadyInv, ReaderTypes, LogInv, Replayed
<1> DEFINE v == Readiness(supervisor, reader.event, rec)
<1>3. v = "ready" => reader.event = "healthy" /\ rec = "consistent"
  <2>1. rec \in {"unknown", "degraded", "consistent"}
    BY DEF Reconciliation
  <2>2. reader.event \in {"unknown", "healthy", "degraded"}
    BY <1>1, <1>2 DEF Diagnosed
  <2> HIDE DEF rec
  <2> QED
    BY <2>1, <2>2 DEF Readiness
<1>4. /\ Len(Seen(n)) = n /\ DOMAIN Seen(n) = 1 .. n /\ \A i \in 1 .. n : Seen(n)[i] = log[i]
  BY <1>2, SeenFacts
<1>5. ASSUME rec = "consistent", n > 0
      PROVE  /\ reader.snapshot = n /\ log[n].seq.whole = reader.snapshot /\ log[n].seq.part = 0
             /\ reader.owner # NoOwner => \A i \in 1 .. n : log[i].epoch = reader.owner
  <2>1. Seen(n) # <<>>
    BY <1>4, <1>5
  <2>2. /\ ~Raises(Seen(n), reader.owner) /\ reader.snapshot = Len(Seen(n))
        /\ Seen(n)[Len(Seen(n))].seq.whole = reader.snapshot /\ Seen(n)[Len(Seen(n))].seq.part = 0
    BY <1>5, <2>1 DEF Reconciliation
  <2>3. n \in 1 .. n
    BY <1>2, <1>5
  <2> QED
    BY <1>4, <2>2, <2>3 DEF Raises
<1> HIDE DEF v
<1>6. /\ reader'.pc = "done" /\ reader'.snapshot = reader.snapshot
      /\ reader'.owner = reader.owner /\ reader'.event = reader.event
      /\ reader'.diagnosed = reader.diagnosed /\ reader'.replayed = n
      /\ reader'.view = v
      /\ reader' = [pc |-> "done", owner |-> reader.owner, event |-> reader.event,
                    diagnosed |-> reader.diagnosed, snapshot |-> reader.snapshot,
                    replayed |-> n, view |-> v]
  BY <1>1, <1>2 DEF ReaderTypes, v
<1>7. ReaderTypes'
  BY <1>2, <1>6 DEF ReaderTypes
<1>8. Diagnosed'
  BY <1>1, <1>2, <1>6 DEF Diagnosed
<1>9. Replayed'
  BY <1>1, <1>2, <1>6 DEF Replayed
<1>10. Reconciled'
  <2>1. v = "ready" => n > 0
    BY <1>1, <1>2, <1>3 DEF Diagnosed, Replayed, ReaderTypes
  <2> HIDE DEF rec
  <2> QED
    BY <1>2, <1>3, <1>5, <1>6, <2>1 DEF Reconciled
<1> QED
  BY <1>2, <1>7, <1>8, <1>9, <1>10 DEF ReadyInv

(* The handoff store: at most one lane is about to install one handoff,    *)
(* there is no file under its name, and no file changes.                   *)
Ids == {HandoffId(epoch, reason) : epoch \in Epochs, reason \in Reasons}
Artifacts == Epochs \X Reasons \X Contents

HandoffInv ==
    /\ handoffs \in [Ids -> SUBSET Contents]
    /\ lane \in [Lanes -> SUBSET Artifacts]
    /\ handed \subseteq Artifacts
    /\ \A id \in Ids : \A c, d \in handoffs[id] : c = d
    /\ \A r \in Lanes : \A a, b \in lane[r] : a = b
    /\ \A r, s \in Lanes : lane[r] # {} /\ lane[s] # {} => r = s
    /\ \A r \in Lanes : \A a \in lane[r] : handoffs[HandoffId(a[1], a[2])] = {}
    /\ HandoffsAgree

LEMMA ArtifactFacts ==
    ASSUME NEW a \in Artifacts
    PROVE  /\ a[1] \in Epochs /\ a[2] \in Reasons /\ a[3] \in Contents
           /\ a = <<a[1], a[2], a[3]>> /\ HandoffId(a[1], a[2]) \in Ids
BY DEF Artifacts, Ids

LEMMA SaveHandoffKeeps ==
    ASSUME HandoffInv, NEW r \in Lanes, SaveHandoff(r)
    PROVE  HandoffInv'
<1>1. PICK epoch \in Epochs, reason \in Reasons, content \in Contents :
          /\ ~Locked /\ handoffs[HandoffId(epoch, reason)] = {}
          /\ lane' = [lane EXCEPT ![r] = {<<epoch, reason, content>>}]
          /\ UNCHANGED <<handoffs, handed>>
  BY DEF SaveHandoff
<1> DEFINE a == <<epoch, reason, content>>
<1>2. a \in Artifacts /\ a[1] = epoch /\ a[2] = reason
  BY DEF Artifacts
<1>3. \A s \in Lanes : lane[s] = {}
  BY <1>1 DEF Locked
<1>4. lane'[r] = {a} /\ \A s \in Lanes : s # r => lane'[s] = {}
  BY <1>1, <1>3 DEF HandoffInv
<1> HIDE DEF a
<1>5. lane' \in [Lanes -> SUBSET Artifacts]
  BY <1>1, <1>2 DEF HandoffInv, a
<1> QED
  BY <1>1, <1>2, <1>4, <1>5 DEF HandoffInv, HandoffsAgree

LEMMA SaveAgainKeeps ==
    ASSUME HandoffInv, SaveAgain
    PROVE  HandoffInv'
<1>1. PICK epoch \in Epochs, reason \in Reasons, content \in Contents :
          /\ handoffs[HandoffId(epoch, reason)] = {content}
          /\ handed' = handed \cup {<<epoch, reason, content>>}
          /\ UNCHANGED <<handoffs, lane>>
  BY DEF SaveAgain
<1> DEFINE a == <<epoch, reason, content>>
<1>2. a \in Artifacts /\ a[1] = epoch /\ a[2] = reason /\ a[3] = content
  BY DEF Artifacts
<1>3. handed' = handed \cup {a}
  BY <1>1
<1> HIDE DEF a
<1> QED
  BY <1>1, <1>2, <1>3 DEF HandoffInv, HandoffsAgree

LEMMA InstallHandoffKeeps ==
    ASSUME HandoffInv, NEW r \in Lanes, InstallHandoff(r)
    PROVE  HandoffInv'
<1>1. PICK a \in lane[r], returned \in BOOLEAN :
          /\ handoffs' = [handoffs EXCEPT ![HandoffId(a[1], a[2])] = {a[3]}]
          /\ handed' = IF returned THEN handed \cup {a} ELSE handed
          /\ lane' = [lane EXCEPT ![r] = {}]
  BY DEF InstallHandoff
<1> DEFINE id == HandoffId(a[1], a[2])
<1>2. a \in Artifacts /\ a[3] \in Contents /\ id \in Ids
  BY ArtifactFacts DEF HandoffInv
<1>3. handoffs[id] = {}
  BY DEF HandoffInv
<1>4. \A s \in Lanes : lane'[s] = {}
  BY <1>1 DEF HandoffInv
<1> HIDE DEF id
<1>5. handoffs'[id] = {a[3]} /\ \A i \in Ids : i # id => handoffs'[i] = handoffs[i]
  BY <1>1, <1>2 DEF HandoffInv, id
<1>6. handoffs' \in [Ids -> SUBSET Contents] /\ lane' \in [Lanes -> SUBSET Artifacts]
  BY <1>1, <1>2 DEF HandoffInv, id
<1>7. \A h \in handed' : h \in handed \/ h = a
  BY <1>1
<1>8. HandoffsAgree'
  <2> SUFFICES ASSUME NEW h \in handed' PROVE handoffs'[HandoffId(h[1], h[2])] = {h[3]}
    BY DEF HandoffsAgree
  <2>1. CASE h = a
    BY <1>5, <2>1 DEF id
  <2>2. CASE h \in handed
    <3>1. HandoffId(h[1], h[2]) \in Ids /\ handoffs[HandoffId(h[1], h[2])] = {h[3]}
      BY <2>2, ArtifactFacts DEF HandoffInv, HandoffsAgree
    <3>2. HandoffId(h[1], h[2]) # id
      BY <1>3, <3>1
    <3> QED
      BY <1>5, <3>1, <3>2
  <2> QED
    BY <1>7, <2>1, <2>2
<1>9. \A i \in Ids : \A c, d \in handoffs'[i] : c = d
  BY <1>5 DEF HandoffInv
<1>10. handed' \subseteq Artifacts
  BY <1>2, <1>7 DEF HandoffInv
<1> QED
  BY <1>4, <1>6, <1>8, <1>9, <1>10 DEF HandoffInv

LEMMA LoadHandoffKeeps ==
    ASSUME HandoffInv, LoadHandoff
    PROVE  HandoffInv'
<1>1. PICK id \in DOMAIN handoffs :
          /\ handed' = handed \cup {<<id[1], id[2], content>> : content \in handoffs[id]}
          /\ UNCHANGED <<handoffs, lane>>
  BY DEF LoadHandoff
<1>2. PICK epoch \in Epochs, reason \in Reasons : id = HandoffId(epoch, reason)
  BY <1>1 DEF HandoffInv, Ids
<1>3. id[1] = epoch /\ id[2] = reason /\ id \in Ids
  BY <1>2 DEF HandoffId, Ids
<1>4. ASSUME NEW h \in handed' PROVE h \in Artifacts /\ handoffs[HandoffId(h[1], h[2])] = {h[3]}
  <2>1. CASE h \in handed
    BY <2>1 DEF HandoffInv, HandoffsAgree
  <2>2. CASE h \notin handed
    <3>1. PICK content \in handoffs[id] : h = <<epoch, reason, content>>
      BY <1>1, <1>3, <2>2
    <3>2. content \in Contents /\ handoffs[id] = {content}
      BY <1>3 DEF HandoffInv
    <3>3. h[1] = epoch /\ h[2] = reason /\ h[3] = content /\ h \in Artifacts
      BY <3>1, <3>2 DEF Artifacts
    <3> QED
      BY <1>2, <3>2, <3>3
  <2> QED
    BY <2>1, <2>2
<1> QED
  BY <1>1, <1>4 DEF HandoffInv, HandoffsAgree

LEMMA AbortHandoffKeeps ==
    ASSUME HandoffInv, NEW r \in Lanes, AbortHandoff(r)
    PROVE  HandoffInv'
BY DEF AbortHandoff, HandoffInv, HandoffsAgree

-----------------------------------------------------------------------------
SupInv == ReadyInv /\ HandoffInv

LEMMA SupInvariant == SupSpec => []SupInv
<1>1. SupInit => SupInv
  <2> SUFFICES ASSUME SupInit PROVE SupInv
    OBVIOUS
  <2>1. log = <<>> /\ created = FALSE /\ torn = FALSE /\ store = -1 /\ reader = Nobody
    BY DEF SupInit, LogInit
  <2>2. LogInv
    <3>1. log \in Seq(Events) /\ Len(log) = 0
      BY <2>1
    <3>2. \A i \in 1 .. Len(log) : FALSE
      BY <3>1
    <3> QED
      BY <2>1, <3>1, <3>2 DEF LogInv
  <2>3. ReaderTypes
    BY <2>1 DEF ReaderTypes, Nobody
  <2>4. Diagnosed /\ Replayed /\ Reconciled
    BY <2>1 DEF Diagnosed, Replayed, Reconciled, Nobody
  <2>5. HandoffInv
    BY DEF SupInit, HandoffInv, Ids, HandoffsAgree
  <2> QED
    BY <2>2, <2>3, <2>4, <2>5 DEF SupInv, ReadyInv
<1>2. SupInv /\ [SupNext]_supVars => SupInv'
  <2> SUFFICES ASSUME SupInv, [SupNext]_supVars PROVE SupInv'
    OBVIOUS
  <2>0. ReadyInv /\ HandoffInv /\ LogInv /\ Len(log) \in Nat /\ store \in Int
    BY DEF SupInv, ReadyInv, LogInv, ReaderTypes
  <2>1. ASSUME UNCHANGED <<handoffs, lane, handed>> PROVE HandoffInv'
    BY <2>0, <2>1 DEF HandoffInv, HandoffsAgree
  <2>2. ASSUME UNCHANGED <<logVars, store, reader>> PROVE ReadyInv'
    BY <2>0, <2>2 DEF logVars, ReadyInv, LogInv, ReaderTypes, Diagnosed, Replayed, Reconciled
  <2>3. CASE UNCHANGED supVars
    BY <2>1, <2>2, <2>3 DEF supVars, SupInv
  <2>4. CASE LogNext /\ UNCHANGED <<store, reader, handoffs, lane, handed>>
    <3>1. /\ LogInv' /\ Len(log) <= Len(log') /\ Len(log') \in Nat
          /\ \A i \in 1 .. Len(log) : log'[i] = log[i]
      BY <2>0, <2>4, LogNextInv
    <3>2. store' = store /\ store' \in Int /\ store <= store'
      BY <2>0, <2>4
    <3> QED
      BY <2>0, <2>1, <2>4, <3>1, <3>2, GrowthKeepsReader DEF SupInv
  <2>5. CASE StoreWrites
    <3>1. store' \in Int /\ store <= store' /\ UNCHANGED <<logVars, reader, handoffs, lane, handed>>
      BY <2>0, <2>5 DEF StoreWrites
    <3>2. LogInv' /\ log' = log
      BY <2>0, <3>1 DEF logVars, LogInv
    <3> QED
      BY <2>0, <2>1, <3>1, <3>2, GrowthKeepsReader DEF SupInv
  <2>6. CASE Diagnose \/ LoadStore \/ ReplayLog \/ Compose \/ Show
    <3>1. ReadyInv'
      BY <2>0, <2>6, DiagnoseKeeps, LoadStoreKeeps, ReplayLogKeeps, ComposeKeeps, NobodyKeeps DEF Show
    <3>2. UNCHANGED <<handoffs, lane, handed>>
      BY <2>6 DEF Diagnose, LoadStore, ReplayLog, Compose, Show
    <3> QED
      BY <2>1, <3>1, <3>2 DEF SupInv
  <2>7. ASSUME NEW r \in Lanes, SaveHandoff(r) \/ InstallHandoff(r) \/ AbortHandoff(r) PROVE SupInv'
    <3>1. HandoffInv'
      BY <2>0, <2>7, SaveHandoffKeeps, InstallHandoffKeeps, AbortHandoffKeeps
    <3>2. UNCHANGED <<logVars, store, reader>>
      BY <2>7 DEF SaveHandoff, InstallHandoff, AbortHandoff
    <3> QED
      BY <2>2, <3>1, <3>2 DEF SupInv
  <2>8. CASE SaveAgain \/ LoadHandoff
    <3>1. HandoffInv'
      BY <2>0, <2>8, SaveAgainKeeps, LoadHandoffKeeps
    <3>2. UNCHANGED <<logVars, store, reader>>
      BY <2>8 DEF SaveAgain, LoadHandoff
    <3> QED
      BY <2>2, <3>1, <3>2 DEF SupInv
  <2> QED
    BY <2>3, <2>4, <2>5, <2>6, <2>7, <2>8 DEF SupNext
<1> QED
  BY <1>1, <1>2, PTL DEF SupSpec

(* Numbers that go up and end in n, n of them: of the integers 0 .. n one  *)
(* is missing, and one more for every fraction.                            *)
Rising(n, w, p) ==
    /\ n \in Nat \ {0} /\ w \in [1 .. n -> Nat] /\ p \in [1 .. n -> Nat]
    /\ \A i, j \in 1 .. n : i < j => w[i] < w[j] \/ (w[i] = w[j] /\ p[i] < p[j])
    /\ w[n] = n /\ p[n] = 0
Fractions(n, p) == {i \in 1 .. n : p[i] # 0}
Missing(n, w, p) == 0 .. n \ {w[i] : i \in 1 .. n \ Fractions(n, p)}

LEMMA SplitCount ==
    ASSUME NEW I, IsFiniteSet(I), NEW F \in SUBSET I
    PROVE  /\ IsFiniteSet(I \ F) /\ Cardinality(I \ F) = Cardinality(I) - Cardinality(F)
           /\ Cardinality(F) \in Nat
<1>1. I \cap F = F
  OBVIOUS
<1>2. IsFiniteSet(F)
  BY FS_Subset
<1> QED
  BY <1>1, <1>2, FS_Difference, FS_CardinalityType

LEMMA OneMissing ==
    ASSUME NEW n, NEW w, NEW p, Rising(n, w, p)
    PROVE  Cardinality(Missing(n, w, p)) = 1 + Cardinality(Fractions(n, p))
<1>0. /\ n \in Nat \ {0} /\ w \in [1 .. n -> Nat] /\ p \in [1 .. n -> Nat]
      /\ \A i, j \in 1 .. n : i < j => w[i] < w[j] \/ (w[i] = w[j] /\ p[i] < p[j])
      /\ w[n] = n /\ p[n] = 0
  BY DEF Rising
<1> DEFINE F == {i \in 1 .. n : p[i] # 0}
           W == 1 .. n \ F
           S == {w[i] : i \in W}
           g == [i \in W |-> w[i]]
<1>1. n \in 1 .. n /\ \A i \in 1 .. n : w[i] \in Nat /\ w[i] <= n
  <2>1. n \in 1 .. n /\ \A i \in 1 .. n : w[i] \in Nat /\ (i = n \/ i < n)
    BY <1>0
  <2> QED
    BY <1>0, <2>1
<1>2. S \subseteq 0 .. n
  BY <1>0, <1>1
<1>3. g \in Bijection(W, S)
  <2>1. g \in [W -> S]
    OBVIOUS
  <2>2. \A i, j \in W : g[i] = g[j] => i = j
    <3> SUFFICES ASSUME NEW i \in W, NEW j \in W, w[i] = w[j], i # j PROVE FALSE
      OBVIOUS
    <3>1. i \in 1 .. n /\ j \in 1 .. n /\ p[i] = 0 /\ p[j] = 0 /\ (i < j \/ j < i)
      BY <1>0
    <3>2. w[i] < w[j] \/ w[j] < w[i]
      BY <1>0, <3>1
    <3> QED
      BY <1>1, <3>1, <3>2
  <2>3. \A t \in S : \E i \in W : g[i] = t
    OBVIOUS
  <2> QED
    BY <2>1, <2>2, <2>3 DEF Bijection, Injection, IsInjective, Surjection
<1>4. IsFiniteSet(1 .. n) /\ Cardinality(1 .. n) = n
  BY <1>0, FS_Interval
<1>5. F \in SUBSET (1 .. n)
  OBVIOUS
<1> HIDE DEF F, S, g
<1>6. IsFiniteSet(W) /\ Cardinality(W) = n - Cardinality(F) /\ Cardinality(F) \in Nat
  BY <1>4, <1>5, SplitCount
<1> HIDE DEF W
<1>7. Cardinality(S) = n - Cardinality(F)
  <2>1. ExistsBijection(W, S)
    BY <1>3 DEF ExistsBijection
  <2> QED
    BY <1>6, <2>1, FS_Bijection
<1>8. IsFiniteSet(0 .. n) /\ Cardinality(0 .. n) = n + 1
  BY <1>0, FS_Interval
<1>9. Cardinality(0 .. n \ S) = Cardinality(0 .. n) - Cardinality(S)
  BY <1>2, <1>8, SplitCount
<1>10. Cardinality(0 .. n \ S) = (n + 1) - (n - Cardinality(F))
  BY <1>7, <1>8, <1>9
<1>11. Cardinality(0 .. n \ S) = 1 + Cardinality(F)
  BY <1>0, <1>6, <1>10
<1> QED
  BY <1>11 DEF S, W, F, Missing, Fractions

(* A diagnosis of healthy means a complete log of one owner.               *)
THEOREM HealthyLog == SupSpec => []HealthyIsComplete
<1>1. SupInv => HealthyIsComplete
  BY HealthyMeansComplete DEF SupInv, ReadyInv
<1> QED
  BY <1>1, SupInvariant, PTL

(* "ready", put together from reads at four moments while recorders go on, *)
(* means that what was read agrees; what a recorder appended in between    *)
(* can leave out one integer, and one more for every fraction.             *)
THEOREM ReadyJustified == SupSpec => []ReadyIsJustified
<1>1. SupInv => ReadyIsJustified
  <2> SUFFICES ASSUME SupInv, reader.view = "ready" PROVE ReadyIsJustified
    BY DEF ReadyIsJustified
  <2> DEFINE n == reader.snapshot
             d == reader.diagnosed
  <2>1. LogInv /\ ReaderTypes /\ Diagnosed /\ Replayed /\ Reconciled
    BY DEF SupInv, ReadyInv
  <2>2. /\ reader.pc = "done" /\ reader.event = "healthy" /\ n = reader.replayed
        /\ log[n].seq.whole = n /\ log[n].seq.part = 0
        /\ reader.owner # NoOwner => \A i \in 1 .. n : log[i].epoch = reader.owner
    BY <2>1 DEF Reconciled
  <2>3. n \in Nat /\ d \in Nat /\ Len(log) \in Nat /\ log \in Seq(Events)
    BY <2>1, <2>2 DEF ReaderTypes, LogInv
  <2>4. /\ d > 0 /\ d <= n /\ n <= Len(log) /\ n <= store
        /\ Counted(log, d)
    BY <2>1, <2>2, <2>3 DEF Diagnosed, Replayed
  <2>5. n > 0 /\ n \in 0 .. Len(log) /\ d \in 0 .. Len(log) /\ 1 \in 1 .. d
    BY <2>3, <2>4
  <2>6. DOMAIN Seen(n) = 1 .. n /\ \A i \in 1 .. n : Seen(n)[i] = log[i]
    BY <2>3, <2>5, SeenFacts
  <2>7. DOMAIN Seen(d) = 1 .. d /\ \A i \in 1 .. d : Seen(d)[i] = log[i]
    BY <2>3, <2>5, SeenFacts
  <2>8. Contiguous(Seen(d))
    BY <2>4, <2>5, <2>7 DEF Contiguous, Counted
  <2> DEFINE w == [i \in 1 .. n |-> log[i].seq.whole]
             p == [i \in 1 .. n |-> log[i].seq.part]
             F == {i \in DOMAIN Seen(n) : Seen(n)[i].seq.part # 0}
             there == {Seen(n)[i].seq.whole : i \in DOMAIN Seen(n) \ F}
  <2>a. \A i \in 1 .. n : i \in 1 .. Len(log) /\ log[i].seq.whole \in Nat /\ log[i].seq.part \in Nat
    BY <2>3, <2>4, EventFacts
  <2>b. F = {i \in 1 .. n : p[i] # 0} /\ there = {w[i] : i \in 1 .. n \ F}
    BY <2>6
  <2>9. Cardinality(0 .. n \ there) = 1 + Cardinality(F)
    <3>1. w \in [1 .. n -> Nat] /\ p \in [1 .. n -> Nat]
      BY <2>a
    <3>2. \A i, j \in 1 .. n : i < j => w[i] < w[j] \/ (w[i] = w[j] /\ p[i] < p[j])
      BY <2>1, <2>a DEF LogInv, Less
    <3>3. w[n] = n /\ p[n] = 0 /\ n \in Nat \ {0}
      BY <2>2, <2>3, <2>5
    <3> HIDE DEF w, p, n, F, there
    <3>4. Rising(n, w, p)
      BY <3>1, <3>2, <3>3 DEF Rising
    <3>5. F = Fractions(n, p) /\ 0 .. n \ there = Missing(n, w, p)
      BY <2>b DEF Fractions, Missing
    <3>6. Cardinality(Missing(n, w, p)) = 1 + Cardinality(Fractions(n, p))
      BY <3>4, OneMissing
    <3> QED
      BY <3>5, <3>6
  <2>c. n \in there
    BY <2>2, <2>3, <2>5, <2>6
  <2>d. \A i \in F : i > d
    <3> SUFFICES ASSUME NEW i \in F, ~(i > d) PROVE FALSE
      OBVIOUS
    <3>1. i \in 1 .. d /\ log[i].seq.part # 0
      BY <2>3, <2>6
    <3> QED
      BY <2>4, <3>1 DEF Counted
  <2>10. reader.owner # NoOwner => \A i \in DOMAIN Seen(n) : Seen(n)[i].epoch = reader.owner
    BY <2>2, <2>6
  <2> QED
    BY <2>2, <2>3, <2>4, <2>5, <2>8, <2>9, <2>10, <2>c, <2>d DEF ReadyIsJustified
<1> QED
  BY <1>1, SupInvariant, PTL

(* Everybody who is given a handoff is given the same one, and it stays.   *)
THEOREM HandoffsStay == SupSpec => []HandoffsAgree
<1>1. SupInv => HandoffsAgree
  BY DEF SupInv, HandoffInv
<1> QED
  BY <1>1, SupInvariant, PTL
=============================================================================
