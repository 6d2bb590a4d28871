--------------------------- MODULE TaskLogProofs ---------------------------
(***************************************************************************)
(* The safety properties of TaskLog, for any number of jobs and requests    *)
(* and whatever faults occur.                                               *)
(***************************************************************************)
EXTENDS TaskLog, TLAPS

Inv == TypeOK /\ (\A i \in Tasks : Progress(i)) /\ TruthfulSuccess

LEMMA InitInv == Init => Inv
  BY DEF Init, Inv, TypeOK, Progress, TruthfulSuccess, At

(* A write and a move of one thread leave the other tasks as they are.      *)
LEMMA OneTask ==
    ASSUME Inv, NEW i \in Tasks,
           NEW s \in {"absent", "queued", "running"} \cup Terminal,
           NEW p \in {"none", "start", "work", "store", "event", "fail", "done", "dead"},
           NEW e \in {"none", "returned", "raised"},
           row' = [row EXCEPT ![i] = s], pc' = [pc EXCEPT ![i] = p],
           effect' = [effect EXCEPT ![i] = e], killing' \subseteq Tasks,
           p = "none" => s = "absent",
           p = "start" => s = "queued",
           p = "work" => s \in {"running", "failed"},
           p \in {"store", "event"} => e = "returned",
           s = "success" => e = "returned"
    PROVE  Inv'
<1>1. TypeOK'
  BY DEF Inv, TypeOK
<1>2. ASSUME NEW j \in Tasks
      PROVE  Progress(j)' /\ (row'[j] = "success" => effect'[j] = "returned")
  <2>1. CASE j = i
    BY <2>1 DEF Inv, TypeOK, Progress, At
  <2>2. CASE j # i
    BY <2>2 DEF Inv, TypeOK, Progress, TruthfulSuccess, At
  <2> QED
    BY <2>1, <2>2
<1> QED
  BY <1>1, <1>2 DEF Inv, TruthfulSuccess

(* A failed transaction changes nothing but the thread's place.             *)
LEMMA DbErrorStep ==
    ASSUME Inv, NEW i \in Tasks, DbError(i, "fail") \/ DbError(i, "dead"),
           UNCHANGED <<effect, killing>>
    PROVE  Inv'
<1>1. PICK p \in {"fail", "dead"} : pc' = [pc EXCEPT ![i] = p]
  BY DEF DbError, Goto
<1>2. row' = [row EXCEPT ![i] = row[i]] /\ effect' = [effect EXCEPT ![i] = effect[i]]
  BY DEF DbError, Inv, TypeOK
<1>3. /\ row[i] \in {"absent", "queued", "running"} \cup Terminal
      /\ effect[i] \in {"none", "returned", "raised"}
      /\ row[i] = "success" => effect[i] = "returned"
      /\ killing' \subseteq Tasks
  BY DEF Inv, TypeOK, TruthfulSuccess
<1> QED
  BY <1>1, <1>2, <1>3, OneTask

LEMMA InvStep ==
    ASSUME Inv, [Next]_vars
    PROVE  Inv'
<1>1. ASSUME NEW i \in Tasks, Thread(i) PROVE Inv'
  <2>0. /\ row[i] \in {"absent", "queued", "running"} \cup Terminal
        /\ effect[i] \in {"none", "returned", "raised"}
        /\ effect = [effect EXCEPT ![i] = effect[i]]
        /\ row = [row EXCEPT ![i] = row[i]]
        /\ killing \subseteq Tasks
        /\ row[i] = "success" => effect[i] = "returned"
        /\ Progress(i)
    BY DEF Inv, TypeOK, TruthfulSuccess
  <2>1. CASE Run(i)
    <3>1. CASE Write(i, "running") /\ Goto(i, "work")
      BY <2>0, <2>1, <3>1, OneTask DEF Run, Write, Goto
    <3> QED
      BY <2>1, <3>1, DbErrorStep DEF Run
  <2>2. CASE Work(i)
    <3>1. row[i] \in {"running", "failed"}
      BY <2>0, <2>2 DEF Work, At, Progress
    <3>2. PICK e \in {"returned", "raised"}, p \in {"store", "event", "done", "fail"} :
             /\ effect' = [effect EXCEPT ![i] = e]
             /\ pc' = [pc EXCEPT ![i] = p]
             /\ p \in {"store", "event"} => e = "returned"
      BY <2>2 DEF Work, AfterWork, Goto
    <3>3. row' = [row EXCEPT ![i] = row[i]] /\ killing' = killing
      BY <2>0, <2>2 DEF Work
    <3> QED
      BY <2>0, <3>1, <3>2, <3>3, OneTask DEF Terminal
  <2>3. CASE Store(i)
    <3>1. CASE Write(i, "success") /\ Goto(i, IF i \in LogFirst THEN "done" ELSE "event")
      <4>1. PICK p \in {"done", "event"} : pc' = [pc EXCEPT ![i] = p]
        BY <3>1 DEF Goto
      <4> QED
        BY <2>0, <2>3, <3>1, <4>1, OneTask DEF Store, Write, Terminal, Progress, At
    <3> QED
      BY <2>3, <3>1, DbErrorStep DEF Store
  <2>4. CASE Event(i)
    <3>1. CASE Goto(i, IF i \in LogFirst THEN "store" ELSE "done") /\ UNCHANGED row
      <4>1. PICK p \in {"done", "store"} : pc' = [pc EXCEPT ![i] = p]
        BY <3>1 DEF Goto
      <4> QED
        BY <2>0, <2>4, <3>1, <4>1, OneTask DEF Event, Progress, At
    <3> QED
      BY <2>4, <3>1, DbErrorStep DEF Event
  <2>5. CASE Fail(i)
    <3>1. CASE Write(i, "failed") /\ Goto(i, "done")
      BY <2>0, <2>5, <3>1, OneTask DEF Fail, Write, Goto, Terminal
    <3> QED
      BY <2>5, <3>1, DbErrorStep DEF Fail
  <2> QED
    BY <1>1, <2>1, <2>2, <2>3, <2>4, <2>5 DEF Thread
<1>2. ASSUME NEW i \in Tasks, Enqueue(i) \/ StartTask(i) PROVE Inv'
  <2>1. /\ effect[i] \in {"none", "returned", "raised"}
        /\ effect = [effect EXCEPT ![i] = effect[i]]
        /\ killing \subseteq Tasks
    BY DEF Inv, TypeOK
  <2> QED
    BY <1>2, <2>1, OneTask DEF Enqueue, StartTask, Write, Goto
<1>3. ASSUME NEW i \in Tasks, KillCheck(i) PROVE Inv'
  BY <1>3 DEF KillCheck, Inv, TypeOK, Progress, TruthfulSuccess, At
<1>4. ASSUME NEW i \in Tasks, KillUpdate(i) PROVE Inv'
  <2>1. CASE row[i] = "running"
    <3>1. /\ pc' = [pc EXCEPT ![i] = pc[i]] /\ effect' = [effect EXCEPT ![i] = effect[i]]
          /\ row' = [row EXCEPT ![i] = "failed"] /\ killing' \subseteq Tasks
      BY <1>4, <2>1 DEF KillUpdate, Write, Inv, TypeOK
    <3> QED
      BY <2>1, <3>1, OneTask DEF Inv, TypeOK, Progress, At, Terminal
  <2>2. CASE row[i] # "running"
    BY <1>4, <2>2 DEF KillUpdate, Inv, TypeOK, Progress, TruthfulSuccess, At
  <2> QED
    BY <2>1, <2>2
<1>5. CASE Crash
  BY <1>5 DEF Crash, Inv, TypeOK, Progress, TruthfulSuccess, At
<1>6. CASE UNCHANGED vars
  BY <1>6 DEF vars, Inv, TypeOK, Progress, TruthfulSuccess, At
<1> QED
  BY <1>1, <1>2, <1>3, <1>4, <1>5, <1>6 DEF Next

LEMMA InvHolds == Spec => []Inv
<1>1. Inv /\ [Next]_vars => Inv'
  BY InvStep
<1> QED
  BY InitInv, <1>1, PTL DEF Spec

(* Rows, threads, outcomes and kills keep the states the code gives them.   *)
THEOREM TypeCorrect == Spec => []TypeOK
<1>1. Inv => TypeOK
  BY DEF Inv
<1> QED
  BY <1>1, InvHolds, PTL

(* A success in the table is the success of the operation.                  *)
THEOREM TruthfulSuccessHolds == Spec => []TruthfulSuccess
<1>1. Inv => TruthfulSuccess
  BY DEF Inv
<1> QED
  BY <1>1, InvHolds, PTL

(* No row with a result goes back to queued or running.                     *)
THEOREM NoResurrectionHolds == Spec => NoResurrection
<1>1. ASSUME Inv, [Next]_vars, NEW i \in Tasks, row[i] \in Terminal
      PROVE  row'[i] \in Terminal
  <2>1. /\ ~At(i, "none") /\ ~At(i, "start") /\ row \in [Tasks -> {"absent", "queued", "running"} \cup Terminal]
    BY <1>1 DEF Inv, TypeOK, Progress, Terminal
  <2>2. ASSUME NEW j \in Tasks, Thread(j) PROVE row'[i] \in Terminal
    BY <1>1, <2>1, <2>2
       DEF Thread, Run, Work, Store, Event, Fail, DbError, Write, Terminal
  <2>3. ASSUME NEW j \in Tasks,
               Enqueue(j) \/ StartTask(j) \/ KillCheck(j) \/ KillUpdate(j)
        PROVE  row'[i] \in Terminal
    BY <1>1, <2>1, <2>3 DEF Enqueue, StartTask, KillCheck, KillUpdate, Write, Terminal
  <2>4. CASE Crash \/ UNCHANGED vars
    BY <1>1, <2>4 DEF Crash, vars
  <2> QED
    BY <1>1, <2>2, <2>3, <2>4 DEF Next
<1>2. Inv /\ [Next]_vars =>
         [\A i \in Tasks : row[i] \in Terminal => row'[i] \in Terminal]_vars
  BY <1>1
<1> QED
  BY <1>2, InvHolds, PTL DEF Spec, NoResurrection

(* A kill never turns a stored success into a failure.                      *)
THEOREM OnlyOwnerRevokesHolds == Spec => OnlyOwnerRevokes
<1>1. ASSUME Inv, [Next]_vars, NEW i \in Tasks, row[i] = "success", row'[i] # "success"
      PROVE  pc[i] # pc'[i]
  <2>1. ~At(i, "none") /\ ~At(i, "start")
    BY <1>1 DEF Inv, Progress
  <2>2. ASSUME NEW j \in Tasks, Thread(j) PROVE pc[i] # pc'[i]
    <3>1. j = i
      BY <1>1, <2>2 DEF Thread, Run, Work, Store, Event, Fail, DbError, Write, Inv, TypeOK
    <3>2. Fail(i)
      BY <1>1, <2>1, <2>2, <3>1
         DEF Thread, Run, Work, Store, Event, DbError, Write, Inv, TypeOK
    <3> QED
      BY <1>1, <3>2 DEF Fail, DbError, At, Goto, Inv, TypeOK
  <2>3. \A j \in Tasks : ~Enqueue(j) /\ ~StartTask(j) /\ ~KillCheck(j) /\ ~KillUpdate(j)
    BY <1>1, <2>1 DEF Enqueue, StartTask, KillCheck, KillUpdate, Write, Inv, TypeOK
  <2>4. ~Crash /\ ~UNCHANGED vars
    BY <1>1 DEF Crash, vars
  <2> QED
    BY <1>1, <2>2, <2>3, <2>4 DEF Next
<1>2. Inv /\ [Next]_vars =>
         [\A i \in Tasks : row[i] = "success" /\ row'[i] # "success" => pc[i] # pc'[i]]_vars
  BY <1>1
<1> QED
  BY <1>2, InvHolds, PTL DEF Spec, OnlyOwnerRevokes

=============================================================================
