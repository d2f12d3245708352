--------------------------- MODULE DataJobsProofs ---------------------------
(***************************************************************************)
(* Proofs about DataJobs: the history agrees with the disk, log streams    *)
(* are in order and complete, and a job's life is that of JobLife, for any *)
(* number of jobs, streams and restarts, any limits of history and log and *)
(* any saves that fail.                                                    *)
(***************************************************************************)
EXTENDS DataJobs, FiniteSetTheorems, WellFoundedInduction, TLAPS

JobType == [pc : Pcs, status : TERMINAL \cup {"queued", "running"},
            cancel : BOOLEAN, lines : Nat, final : Nat]
FileType == [status : TERMINAL \cup {"none", "queued", "running"}, lines : 0..KeepLines]
CancelType == [at : SUBSET Jobs, asked : 0..MaxCancels]
StreamType ==
  [pc : {"none", "open", "ended", "timeout"}, job : Jobs, idx : 0..MaxLines, waited : Nat, sent : Seq(Nat)]

\* The types a proof needs beyond TypeOK.
Shapes == order \in Seq(Jobs) /\ stream \in [Streams -> StreamType]

\* What the object, the thread and the file of a job say of each other.
JobOK(j) ==
  /\ j > n => job[j].pc = "none" /\ disk[j].status = "none"
  /\ j \in ToSet(order) =>
       /\ job[j].pc # "none"
       /\ job[j].pc # "saving" /\ j \notin unsaved => disk[j].status # "none"
       /\ job[j].status = "interrupted" => disk[j].status # "none"
  /\ job[j].pc = "saving" => disk[j].status = "none"
  /\ job[j].pc \in {"raised", "ending", "ended"} <=> job[j].status \in TERMINAL
  /\ job[j].status \in TERMINAL => job[j].final <= job[j].lines
  /\ Alive(j) => disk[j].status \notin TERMINAL /\ job[j].status # "interrupted"
  /\ job[j].pc = "ended" =>
       IF j \in unsaved THEN disk[j].status \notin TERMINAL
                        ELSE disk[j].status \in {job[j].status, "none"}

\* Jobs with a thread came after what was loaded; those that were evicted before
\* all that is kept, and the registry is full since.
OrderOK ==
  /\ \A a, b \in 1..Len(order) : a < b /\ Alive(order[a]) => order[a] < order[b]
  /\ \A j \in Jobs : Alive(j) /\ j \notin ToSet(order) =>
       Len(order) = MaxHistory /\ \A k \in ToSet(order) : j < k

\* The lines that an object with k lines logged has dropped.
Dropped(k) == k - Held(k)

\* What a stream has sent, and where it reads on.
Sound(st) ==
  LET k == job[st.job].lines IN
  /\ \A i, l \in 1..Len(st.sent) : i < l => st.sent[i] < st.sent[l]
  /\ st.pc = "none" => st.idx = 0 /\ st.sent = <<>>
  /\ st.pc # "none" => st.job <= n
  /\ st.pc = "open" => /\ st.idx <= Held(k)
                       /\ \A i \in 1..Len(st.sent) : st.sent[i] <= Dropped(k) + st.idx
                       /\ k <= MaxLines => 1..st.idx \subseteq ToSet(st.sent)
  /\ st.pc = "ended" => /\ job[st.job].status \in TERMINAL
                        /\ k <= MaxLines => 1..job[st.job].final \subseteq ToSet(st.sent)
StreamOK(s) == Sound(stream[s])

\* The inductive invariant.
Inv == /\ TypeOK /\ Shapes /\ OrderOK
       /\ \A j \in Jobs : JobOK(j)
       /\ \A s \in Streams : StreamOK(s)

-----------------------------------------------------------------------------
(* Lemmas about the data.                                                  *)

\* The smaller of two numbers.
LEMMA MinOfTwo ==
  ASSUME NEW a \in Int, NEW b \in Int
  PROVE  Min({a, b}) = IF a <= b THEN a ELSE b
<1>1. \E x \in {a, b} : \A y \in {a, b} : x <= y
  OBVIOUS
<1>2. Min({a, b}) \in {a, b} /\ \A y \in {a, b} : Min({a, b}) <= y
  BY <1>1 DEF Min
<1> QED
  BY <1>2

\* The larger of two numbers.
LEMMA MaxOfTwo ==
  ASSUME NEW a \in Int, NEW b \in Int
  PROVE  Max({a, b}) = IF a >= b THEN a ELSE b
<1>1. \E x \in {a, b} : \A y \in {a, b} : x >= y
  OBVIOUS
<1>2. Max({a, b}) \in {a, b} /\ \A y \in {a, b} : Max({a, b}) >= y
  BY <1>1 DEF Max
<1> QED
  BY <1>2

\* A bounded set of numbers has a largest one.
LEMMA MaxExists ==
  ASSUME NEW m \in Nat, NEW S \in SUBSET (0..m), S # {}
  PROVE  Max(S) \in S /\ \A x \in S : x <= Max(S)
<1> DEFINE Bounds == {k \in Nat : \A x \in S : x <= k}
<1>1. Bounds \subseteq Nat /\ m \in Bounds
  OBVIOUS
<1>2. PICK k \in Bounds : \A y \in Bounds : ~ (<<y, k>> \in OpToRel(<, Nat))
  BY <1>1, NatLessThanWellFounded, WFMin
<1>3. \A y \in Bounds : ~ (y < k)
  BY <1>1, <1>2 DEF OpToRel
<1>4. k \in Nat /\ \A x \in S : x \in Nat /\ x <= k
  OBVIOUS
<1>5. k \in S
  <2>1. CASE k = 0
    <3>1. PICK x \in S : TRUE
      OBVIOUS
    <3>2. x \in Nat /\ x <= 0
      BY <1>4, <2>1
    <3>3. x = 0
      BY <3>2
    <3> QED
      BY <2>1, <3>3
  <2>2. CASE k # 0
    <3>1. k - 1 \in Nat /\ k - 1 < k
      BY <1>4, <2>2
    <3>2. PICK x \in S : ~ (x <= k - 1)
      BY <1>3, <3>1
    <3>3. x \in Nat /\ x <= k /\ ~ (x <= k - 1)
      BY <1>4, <3>2
    <3>4. x = k
      BY <1>4, <3>3
    <3> QED
      BY <3>4
  <2> QED
    BY <2>1, <2>2
<1>6. \E x \in S : \A y \in S : x >= y
  BY <1>4, <1>5
<1>7. Max(S) \in S /\ \A y \in S : Max(S) >= y
  BY <1>6 DEF Max
<1> QED
  BY <1>4, <1>7

\* A sequence without repetition has as many elements as places.
LEMMA InjectiveCardinality ==
  ASSUME NEW S, NEW q \in Seq(S), IsInjective(q)
  PROVE  IsFiniteSet(ToSet(q)) /\ Cardinality(ToSet(q)) = Len(q)
<1>1. Len(q) \in Nat /\ DOMAIN q = 1..Len(q)
  OBVIOUS
<1>2. q \in [1..Len(q) -> ToSet(q)]
  BY <1>1 DEF ToSet
<1>3. \A t \in ToSet(q) : \E a \in 1..Len(q) : q[a] = t
  BY <1>1 DEF ToSet
<1>4. q \in Bijection(1..Len(q), ToSet(q))
  BY <1>2, <1>3 DEF Bijection, Injection, Surjection, IsInjective
<1>5. ExistsBijection(1..Len(q), ToSet(q))
  BY <1>4 DEF ExistsBijection
<1>6. IsFiniteSet(1..Len(q)) /\ Cardinality(1..Len(q)) = Len(q)
  <2>1. PICK l : l = Len(q)
    OBVIOUS
  <2>2. l \in Int /\ 1 \in Int /\ l >= 0
    BY <1>1, <2>1
  <2>3. IsFiniteSet(1..l) /\ Cardinality(1..l) = IF 1 > l THEN 0 ELSE l - 1 + 1
    BY <2>2, FS_Interval
  <2>4. Cardinality(1..l) = l
    BY <2>2, <2>3
  <2> QED
    BY <2>1, <2>3, <2>4
<1> QED
  BY <1>5, <1>6, FS_Bijection

\* Appending one id to the registry: it fits, or the first one goes.
LEMMA KeptFacts ==
  ASSUME NEW S, NEW q \in Seq(S), Len(q) <= MaxHistory, NEW e \in S
  PROVE  /\ Kept(Append(q, e)) \in Seq(S)
         /\ \/ Len(q) < MaxHistory /\ Kept(Append(q, e)) = Append(q, e)
            \/ /\ Len(q) = MaxHistory /\ Len(Kept(Append(q, e))) = MaxHistory
               /\ \A i \in 1..MaxHistory :
                    Kept(Append(q, e))[i] = IF i = MaxHistory THEN e ELSE q[i + 1]
<1> DEFINE p == Append(q, e)
           l == Len(q)
<1>1. /\ p \in Seq(S) /\ Len(p) = l + 1 /\ l \in Nat
      /\ \A i \in 1..(l + 1) : p[i] = IF i = l + 1 THEN e ELSE q[i]
  OBVIOUS
<1>2. MaxHistory \in Nat \ {0} /\ l <= MaxHistory
  BY HistoryAssumption
<1> HIDE DEF p, l
<1>3. CASE l < MaxHistory
  <2>1. Max({1, Len(p) - MaxHistory + 1}) = 1
    BY <1>1, <1>2, <1>3, MaxOfTwo
  <2>2. SubSeq(p, 1, Len(p)) = p
    BY <1>1
  <2>3. Kept(p) = p
    BY <2>1, <2>2 DEF Kept
  <2> QED
    BY <1>1, <1>3, <2>3 DEF p, l
<1>4. CASE l = MaxHistory
  <2>1. Max({1, Len(p) - MaxHistory + 1}) = 2
    BY <1>1, <1>2, <1>4, MaxOfTwo
  <2>2. Kept(p) = SubSeq(p, 2, l + 1)
    BY <1>1, <2>1 DEF Kept
  <2>3. /\ SubSeq(p, 2, l + 1) \in Seq(S) /\ Len(SubSeq(p, 2, l + 1)) = l
        /\ \A i \in 1..l : SubSeq(p, 2, l + 1)[i] = p[i + 1]
    BY <1>1, <1>2, <1>4
  <2> QED
    BY <1>1, <1>2, <1>4, <2>2, <2>3 DEF p, l
<1> QED
  BY <1>1, <1>2, <1>3, <1>4

\* The lines an object holds, in numbers.
LEMMA HeldIs ==
  ASSUME NEW k \in Nat
  PROVE  /\ Held(k) = (IF k <= MaxLines THEN k ELSE MaxLines) /\ Held(k) \in 0..MaxLines
         /\ Dropped(k) = (IF k <= MaxLines THEN 0 ELSE k - MaxLines) /\ Dropped(k) \in Nat
<1>1. MaxLines \in Nat
  BY LogAssumption
<1>2. Held(k) = IF k <= MaxLines THEN k ELSE MaxLines
  BY <1>1, MinOfTwo DEF Held
<1> QED
  BY <1>1, <1>2 DEF Dropped

-----------------------------------------------------------------------------
(* The steps of one job.                                                   *)

\* What a step of job j may make of its object, v, and of its file, f; u says
\* that its last save failed.
Change(j, v, f, u) ==
  /\ v \in JobType /\ f \in FileType
  /\ v.pc = "none" <=> job[j].pc = "none"
  /\ v.pc = "none" => f = disk[j]
  /\ v.pc = "saving" => job[j].pc = "saving" /\ f.status = "none"
  /\ v.pc \notin {"none", "ended"} => Alive(j) /\ f.status \notin TERMINAL /\ v.status # "interrupted"
  /\ f.status = "none" /\ ~u =>
       f = disk[j] /\ j \notin unsaved /\ (v.pc = "saving" <=> job[j].pc = "saving")
  /\ v.status = "interrupted" => job[j].status = "interrupted" /\ f.status = disk[j].status
  /\ v.pc \in {"raised", "ending", "ended"} <=> v.status \in TERMINAL
  /\ v.status \in TERMINAL => v.final <= v.lines
  /\ v.pc = "ended" => IF u THEN f.status \notin TERMINAL ELSE f.status \in {v.status, "none"}
  /\ v.lines >= job[j].lines
  /\ job[j].status \in TERMINAL => v.status \in TERMINAL /\ v.final = job[j].final
  /\ f.status = "none" => disk[j].status = "none"

\* The saves of other jobs than j are as they were.
OthersSaved(j) ==
  unsaved' \subseteq Failing /\ \A i \in Jobs \ {j} : i \in unsaved' <=> i \in unsaved

\* A step that changes one job's object and file, the way Change says, keeps
\* the invariant.
LEMMA ChangeInv ==
  ASSUME Inv, NEW j \in Jobs, NEW v, NEW f, Change(j, v, f, j \in unsaved'),
         job' = [job EXCEPT ![j] = v], disk' = [disk EXCEPT ![j] = f],
         OthersSaved(j), UNCHANGED <<order, n, stream, restarts>>,
         cancels' \in CancelType
  PROVE  Inv'
<1>1. /\ job \in [Jobs -> JobType] /\ disk \in [Jobs -> FileType]
      /\ order \in Seq(Jobs) /\ stream \in [Streams -> StreamType]
  BY DEF Inv, TypeOK, CancelType, Shapes, JobType, FileType
<1>2. /\ job'[j] = v /\ disk'[j] = f
      /\ \A i \in Jobs \ {j} : job'[i] = job[i] /\ disk'[i] = disk[i]
  BY <1>1
<1>3. job' \in [Jobs -> JobType] /\ disk' \in [Jobs -> FileType]
  BY <1>1 DEF Change
<1>4. TypeOK' /\ Shapes'
  <2>1. /\ n' \in 0..MaxJobs /\ Len(order') <= MaxHistory /\ unsaved' \subseteq Failing
        /\ \A i, k \in 1..Len(order') : i < k => Second[order'[i]] <= Second[order'[k]]
        /\ cancels' \in CancelType
        /\ restarts' \in 0..MaxRestarts
        /\ \A s \in Streams : /\ stream'[s].pc \in {"none", "open", "ended", "timeout"}
                              /\ stream'[s].job \in Jobs /\ stream'[s].idx \in 0..MaxLines
    BY DEF Inv, TypeOK, CancelType, OthersSaved
  <2>2. IsInjective(order)' /\ (ToSet(order) \subseteq 1..n)'
    BY DEF Inv, TypeOK, CancelType, IsInjective, ToSet
  <2>3. TypeOK'
    BY <1>3, <2>1, <2>2 DEF TypeOK, CancelType, JobType, FileType
  <2> QED
    BY <1>1, <2>3 DEF Shapes, StreamType
<1>5. ASSUME NEW i \in Jobs PROVE Alive(i)' => Alive(i)
  BY <1>2 DEF Alive, Change
<1>6. OrderOK'
  <2>5. \A a \in 1..Len(order) : order[a] \in Jobs
    BY <1>1
  <2>6. \A a, b \in 1..Len(order) : a < b /\ Alive(order[a])' => order[a] < order[b]
    BY <1>5, <2>5 DEF Inv, OrderOK
  <2>7. \A i \in Jobs : Alive(i)' /\ i \notin ToSet(order) =>
          Len(order) = MaxHistory /\ \A k \in ToSet(order) : i < k
    BY <1>5 DEF Inv, OrderOK
  <2> QED
    BY <2>6, <2>7 DEF OrderOK, Alive, ToSet
<1>7. ASSUME NEW i \in Jobs PROVE JobOK(i)'
  <2>1. CASE i = j
    BY <1>2, <2>1 DEF Inv, JobOK, Change, Alive, ToSet, Pcs, JobType
  <2>2. CASE i # j
    BY <1>2, <2>2 DEF Inv, JobOK, Alive, ToSet, OthersSaved
  <2> QED
    BY <2>1, <2>2
<1>8. ASSUME NEW s \in Streams PROVE StreamOK(s)'
  <2> DEFINE st == stream[s]
  <2>1. PICK k \in Nat : k = job[stream[s].job].lines
    BY <1>1 DEF StreamType, JobType
  <2>2. PICK l \in Nat : l = job'[stream[s].job].lines
    BY <1>1, <1>3 DEF StreamType, JobType
  <2>3. k <= l
    BY <1>1, <1>2, <2>1, <2>2 DEF Change, StreamType, JobType
  <2>4. Held(k) <= Held(l) /\ Dropped(k) <= Dropped(l) /\ Dropped(l) \in Nat /\ Dropped(k) \in Nat
        /\ Held(k) \in Nat /\ Held(l) \in Nat
    BY <2>3, HeldIs, LogAssumption
  <2>5. /\ st.idx \in Nat /\ st.sent \in Seq(Nat) /\ st.job \in Jobs
    BY <1>1, LogAssumption DEF StreamType
  <2>6. st.pc = "open" => /\ st.idx <= Held(l)
                          /\ \A i \in 1..Len(st.sent) : st.sent[i] <= Dropped(l) + st.idx
                          /\ l <= MaxLines => 1..st.idx \subseteq ToSet(st.sent)
    <3>1. \A i \in 1..Len(st.sent) : st.sent[i] \in Nat
      BY <2>5
    <3>2. st.pc = "open" => /\ st.idx <= Held(k)
                            /\ \A i \in 1..Len(st.sent) : st.sent[i] <= Dropped(k) + st.idx
                            /\ k <= MaxLines => 1..st.idx \subseteq ToSet(st.sent)
      BY <2>1 DEF Inv, StreamOK, Sound
    <3> HIDE DEF st
    <3> SUFFICES ASSUME st.pc = "open"
                 PROVE  /\ st.idx <= Held(l)
                        /\ \A i \in 1..Len(st.sent) : st.sent[i] <= Dropped(l) + st.idx
                        /\ l <= MaxLines => 1..st.idx \subseteq ToSet(st.sent)
      OBVIOUS
    <3>3. st.idx <= Held(l)
      BY <2>4, <2>5, <3>2
    <3>4. ASSUME NEW i \in 1..Len(st.sent) PROVE st.sent[i] <= Dropped(l) + st.idx
      <4>1. st.sent[i] \in Nat /\ st.sent[i] <= Dropped(k) + st.idx
        BY <3>1, <3>2
      <4>2. \A a, b, c, d \in Nat : a <= b + c /\ b <= d => a <= d + c
        OBVIOUS
      <4> QED
        BY <2>4, <2>5, <4>1, <4>2
    <3>5. l <= MaxLines => 1..st.idx \subseteq ToSet(st.sent)
      BY <2>3, <3>2, LogAssumption
    <3> QED
      BY <3>3, <3>4, <3>5
  <2>7. st.pc = "ended" => /\ job'[st.job].status \in TERMINAL
                           /\ l <= MaxLines => 1..job'[st.job].final \subseteq ToSet(st.sent)
    <3>1. st.pc = "ended" => /\ job[st.job].status \in TERMINAL
                             /\ k <= MaxLines => 1..job[st.job].final \subseteq ToSet(st.sent)
      BY <2>1 DEF Inv, StreamOK, Sound
    <3>2. job[st.job].status \in TERMINAL =>
            job'[st.job].status \in TERMINAL /\ job'[st.job].final = job[st.job].final
      BY <1>2, <2>5 DEF Change
    <3> HIDE DEF st
    <3> QED
      BY <2>3, <3>1, <3>2, LogAssumption
  <2>8. /\ \A i, m \in 1..Len(st.sent) : i < m => st.sent[i] < st.sent[m]
        /\ st.pc # "none" => st.job <= n
        /\ st.pc = "none" => st.idx = 0 /\ st.sent = <<>>
    BY DEF Inv, StreamOK, Sound
  <2> QED
    BY <2>2, <2>6, <2>7, <2>8 DEF StreamOK, Sound, ToSet, Held, Dropped
<1> QED
  BY <1>4, <1>6, <1>7, <1>8 DEF Inv

\* What is saved is a file.
LEMMA FileTyped ==
  ASSUME NEW v \in JobType
  PROVE  [status |-> v.status, lines |-> Min({v.lines, KeepLines})] \in FileType
<1>1. v.lines \in Nat /\ KeepLines \in Nat /\ v.status \in TERMINAL \cup {"queued", "running"}
  BY LogAssumption DEF JobType
<1>2. Min({v.lines, KeepLines}) \in 0..KeepLines
  BY <1>1, MinOfTwo
<1> QED
  BY <1>1, <1>2 DEF FileType

\* A save writes the file, or leaves it and is remembered as failed.
LEMMA SaveIs ==
  ASSUME Inv, NEW j \in Jobs, NEW v \in JobType, v = job'[j], Save(j)
  PROVE  /\ OthersSaved(j)
         /\ \E f \in FileType :
              /\ disk' = [disk EXCEPT ![j] = f]
              /\ IF j \in unsaved' THEN f = disk[j] ELSE f.status = v.status
<1>1. disk \in [Jobs -> FileType] /\ unsaved \subseteq Failing
  BY DEF Inv, TypeOK, FileType
<1>2. CASE disk' = [disk EXCEPT ![j] = FileOf(j)] /\ unsaved' = unsaved \ {j}
  <2>1. FileOf(j) \in FileType /\ FileOf(j).status = v.status
    BY FileTyped DEF FileOf
  <2> QED
    BY <1>1, <1>2, <2>1 DEF OthersSaved
<1>3. CASE j \in Failing /\ disk' = disk /\ unsaved' = unsaved \cup {j}
  <2>1. disk[j] \in FileType /\ disk' = [disk EXCEPT ![j] = disk[j]]
    BY <1>1, <1>3
  <2> QED
    BY <1>1, <1>3, <2>1 DEF OthersSaved
<1> QED
  BY <1>2, <1>3 DEF Save

\* A new job is saved.
LEMMA FirstSaveInv ==
  ASSUME Inv, NEW j \in Jobs, FirstSave(j), UNCHANGED <<cancels, stream, restarts>>
  PROVE  Inv'
<1>1. job \in [Jobs -> JobType] /\ JobOK(j)
  BY DEF Inv, TypeOK, CancelType, JobType
<1>2. PICK v : v = [job[j] EXCEPT !.pc = "started"]
  OBVIOUS
<1>3. job[j].pc = "saving" /\ job' = [job EXCEPT ![j] = v] /\ job'[j] = v
  BY <1>1, <1>2 DEF FirstSave
<1>4. /\ v \in JobType /\ v.pc = "started" /\ v.status = job[j].status
      /\ v.lines = job[j].lines /\ v.final = job[j].final
  BY <1>1, <1>2 DEF JobType, Pcs
<1>5. Save(j) /\ v = job'[j]
  BY <1>3 DEF FirstSave
<1>6. /\ OthersSaved(j)
      /\ \E f \in FileType : /\ disk' = [disk EXCEPT ![j] = f]
                            /\ IF j \in unsaved' THEN f = disk[j] ELSE f.status = v.status
  BY <1>4, <1>5, SaveIs
<1>6a. PICK f \in FileType : /\ disk' = [disk EXCEPT ![j] = f]
                             /\ IF j \in unsaved' THEN f = disk[j] ELSE f.status = v.status
  BY <1>6
<1>7. Change(j, v, f, j \in unsaved')
  BY <1>1, <1>3, <1>4, <1>6a DEF Change, JobOK, Alive, TERMINAL, JobType
<1>8. cancels' \in CancelType /\ UNCHANGED <<order, n>>
  BY DEF Inv, TypeOK, CancelType, FirstSave
<1> QED
  BY <1>3, <1>6, <1>6a, <1>7, <1>8, ChangeInv

\* The thread begins.
LEMMA BeginInv ==
  ASSUME Inv, NEW j \in Jobs, Begin(j), UNCHANGED <<cancels, stream, restarts>>
  PROVE  Inv'
<1>1. job \in [Jobs -> JobType] /\ JobOK(j)
  BY DEF Inv, TypeOK, CancelType, JobType
<1>2. PICK v : v = [job[j] EXCEPT !.pc = "target", !.status = "running"]
  OBVIOUS
<1>3. job[j].pc = "started" /\ job' = [job EXCEPT ![j] = v] /\ job'[j] = v
  BY <1>1, <1>2 DEF Begin
<1>4. /\ v \in JobType /\ v.pc = "target" /\ v.status = "running"
      /\ v.lines = job[j].lines /\ v.final = job[j].final
  BY <1>1, <1>2 DEF JobType, Pcs
<1>5. Save(j) /\ v = job'[j]
  BY <1>3 DEF Begin
<1>6. /\ OthersSaved(j)
      /\ \E f \in FileType : /\ disk' = [disk EXCEPT ![j] = f]
                            /\ IF j \in unsaved' THEN f = disk[j] ELSE f.status = v.status
  BY <1>4, <1>5, SaveIs
<1>6a. PICK f \in FileType : /\ disk' = [disk EXCEPT ![j] = f]
                             /\ IF j \in unsaved' THEN f = disk[j] ELSE f.status = v.status
  BY <1>6
<1>7. Change(j, v, f, j \in unsaved')
  BY <1>1, <1>3, <1>4, <1>6a DEF Change, JobOK, Alive, TERMINAL, JobType
<1>8. cancels' \in CancelType /\ UNCHANGED <<order, n>>
  BY DEF Inv, TypeOK, CancelType, Begin
<1> QED
  BY <1>3, <1>6, <1>6a, <1>7, <1>8, ChangeInv

\* The target returns.
LEMMA ReturnInv ==
  ASSUME Inv, NEW j \in Jobs, Return(j), UNCHANGED <<cancels, stream, restarts>>
  PROVE  Inv'
<1>1. /\ job \in [Jobs -> JobType] /\ disk \in [Jobs -> FileType] /\ JobOK(j)
      /\ job[j].lines \in Nat /\ job[j].lines + 1 \in Nat
  BY DEF Inv, TypeOK, CancelType, JobType, FileType
<1>2. PICK e \in TERMINAL \ {"interrupted"} :
        job' = [job EXCEPT ![j] = [job[j] EXCEPT !.pc = "ending", !.final = job[j].lines, !.status = e]]
  <2>1. PICK ok \in BOOLEAN :
          job' = [job EXCEPT ![j].pc = "ending", ![j].final = job[j].lines,
                             ![j].status = IF job[j].cancel THEN "cancelled"
                                           ELSE IF ok THEN "done" ELSE "error"]
    BY DEF Return
  <2>2. PICK e : e = IF job[j].cancel THEN "cancelled" ELSE IF ok THEN "done" ELSE "error"
    OBVIOUS
  <2>3. e \in TERMINAL \ {"interrupted"}
    BY <2>2 DEF TERMINAL
  <2>4. job' = [job EXCEPT ![j] = [job[j] EXCEPT !.pc = "ending", !.final = job[j].lines, !.status = e]]
    BY <1>1, <2>1, <2>2
  <2> QED
    BY <2>3, <2>4
<1>2a. PICK v : v = [job[j] EXCEPT !.pc = "ending", !.final = job[j].lines, !.status = e]
  OBVIOUS
<1>3. job[j].pc = "target" /\ job' = [job EXCEPT ![j] = v] /\ disk' = [disk EXCEPT ![j] = disk[j]]
  BY <1>1, <1>2, <1>2a DEF Return
<1>4. v \in JobType /\ v.pc = "ending" /\ v.status \in TERMINAL /\ v.status # "interrupted"
      /\ v.lines = job[j].lines /\ v.final = job[j].lines
  BY <1>1, <1>2, <1>2a DEF JobType, Pcs
<1>6. cancels' \in CancelType /\ UNCHANGED <<order, n, unsaved>> /\ OthersSaved(j)
  BY DEF Inv, TypeOK, CancelType, OthersSaved, Return
<1>5. Change(j, v, disk[j], j \in unsaved')
  BY <1>1, <1>3, <1>4, <1>6 DEF Change, JobOK, Alive, TERMINAL, FileType, JobType
<1> QED
  BY <1>3, <1>5, <1>6, ChangeInv

\* The target raises.
LEMMA RaiseInv ==
  ASSUME Inv, NEW j \in Jobs, Raise(j), UNCHANGED <<cancels, stream, restarts>>
  PROVE  Inv'
<1>1. /\ job \in [Jobs -> JobType] /\ disk \in [Jobs -> FileType] /\ JobOK(j)
      /\ job[j].lines \in Nat /\ job[j].lines + 1 \in Nat
  BY DEF Inv, TypeOK, CancelType, JobType, FileType
<1>2. PICK v : v = [job[j] EXCEPT !.pc = "raised", !.status = "error", !.final = job[j].lines]
  BY DEF Raise
<1>3. job[j].pc = "target" /\ job' = [job EXCEPT ![j] = v] /\ disk' = [disk EXCEPT ![j] = disk[j]]
  BY <1>1, <1>2 DEF Raise
<1>4. v \in JobType /\ v.pc = "raised" /\ v.status \in TERMINAL /\ v.status # "interrupted"
      /\ v.lines = job[j].lines /\ v.final = job[j].lines
  BY <1>1, <1>2 DEF JobType, Pcs, TERMINAL
<1>6. cancels' \in CancelType /\ UNCHANGED <<order, n, unsaved>> /\ OthersSaved(j)
  BY DEF Inv, TypeOK, CancelType, OthersSaved, Raise
<1>5. Change(j, v, disk[j], j \in unsaved')
  BY <1>1, <1>3, <1>4, <1>6 DEF Change, JobOK, Alive, TERMINAL, FileType, JobType
<1> QED
  BY <1>3, <1>5, <1>6, ChangeInv

\* The error is logged.
LEMMA LogErrorInv ==
  ASSUME Inv, NEW j \in Jobs, LogError(j), UNCHANGED <<cancels, stream, restarts>>
  PROVE  Inv'
<1>1. /\ job \in [Jobs -> JobType] /\ disk \in [Jobs -> FileType] /\ JobOK(j)
      /\ job[j].lines \in Nat /\ job[j].lines + 1 \in Nat
  BY DEF Inv, TypeOK, CancelType, JobType, FileType
<1>2. PICK v : v = [job[j] EXCEPT !.pc = "ending", !.lines = @ + 1]
  BY DEF LogError
<1>3. job[j].pc = "raised" /\ job' = [job EXCEPT ![j] = v] /\ disk' = [disk EXCEPT ![j] = disk[j]]
  BY <1>1, <1>2 DEF LogError
<1>4. v \in JobType /\ v.pc = "ending" /\ v.status = job[j].status
      /\ v.lines = job[j].lines + 1 /\ v.final = job[j].final
  BY <1>1, <1>2 DEF JobType, Pcs, TERMINAL
<1>6. cancels' \in CancelType /\ UNCHANGED <<order, n, unsaved>> /\ OthersSaved(j)
  BY DEF Inv, TypeOK, CancelType, OthersSaved, LogError
<1>5. Change(j, v, disk[j], j \in unsaved')
  BY <1>1, <1>3, <1>4, <1>6 DEF Change, JobOK, Alive, TERMINAL, FileType, JobType
<1> QED
  BY <1>3, <1>5, <1>6, ChangeInv

\* The target logs a line.
LEMMA TargetLogsInv ==
  ASSUME Inv, NEW j \in Jobs, TargetLogs(j)
  PROVE  Inv'
<1>1. /\ job \in [Jobs -> JobType] /\ disk \in [Jobs -> FileType] /\ JobOK(j)
      /\ job[j].lines \in Nat /\ job[j].lines + 1 \in Nat
  BY DEF Inv, TypeOK, CancelType, JobType, FileType
<1>2. PICK v : v = [job[j] EXCEPT !.lines = @ + 1]
  BY DEF TargetLogs
<1>3. job[j].pc = "target" /\ job' = [job EXCEPT ![j] = v] /\ disk' = [disk EXCEPT ![j] = disk[j]]
  BY <1>1, <1>2 DEF TargetLogs
<1>4. v \in JobType /\ v.pc = "target" /\ v.status = job[j].status
      /\ v.lines = job[j].lines + 1 /\ v.final = job[j].final
  BY <1>1, <1>2, <1>3 DEF JobType, Pcs, TERMINAL
<1>6. cancels' \in CancelType /\ UNCHANGED <<order, n, unsaved>> /\ OthersSaved(j)
  BY DEF Inv, TypeOK, CancelType, OthersSaved, TargetLogs
<1>5. Change(j, v, disk[j], j \in unsaved')
  BY <1>1, <1>3, <1>4, <1>6 DEF Change, JobOK, Alive, TERMINAL, FileType, JobType
<1>7. UNCHANGED <<stream, restarts>>
  BY DEF TargetLogs
<1> QED
  BY <1>3, <1>5, <1>6, <1>7, ChangeInv

\* The outcome is saved.
LEMMA FinalSaveInv ==
  ASSUME Inv, NEW j \in Jobs, FinalSave(j), UNCHANGED <<cancels, stream, restarts>>
  PROVE  Inv'
<1>1. job \in [Jobs -> JobType] /\ JobOK(j)
  BY DEF Inv, TypeOK, CancelType, JobType
<1>2. PICK v : v = [job[j] EXCEPT !.pc = "ended"]
  OBVIOUS
<1>3. job[j].pc = "ending" /\ job' = [job EXCEPT ![j] = v] /\ job'[j] = v
  BY <1>1, <1>2 DEF FinalSave
<1>4. /\ v \in JobType /\ v.pc = "ended" /\ v.status = job[j].status
      /\ v.lines = job[j].lines /\ v.final = job[j].final
  BY <1>1, <1>2 DEF JobType, Pcs
<1>5. Save(j) /\ v = job'[j]
  BY <1>3 DEF FinalSave
<1>6. /\ OthersSaved(j)
      /\ \E f \in FileType : /\ disk' = [disk EXCEPT ![j] = f]
                            /\ IF j \in unsaved' THEN f = disk[j] ELSE f.status = v.status
  BY <1>4, <1>5, SaveIs
<1>6a. PICK f \in FileType : /\ disk' = [disk EXCEPT ![j] = f]
                             /\ IF j \in unsaved' THEN f = disk[j] ELSE f.status = v.status
  BY <1>6
<1>7. Change(j, v, f, j \in unsaved')
  BY <1>1, <1>3, <1>4, <1>6a DEF Change, JobOK, Alive, TERMINAL, JobType
<1>8. cancels' \in CancelType /\ UNCHANGED <<order, n>>
  BY DEF Inv, TypeOK, CancelType, FinalSave
<1> QED
  BY <1>3, <1>6, <1>6a, <1>7, <1>8, ChangeInv

\* The flag of a cancel request is set, whatever the job does.
LEMMA SetCancelInv ==
  ASSUME Inv, NEW j \in Jobs, SetCancel(j)
  PROVE  Inv'
<1>1. /\ job \in [Jobs -> JobType] /\ disk \in [Jobs -> FileType] /\ JobOK(j)
      /\ job[j].lines \in Nat /\ job[j].lines + 1 \in Nat
  BY DEF Inv, TypeOK, CancelType, JobType, FileType
<1>2. PICK v : v = [job[j] EXCEPT !.cancel = TRUE, !.lines = @ + 1]
  OBVIOUS
<1>3. job' = [job EXCEPT ![j] = v] /\ disk' = [disk EXCEPT ![j] = disk[j]]
  BY <1>1, <1>2 DEF SetCancel
<1>4. /\ v \in JobType /\ v.pc = job[j].pc /\ v.status = job[j].status
      /\ v.lines = job[j].lines + 1 /\ v.final = job[j].final
  BY <1>1, <1>2 DEF JobType
<1>5. job[j].final \in Nat
  BY <1>1 DEF JobType
<1>7. /\ cancels' \in CancelType /\ unsaved' = unsaved /\ OthersSaved(j)
      /\ UNCHANGED <<order, n, stream, restarts>>
  BY DEF Inv, TypeOK, CancelType, OthersSaved, SetCancel
<1>6. Change(j, v, disk[j], j \in unsaved')
  BY <1>1, <1>4, <1>5, <1>7 DEF Change, JobOK, Alive, FileType
<1> QED
  BY <1>3, <1>6, <1>7, ChangeInv

-----------------------------------------------------------------------------
(* The requests.                                                           *)

\* A request to stop a job is past its check.
LEMMA AskCancelInv ==
  ASSUME Inv, NEW j \in Jobs, AskCancel(j)
  PROVE  Inv'
<1>1. /\ UNCHANGED <<job, order, n, disk, unsaved, stream, restarts>>
      /\ cancels' = [at |-> cancels.at \cup {j}, asked |-> cancels.asked + 1]
      /\ cancels.asked < MaxCancels
  BY DEF AskCancel
<1>2. cancels' \in CancelType
  BY <1>1, LogAssumption DEF Inv, TypeOK, CancelType
<1>3. TypeOK'
  <2>1. IsInjective(order)' /\ (ToSet(order) \subseteq 1..n)'
    BY <1>1 DEF Inv, TypeOK, IsInjective, ToSet
  <2> QED
    BY <1>1, <1>2, <2>1 DEF Inv, TypeOK, CancelType
<1>4. Shapes' /\ OrderOK'
  BY <1>1 DEF Inv, Shapes, OrderOK, Alive, ToSet
<1>5. \A i \in Jobs : JobOK(i)'
  BY <1>1 DEF Inv, JobOK, Alive, ToSet
<1>6. \A s \in Streams : StreamOK(s)'
  BY <1>1 DEF Inv, StreamOK, Sound
<1> QED
  BY <1>3, <1>4, <1>5, <1>6 DEF Inv

\* A step of one stream keeps the invariant if the stream stays sound.
LEMMA StreamInv ==
  ASSUME Inv, NEW s \in Streams, NEW st \in StreamType, Sound(st),
         stream' = [stream EXCEPT ![s] = st],
         UNCHANGED <<job, order, n, disk, unsaved, cancels, restarts>>
  PROVE  Inv'
<1>1. stream \in [Streams -> StreamType] /\ stream' \in [Streams -> StreamType]
  BY DEF Inv, Shapes
<1>2. TypeOK'
  <2>1. \A z \in Streams : /\ stream'[z].pc \in {"none", "open", "ended", "timeout"}
                           /\ stream'[z].job \in Jobs /\ stream'[z].idx \in 0..MaxLines
    BY <1>1 DEF StreamType
  <2>2. IsInjective(order)' /\ (ToSet(order) \subseteq 1..n)'
    BY DEF Inv, TypeOK, IsInjective, ToSet
  <2> QED
    BY <2>1, <2>2 DEF Inv, TypeOK
<1>3. Shapes' /\ OrderOK'
  BY <1>1 DEF Inv, Shapes, StreamType, OrderOK, Alive, ToSet
<1>4. \A i \in Jobs : JobOK(i)'
  BY DEF Inv, JobOK, Alive, ToSet
<1>5. ASSUME NEW z \in Streams PROVE StreamOK(z)'
  <2>1. PICK zt : zt = stream'[z] /\ Sound(zt)
    BY <1>1 DEF Inv, StreamOK
  <2> QED
    BY <2>1 DEF StreamOK, Sound
<1> QED
  BY <1>2, <1>3, <1>4, <1>5 DEF Inv

\* A page opens a log stream.
LEMMA OpenStreamInv ==
  ASSUME Inv, NEW s \in Streams, NEW j \in Jobs, OpenStream(s, j)
  PROVE  Inv'
<1>1. stream \in [Streams -> StreamType] /\ StreamOK(s) /\ stream[s].pc = "none"
  BY DEF Inv, Shapes, OpenStream
<1>2. stream[s].idx = 0 /\ stream[s].sent = <<>>
  BY <1>1 DEF StreamOK, Sound
<1>3. PICK st : st = [stream[s] EXCEPT !.pc = "open", !.job = j]
  OBVIOUS
<1>4. stream' = [stream EXCEPT ![s] = st] /\ UNCHANGED <<job, order, n, disk, unsaved, cancels, restarts>>
  BY <1>1, <1>3 DEF OpenStream
<1>5. st \in StreamType /\ st.pc = "open" /\ st.job = j /\ st.idx = 0 /\ st.sent = <<>>
  BY <1>1, <1>2, <1>3 DEF StreamType
<1>6. j <= n
  BY HistoryAssumption DEF Inv, TypeOK, CancelType, OpenStream, Jobs
<1>7. job[j].lines \in Nat
  BY DEF Inv, TypeOK, CancelType
<1>8. 0 <= Held(job[j].lines)
  BY <1>7, HeldIs, LogAssumption
<1>9. Sound(st)
  BY <1>5, <1>6, <1>8 DEF Sound
<1> QED
  BY <1>4, <1>5, <1>9, StreamInv

\* The lines a poll reads: those the object holds from idx on.
LEMMA LinesFromIs ==
  ASSUME NEW k \in Nat, NEW idx \in Nat, idx <= Held(k)
  PROVE  /\ LinesFrom(k, idx) \in Seq(Nat) /\ Len(LinesFrom(k, idx)) = Held(k) - idx
         /\ \A i \in 1..(Held(k) - idx) : LinesFrom(k, idx)[i] = Dropped(k) + idx + i
<1>1. PICK h \in Nat : h = Held(k)
  BY HeldIs, LogAssumption
<1>2. Max({0, h - idx}) = h - idx /\ h - idx \in Nat
  BY <1>1, MaxOfTwo
<1>3. Dropped(k) \in Nat /\ k - h = Dropped(k)
  BY <1>1, HeldIs DEF Dropped
<1>4. LinesFrom(k, idx) = [i \in 1..(h - idx) |-> k - h + idx + i]
  BY <1>1, <1>2 DEF LinesFrom
<1>5. LinesFrom(k, idx) \in [1..(h - idx) -> Nat]
  <2>1. \A i \in 1..(h - idx) : k - h + idx + i \in Nat
    BY <1>2, <1>3
  <2> QED
    BY <1>4, <2>1
<1>6. LinesFrom(k, idx) \in Seq(Nat) /\ Len(LinesFrom(k, idx)) = h - idx
  BY <1>2, <1>5
<1> QED
  BY <1>1, <1>3, <1>4, <1>6

\* Two sequences, one after the other.
LEMMA ConcatIs ==
  ASSUME NEW p \in Seq(Nat), NEW q \in Seq(Nat)
  PROVE  /\ p \o q \in Seq(Nat) /\ Len(p \o q) = Len(p) + Len(q)
         /\ \A i \in 1..Len(p) : (p \o q)[i] = p[i]
         /\ \A i \in 1..Len(q) : (p \o q)[Len(p) + i] = q[i]
<1>1. Len(p) \in Nat /\ Len(q) \in Nat
  OBVIOUS
<1>2. /\ p \o q \in Seq(Nat) /\ Len(p \o q) = Len(p) + Len(q)
      /\ \A i \in 1..(Len(p) + Len(q)) :
           (p \o q)[i] = IF i <= Len(p) THEN p[i] ELSE q[i - Len(p)]
  OBVIOUS
<1>3. \A i \in 1..Len(p) : i \in 1..(Len(p) + Len(q)) /\ i <= Len(p)
  BY <1>1
<1>4. \A i \in 1..Len(q) : /\ Len(p) + i \in 1..(Len(p) + Len(q)) /\ ~ (Len(p) + i <= Len(p))
                           /\ Len(p) + i - Len(p) = i
  BY <1>1
<1> QED
  BY <1>2, <1>3, <1>4

\* A record of five fields with other values in four of them.
LEMMA RecordWith ==
  ASSUME NEW A, NEW B, NEW C, NEW D, NEW E,
         NEW o \in [pc : A, job : B, idx : C, waited : D, sent : E],
         NEW p \in A, NEW i \in C, NEW w \in D, NEW q \in E, NEW st,
         st = [o EXCEPT !.pc = p, !.idx = i, !.waited = w, !.sent = q]
  PROVE  /\ st \in [pc : A, job : B, idx : C, waited : D, sent : E]
         /\ st.pc = p /\ st.job = o.job /\ st.idx = i /\ st.waited = w /\ st.sent = q
OBVIOUS

\* A stream polls: the lines it sends go on where it stopped, and when the
\* status is terminal they are the last.
LEMMA PollInv ==
  ASSUME Inv, NEW s \in Streams, Poll(s)
  PROVE  Inv'
<1> DEFINE old == stream[s]
<1>0. PICK A, B, C, D, E :
        /\ A = {"none", "open", "ended", "timeout"} /\ B = Jobs /\ C = 0..MaxLines
        /\ D = Nat /\ E = Seq(Nat) /\ StreamType = [pc : A, job : B, idx : C, waited : D, sent : E]
  BY DEF StreamType
<1>1. /\ stream \in [Streams -> StreamType] /\ old \in StreamType
      /\ old.pc = "open" /\ Sound(old)
  BY DEF Inv, Shapes, StreamOK, Poll
<1>2. /\ old.idx \in Nat /\ old.sent \in Seq(Nat) /\ old.job \in Jobs /\ old.waited \in Nat
  BY <1>1, LogAssumption DEF StreamType
<1>3. PICK k \in Nat : k = job[old.job].lines
  BY <1>2 DEF Inv, TypeOK, CancelType
<1>4. /\ old.idx <= Held(k)
      /\ \A i \in 1..Len(old.sent) : old.sent[i] <= Dropped(k) + old.idx
      /\ k <= MaxLines => 1..old.idx \subseteq ToSet(old.sent)
      /\ \A i, l \in 1..Len(old.sent) : i < l => old.sent[i] < old.sent[l]
      /\ old.job <= n
  BY <1>1, <1>3 DEF Sound
<1>5. PICK new : new = LinesFrom(k, old.idx)
  OBVIOUS
<1>6. PICK h \in Nat, d \in Nat : h = Held(k) /\ d = Dropped(k)
  BY HeldIs, LogAssumption
<1>7. PICK x \in Nat, q \in Seq(Nat) : x = old.idx /\ q = old.sent
  BY <1>2
<1>8. /\ new \in Seq(Nat) /\ Len(new) = h - x
      /\ \A i \in 1..(h - x) : new[i] = d + x + i
  <2>1. x = old.idx /\ x <= Held(k) /\ k \in Nat
    BY <1>4, <1>7
  <2>2. /\ LinesFrom(k, x) \in Seq(Nat) /\ Len(LinesFrom(k, x)) = Held(k) - x
        /\ \A i \in 1..(Held(k) - x) : LinesFrom(k, x)[i] = Dropped(k) + x + i
    BY <2>1, LinesFromIs
  <2>3. new = LinesFrom(k, x) /\ h = Held(k) /\ d = Dropped(k)
    BY <1>5, <1>6, <2>1
  <2> QED
    BY <2>2, <2>3
<1>9. /\ x <= h /\ h <= MaxLines /\ (k <= MaxLines => d = 0 /\ h = k)
  BY <1>4, <1>6, <1>7, HeldIs, LogAssumption
<1>10. PICK r : r = q \o new
  OBVIOUS
<1>11. /\ r \in Seq(Nat) /\ Len(q) \in Nat /\ Len(r) = Len(q) + (h - x)
       /\ \A i \in 1..Len(q) : r[i] = q[i]
       /\ \A i \in 1..(h - x) : r[Len(q) + i] = d + x + i
  <2>1. /\ r \in Seq(Nat) /\ Len(q) \in Nat /\ Len(r) = Len(q) + Len(new)
        /\ \A i \in 1..Len(q) : r[i] = q[i]
        /\ \A i \in 1..Len(new) : r[Len(q) + i] = new[i]
    <3>1. new \in Seq(Nat) /\ q \in Seq(Nat)
      BY <1>8
    <3>2. /\ q \o new \in Seq(Nat) /\ Len(q \o new) = Len(q) + Len(new)
          /\ \A i \in 1..Len(q) : (q \o new)[i] = q[i]
          /\ \A i \in 1..Len(new) : (q \o new)[Len(q) + i] = new[i]
      BY <3>1, ConcatIs
    <3>3. Len(q) \in Nat
      BY <3>1
    <3> QED
      BY <1>10, <3>2, <3>3
  <2> QED
    BY <1>8, <2>1
<1>12. \A i \in 1..Len(q) : q[i] \in Nat /\ q[i] <= d + x
  <2>1. \A i \in 1..Len(q) : q[i] \in Nat
    BY <1>7
  <2>2. q = old.sent /\ d = Dropped(k) /\ x = old.idx
    BY <1>6, <1>7
  <2>3. \A i \in 1..Len(old.sent) : old.sent[i] <= Dropped(k) + old.idx
    BY <1>4
  <2> HIDE DEF old
  <2>4. \A i \in 1..Len(q) : q[i] <= d + x
    BY <2>2, <2>3
  <2> QED
    BY <2>1, <2>4
<1>13. \A i \in 1..Len(r) : r[i] \in Nat /\ r[i] <= d + h
  <2> SUFFICES ASSUME NEW i \in 1..Len(r) PROVE r[i] \in Nat /\ r[i] <= d + h
    OBVIOUS
  <2>1. CASE i <= Len(q)
    BY <1>9, <1>11, <1>12, <2>1
  <2>2. CASE i > Len(q)
    <3>1. i - Len(q) \in 1..(h - x) /\ i = Len(q) + (i - Len(q))
      BY <1>9, <1>11, <2>2
    <3>2. r[i] = d + x + (i - Len(q))
      BY <1>11, <3>1
    <3> QED
      BY <1>9, <3>1, <3>2
  <2> QED
    BY <1>11, <2>1, <2>2
<1>14. \A i, l \in 1..Len(r) : i < l => r[i] < r[l]
  <2> SUFFICES ASSUME NEW i \in 1..Len(r), NEW l \in 1..Len(r), i < l PROVE r[i] < r[l]
    OBVIOUS
  <2>1. CASE l <= Len(q)
    <3>1. i \in 1..Len(q) /\ l \in 1..Len(q)
      BY <1>11, <2>1
    <3> QED
      BY <1>4, <1>7, <1>11, <3>1
  <2>2. CASE l > Len(q)
    <3>1. l - Len(q) \in 1..(h - x) /\ l = Len(q) + (l - Len(q))
      BY <1>9, <1>11, <2>2
    <3>2. r[l] = d + x + (l - Len(q))
      BY <1>11, <3>1
    <3>3. CASE i <= Len(q)
      <4>1. i \in 1..Len(q)
        BY <1>11, <3>3
      <4>2. r[i] \in Nat /\ r[i] <= d + x
        BY <1>11, <1>12, <4>1
      <4> QED
        BY <3>1, <3>2, <4>2
    <3>4. CASE i > Len(q)
      <4>1. i - Len(q) \in 1..(h - x) /\ i = Len(q) + (i - Len(q))
        BY <1>9, <1>11, <3>4
      <4>2. r[i] = d + x + (i - Len(q))
        BY <1>11, <4>1
      <4> QED
        BY <3>1, <3>2, <4>1, <4>2
    <3> QED
      BY <1>11, <3>3, <3>4
  <2> QED
    BY <1>11, <2>1, <2>2
<1>15. k <= MaxLines => 1..h \subseteq ToSet(r)
  <2> SUFFICES ASSUME k <= MaxLines, NEW m \in 1..h PROVE m \in ToSet(r)
    OBVIOUS
  <2>1. CASE m <= x
    <3>1. m \in ToSet(q)
      BY <1>4, <1>7, <2>1
    <3>2. PICK i \in 1..Len(q) : q[i] = m
      BY <3>1 DEF ToSet
    <3>3. i \in 1..Len(r) /\ r[i] = m
      BY <1>9, <1>11, <3>2
    <3> QED
      BY <1>11, <3>3 DEF ToSet
  <2>2. CASE m > x
    <3>1. m - x \in 1..(h - x)
      BY <1>9, <2>2
    <3>2. r[Len(q) + (m - x)] = d + x + (m - x)
      BY <1>11, <3>1
    <3>3. d + x + (m - x) = m
      BY <1>9
    <3>4. Len(q) + (m - x) \in 1..Len(r)
      BY <1>9, <1>11, <3>1
    <3> QED
      <4>1. DOMAIN r = 1..Len(r)
        BY <1>11
      <4>2. PICK c \in DOMAIN r : r[c] = m
        BY <3>2, <3>3, <3>4, <4>1
      <4> QED
        BY <4>2 DEF ToSet
  <2> QED
    BY <2>1, <2>2
<1>16. /\ Over(s, new, "ended") = [old EXCEPT !.pc = "ended", !.idx = 0, !.waited = 0, !.sent = r]
       /\ Over(s, new, "timeout") = [old EXCEPT !.pc = "timeout", !.idx = 0, !.waited = 0, !.sent = r]
       /\ Over(s, new, "open") = [old EXCEPT !.pc = "open", !.idx = 0, !.waited = 0, !.sent = r]
  BY <1>7, <1>10 DEF Over
<1>16a. 0 \in 0..MaxLines /\ 0 \in Nat
  BY LogAssumption
<1>17. PICK w : w = IF new = <<>> THEN stream[s].waited + 1 ELSE 1
  OBVIOUS
<1>18. w \in Nat
  BY <1>2, <1>17
<1>19. /\ UNCHANGED <<job, order, n, disk, unsaved, cancels, restarts>>
       /\ stream' = [stream EXCEPT ![s] =
            IF job[old.job].status \in TERMINAL THEN Over(s, new, "ended")
            ELSE IF w >= IdlePolls THEN Over(s, new, "timeout")
            ELSE [Over(s, new, "open") EXCEPT !.idx = old.idx + Len(new), !.waited = w]]
  BY <1>3, <1>5, <1>17 DEF Poll
<1> HIDE DEF old
<1>20. CASE job[old.job].status \in TERMINAL
  <2>1. PICK st \in StreamType :
          /\ st = [old EXCEPT !.pc = "ended", !.idx = 0, !.waited = 0, !.sent = r]
          /\ st.pc = "ended" /\ st.idx = 0 /\ st.sent = r /\ st.job = old.job
    <3>1. PICK e, y, z, st : /\ e = "ended" /\ y = 0 /\ z = 0
                             /\ st = [old EXCEPT !.pc = e, !.idx = y, !.waited = z, !.sent = r]
      OBVIOUS
    <3>2. e \in A /\ y \in C /\ z \in D /\ r \in E
      BY <1>0, <1>11, <1>16a, <3>1
    <3>3. old \in [pc : A, job : B, idx : C, waited : D, sent : E]
      BY <1>0, <1>1
    <3>4. /\ st \in [pc : A, job : B, idx : C, waited : D, sent : E]
          /\ st.pc = e /\ st.idx = y /\ st.sent = r /\ st.job = old.job
      BY <3>1, <3>2, <3>3, RecordWith
    <3> QED
      BY <1>0, <3>1, <3>4
  <2>3. job[old.job].final \in Nat /\ job[old.job].final <= k
    BY <1>2, <1>3, <1>20 DEF Inv, TypeOK, CancelType, JobOK
  <2>4. k <= MaxLines => 1..job[old.job].final \subseteq ToSet(r)
    BY <1>9, <1>15, <2>3
  <2>5. Sound(st)
    BY <1>3, <1>4, <1>14, <1>20, <2>1, <2>4 DEF Sound
  <2>6. stream' = [stream EXCEPT ![s] = st]
    BY <1>16, <1>19, <1>20, <2>1
  <2> QED
    BY <1>19, <2>1, <2>5, <2>6, StreamInv
<1>21. CASE job[old.job].status \notin TERMINAL /\ w >= IdlePolls
  <2>1. PICK st \in StreamType :
          /\ st = [old EXCEPT !.pc = "timeout", !.idx = 0, !.waited = 0, !.sent = r]
          /\ st.pc = "timeout" /\ st.idx = 0 /\ st.sent = r /\ st.job = old.job
    <3>1. PICK e, y, z, st : /\ e = "timeout" /\ y = 0 /\ z = 0
                             /\ st = [old EXCEPT !.pc = e, !.idx = y, !.waited = z, !.sent = r]
      OBVIOUS
    <3>2. e \in A /\ y \in C /\ z \in D /\ r \in E
      BY <1>0, <1>11, <1>16a, <3>1
    <3>3. old \in [pc : A, job : B, idx : C, waited : D, sent : E]
      BY <1>0, <1>1
    <3>4. /\ st \in [pc : A, job : B, idx : C, waited : D, sent : E]
          /\ st.pc = e /\ st.idx = y /\ st.sent = r /\ st.job = old.job
      BY <3>1, <3>2, <3>3, RecordWith
    <3> QED
      BY <1>0, <3>1, <3>4
  <2>3. Sound(st)
    BY <1>4, <1>14, <2>1 DEF Sound
  <2>4. stream' = [stream EXCEPT ![s] = st]
    BY <1>16, <1>19, <1>21, <2>1
  <2> QED
    BY <1>19, <2>1, <2>3, <2>4, StreamInv
<1>22. CASE job[old.job].status \notin TERMINAL /\ ~ (w >= IdlePolls)
  <2>0. h \in 0..MaxLines
    BY <1>9, LogAssumption
  <2>1. PICK st \in StreamType :
          /\ st = [old EXCEPT !.pc = "open", !.idx = h, !.waited = w, !.sent = r]
          /\ st.pc = "open" /\ st.idx = h /\ st.sent = r /\ st.job = old.job
    <3>1. PICK e, y, z, st : /\ e = "open" /\ y = h /\ z = w
                             /\ st = [old EXCEPT !.pc = e, !.idx = y, !.waited = z, !.sent = r]
      OBVIOUS
    <3>2. e \in A /\ y \in C /\ z \in D /\ r \in E
      BY <1>0, <1>11, <1>18, <2>0, <3>1
    <3>3. old \in [pc : A, job : B, idx : C, waited : D, sent : E]
      BY <1>0, <1>1
    <3>4. /\ st \in [pc : A, job : B, idx : C, waited : D, sent : E]
          /\ st.pc = e /\ st.idx = y /\ st.sent = r /\ st.job = old.job
      BY <3>1, <3>2, <3>3, RecordWith
    <3> QED
      BY <1>0, <3>1, <3>4
  <2>2. old.idx + Len(new) = h
    BY <1>7, <1>8, <1>9
  <2>4. Sound(st)
    BY <1>3, <1>4, <1>6, <1>13, <1>14, <1>15, <2>1 DEF Sound
  <2>5. stream' = [stream EXCEPT ![s] = st]
    BY <1>16, <1>19, <1>22, <2>1, <2>2
  <2> QED
    BY <1>19, <2>1, <2>4, <2>5, StreamInv
<1> QED
  BY <1>20, <1>21, <1>22

-----------------------------------------------------------------------------
(* Submitting a job.                                                       *)

\* The registry after a submit: the new id is its last, and when it was full
\* the first one is gone.
LEMMA SubmitOrder ==
  ASSUME Inv, NEW j \in Jobs, Submit(j)
  PROVE  /\ order' \in Seq(Jobs) /\ Len(order) \in Nat /\ j = n + 1
         /\ \E d \in {0, 1} :
              /\ Len(order') = Len(order) + 1 - d /\ Len(order') <= MaxHistory /\ Len(order') > 0
              /\ d = 1 => Len(order) = MaxHistory
              /\ \A i \in 1..Len(order') : order'[i] = IF i = Len(order') THEN j ELSE order[i + d]
<1>1. order \in Seq(Jobs) /\ Len(order) <= MaxHistory
  BY DEF Inv, TypeOK, CancelType, Shapes
<1>2. PICK o : o = order'
  OBVIOUS
<1>3. o = Kept(Append(order, j)) /\ j = n + 1
  BY <1>2 DEF Submit
<1>4. Len(order) \in Nat /\ MaxHistory \in Nat \ {0}
  BY <1>1, HistoryAssumption
<1>5. CASE Len(order) < MaxHistory /\ o = Append(order, j)
  <2>1. /\ o \in Seq(Jobs) /\ Len(o) = Len(order) + 1
        /\ \A i \in 1..Len(o) : o[i] = IF i = Len(o) THEN j ELSE order[i]
    BY <1>1, <1>5
  <2>2. Len(o) = Len(order) + 1 - 0 /\ Len(o) <= MaxHistory /\ Len(o) > 0
    BY <1>4, <1>5, <2>1
  <2>3. \A i \in 1..Len(o) : o[i] = IF i = Len(o) THEN j ELSE order[i + 0]
    <3>1. \A i \in 1..Len(o) : i + 0 = i
      BY <1>4, <2>2
    <3> QED
      BY <2>1, <3>1
  <2>4. \E d \in {0, 1} :
          /\ Len(o) = Len(order) + 1 - d /\ Len(o) <= MaxHistory /\ Len(o) > 0
          /\ d = 1 => Len(order) = MaxHistory
          /\ \A i \in 1..Len(o) : o[i] = IF i = Len(o) THEN j ELSE order[i + d]
    <3> WITNESS 0 \in {0, 1}
    <3> QED
      BY <2>2, <2>3
  <2> QED
    BY <1>2, <1>3, <1>4, <2>1, <2>4
<1>6. CASE /\ Len(order) = MaxHistory /\ Len(o) = MaxHistory /\ o \in Seq(Jobs)
           /\ \A i \in 1..MaxHistory : o[i] = IF i = MaxHistory THEN j ELSE order[i + 1]
  BY <1>2, <1>3, <1>4, <1>6
<1>7. \/ Len(order) < MaxHistory /\ o = Append(order, j)
      \/ /\ Len(order) = MaxHistory /\ Len(o) = MaxHistory /\ o \in Seq(Jobs)
         /\ \A i \in 1..MaxHistory : o[i] = IF i = MaxHistory THEN j ELSE order[i + 1]
  <2>1. PICK p : p = Kept(Append(order, j))
    OBVIOUS
  <2>2. /\ p \in Seq(Jobs)
        /\ \/ Len(order) < MaxHistory /\ p = Append(order, j)
           \/ /\ Len(order) = MaxHistory /\ Len(p) = MaxHistory
              /\ \A i \in 1..MaxHistory : p[i] = IF i = MaxHistory THEN j ELSE order[i + 1]
    BY <1>1, <2>1, KeptFacts
  <2> QED
    BY <1>3, <2>1, <2>2
<1> QED
  BY <1>5, <1>6, <1>7

\* The elements of the registry after a submit.
LEMMA SubmitKeeps ==
  ASSUME Inv, NEW j \in Jobs, Submit(j)
  PROVE  /\ ToSet(order') \subseteq ToSet(order) \cup {j} /\ j \in ToSet(order')
         /\ j \notin ToSet(order) /\ ToSet(order) \subseteq Jobs
         /\ \A i \in ToSet(order) \ ToSet(order') :
              Len(order) = MaxHistory /\ Len(order') = MaxHistory /\ i = order[1] /\ 1 \in 1..Len(order)
<1>1. PICK o : o = order'
  OBVIOUS
<1>2. PICK d \in {0, 1} :
        /\ o \in Seq(Jobs) /\ Len(order) \in Nat /\ j = n + 1
        /\ Len(o) = Len(order) + 1 - d /\ Len(o) <= MaxHistory /\ Len(o) > 0
        /\ d = 1 => Len(order) = MaxHistory
        /\ \A i \in 1..Len(o) : o[i] = IF i = Len(o) THEN j ELSE order[i + d]
  BY <1>1, SubmitOrder
<1>3. order \in Seq(Jobs) /\ DOMAIN order = 1..Len(order) /\ DOMAIN o = 1..Len(o)
  BY <1>2 DEF Inv, Shapes
<1>4. \A i \in 1..Len(o) : o[i] = j \/ (i + d \in 1..Len(order) /\ o[i] = order[i + d])
  BY <1>2
<1>5. ToSet(o) \subseteq ToSet(order) \cup {j}
  BY <1>3, <1>4 DEF ToSet
<1>6. j \in ToSet(o)
  BY <1>2, <1>3 DEF ToSet
<1>7. j \notin ToSet(order)
  <2>1. n \in Int /\ ToSet(order) \subseteq 1..n
    BY HistoryAssumption DEF Inv, TypeOK, CancelType
  <2> QED
    BY <1>2, <2>1
<1>8. ToSet(order) \subseteq Jobs
  BY <1>3 DEF ToSet
<1>9. ASSUME NEW i \in ToSet(order) \ ToSet(o)
      PROVE  Len(order) = MaxHistory /\ Len(o) = MaxHistory /\ i = order[1] /\ 1 \in 1..Len(order)
  <2>1. PICK a \in 1..Len(order) : order[a] = i
    BY <1>3, <1>9 DEF ToSet
  <2>2. ASSUME a - d \in 1..(Len(o) - 1) PROVE FALSE
    <3>1. a - d \in 1..Len(o) /\ a - d # Len(o) /\ a - d + d = a
      BY <1>2, <2>2
    <3>2. o[a - d] = i
      BY <1>2, <2>1, <3>1
    <3>3. i \in ToSet(o)
      BY <1>3, <3>1, <3>2 DEF ToSet
    <3> QED
      BY <1>9, <3>3
  <2>3. a <= d
    BY <1>2, <2>2
  <2>4. d = 1 /\ a = 1
    BY <2>3
  <2> QED
    BY <1>2, <2>1, <2>4
<1> QED
  BY <1>1, <1>5, <1>6, <1>7, <1>8, <1>9

\* Submitting a job keeps the invariant.
LEMMA SubmitInv ==
  ASSUME Inv, NEW j \in Jobs, Submit(j)
  PROVE  Inv'
<1>1. /\ job \in [Jobs -> JobType] /\ disk \in [Jobs -> FileType] /\ n \in Nat /\ n' = j /\ j = n + 1
      /\ order \in Seq(Jobs) /\ stream \in [Streams -> StreamType] /\ Jobs = 1..MaxJobs /\ MaxJobs \in Nat
      /\ MaxHistory \in Nat \ {0} /\ MaxSubmitting \in Nat \ {0}
  BY HistoryAssumption DEF Inv, TypeOK, CancelType, Shapes, JobType, FileType, Submit, Jobs
<1>2. /\ job'[j].pc = "saving" /\ job'[j].status = "queued" /\ job'[j] \in JobType
      /\ \A i \in Jobs \ {j} : job'[i] = job[i]
      /\ job' \in [Jobs -> JobType]
  BY <1>1 DEF Submit, NoJob, JobType, Pcs
<1>3. /\ disk' \in [Jobs -> FileType]
      /\ \A i \in Jobs : disk'[i] = IF i \in ToSet(order) \ ToSet(order') THEN NoFile ELSE disk[i]
  <2>1. NoFile \in FileType
    BY LogAssumption DEF NoFile, FileType
  <2> QED
    BY <1>1, <2>1 DEF Submit
<1>4. UNCHANGED <<unsaved, cancels, stream, restarts>>
  BY DEF Submit
<1>5. /\ ToSet(order') \subseteq ToSet(order) \cup {j} /\ j \in ToSet(order')
      /\ j \notin ToSet(order) /\ ToSet(order) \subseteq Jobs
      /\ \A i \in ToSet(order) \ ToSet(order') :
           Len(order) = MaxHistory /\ Len(order') = MaxHistory /\ i = order[1] /\ 1 \in 1..Len(order)
  BY SubmitKeeps
<1>20. PICK q : q = order'
  OBVIOUS
<1>21. PICK d \in {0, 1} :
        /\ q \in Seq(Jobs) /\ Len(order) \in Nat
        /\ Len(q) = Len(order) + 1 - d /\ Len(q) <= MaxHistory /\ Len(q) > 0
        /\ d = 1 => Len(order) = MaxHistory
        /\ \A i \in 1..Len(q) : q[i] = IF i = Len(q) THEN j ELSE order[i + d]
  BY <1>20, SubmitOrder
<1>6. /\ q = order' /\ q \in Seq(Jobs) /\ Len(order) \in Nat
      /\ Len(q) = Len(order) + 1 - d /\ Len(q) <= MaxHistory /\ Len(q) > 0 /\ Len(q) \in Nat
      /\ d = 1 => Len(order) = MaxHistory
      /\ \A i \in 1..Len(q) : q[i] = IF i = Len(q) THEN j ELSE order[i + d]
  BY <1>20, <1>21
<1>22. /\ Len(q) \in Nat /\ Len(q) > 0 /\ Len(order) \in Nat /\ d \in {0, 1}
       /\ Len(q) = Len(order) + 1 - d /\ DOMAIN q = 1..Len(q) /\ n \in Nat /\ j = n + 1 /\ n < j
  BY <1>1, <1>6
<1>23. /\ q[Len(q)] = j
       /\ \A i \in 1..Len(q) : q[i] \in Jobs /\ q[i] \in Nat /\ (i # Len(q) => q[i] = order[i + d])
  <2>1. Len(q) \in 1..Len(q)
    BY <1>22
  <2>2. \A i \in 1..Len(q) : q[i] \in Jobs
    BY <1>6
  <2>3. Jobs \subseteq Nat
    BY DEF Jobs
  <2> QED
    BY <1>6, <2>1, <2>2, <2>3
<1>7. \A i \in 1..(Len(q) - 1) : i + d \in 1..Len(order) /\ q[i] = order[i + d] /\ q[i] <= n
  <2>1. ASSUME NEW i \in 1..(Len(q) - 1) PROVE i + d \in 1..Len(order) /\ q[i] = order[i + d]
    <3>1. i \in 1..Len(q) /\ i # Len(q)
      BY <1>22
    <3>2. i + d \in 1..Len(order)
      BY <1>22
    <3> QED
      BY <1>23, <3>1, <3>2
  <2>2. \A a \in 1..Len(order) : order[a] <= n
    <3>1. DOMAIN order = 1..Len(order) /\ ToSet(order) \subseteq 1..n /\ n \in Int
      BY <1>1 DEF Inv, TypeOK, CancelType
    <3>2. \A a \in 1..Len(order) : order[a] \in ToSet(order)
      BY <3>1 DEF ToSet
    <3> QED
      BY <3>1, <3>2
  <2> QED
    BY <2>1, <2>2
<1>8. TypeOK'
  <2>1. IsInjective(q)
    <3>1. DOMAIN q = 1..Len(q) /\ DOMAIN order = 1..Len(order)
      BY <1>1, <1>6
    <3>2. \A a, b \in 1..Len(order) : order[a] = order[b] => a = b
      BY <3>1 DEF Inv, TypeOK, CancelType, IsInjective
    <3>3. ASSUME NEW a \in 1..Len(q), NEW b \in 1..Len(q), q[a] = q[b]
          PROVE  a = b
      <4>1. CASE a = Len(q) \/ b = Len(q)
        <5>1. \A c \in 1..Len(q) : c # Len(q) => q[c] # j
          <6> SUFFICES ASSUME NEW c \in 1..Len(q), c # Len(q) PROVE q[c] # j
            OBVIOUS
          <6>1. c \in 1..(Len(q) - 1)
            BY <1>22
          <6>2. q[c] <= n /\ q[c] \in Nat
            BY <1>7, <1>23, <6>1
          <6> QED
            BY <1>22, <6>2
        <5> QED
          BY <1>23, <3>3, <4>1, <5>1
      <4>2. CASE a # Len(q) /\ b # Len(q)
        <5>1. a \in 1..(Len(q) - 1) /\ b \in 1..(Len(q) - 1)
          BY <1>22, <4>2
        <5>2. a + d \in 1..Len(order) /\ b + d \in 1..Len(order) /\ order[a + d] = order[b + d]
          BY <1>7, <3>3, <5>1
        <5>3. a + d = b + d
          BY <3>2, <5>2
        <5> QED
          BY <1>22, <5>3
      <4> QED
        BY <4>1, <4>2
    <3> QED
      BY <3>1, <3>3 DEF IsInjective
  <2>2. ToSet(q) \subseteq 1..n'
    <3>1. ToSet(order) \subseteq 1..n /\ n' = j
      BY <1>1 DEF Inv, TypeOK, CancelType
    <3>2. ToSet(q) \subseteq ToSet(order) \cup {j}
      BY <1>5, <1>6
    <3> QED
      BY <1>22, <3>1, <3>2
  <2>3. \A a, b \in 1..Len(q) : a < b => Second[q[a]] <= Second[q[b]]
    <3> SUFFICES ASSUME NEW a \in 1..Len(q), NEW b \in 1..Len(q), a < b
                 PROVE  Second[q[a]] <= Second[q[b]]
      OBVIOUS
    <3>1. CASE b = Len(q)
      <4>1. a \in 1..(Len(q) - 1) /\ q[b] = j
        BY <1>22, <1>23, <3>1
      <4>2. q[a] \in Jobs /\ q[a] < j
        <5>1. a \in 1..Len(q) /\ q[a] <= n
          BY <1>7, <4>1
        <5> QED
          BY <1>22, <1>23, <5>1
      <4> QED
        BY <4>1, <4>2, ClockAssumption
    <3>2. CASE b # Len(q)
      <4>1. a \in 1..(Len(q) - 1) /\ b \in 1..(Len(q) - 1) /\ a + d < b + d
        BY <1>22, <3>2
      <4>2. \A i \in 1..Len(order), k \in 1..Len(order) : i < k => Second[order[i]] <= Second[order[k]]
        BY DEF Inv, TypeOK
      <4>3. Second[order[a + d]] <= Second[order[b + d]]
        BY <1>7, <4>1, <4>2
      <4> QED
        BY <1>7, <4>1, <4>3
    <3> QED
      BY <3>1, <3>2
  <2>4. n' \in 0..MaxJobs
    BY <1>1
  <2> QED
    BY <1>2, <1>3, <1>4, <1>6, <2>1, <2>2, <2>3, <2>4 DEF Inv, TypeOK, CancelType, JobType, FileType, IsInjective
<1>9. Shapes'
  BY <1>1, <1>4, <1>6 DEF Shapes, StreamType
<1>10. ASSUME NEW i \in Jobs \ {j} PROVE Alive(i)' = Alive(i)
  BY <1>2 DEF Alive
<1>11. \A i \in Jobs : Alive(i) => i <= n
  BY <1>1 DEF Inv, JobOK, Alive
<1>12. OrderOK'
  <2>2. ASSUME NEW a \in 1..Len(q), NEW b \in 1..Len(q), a < b, Alive(q[a])'
        PROVE  q[a] < q[b]
    <3>1. a \in 1..(Len(q) - 1) /\ a + d \in 1..Len(order) /\ q[a] = order[a + d] /\ q[a] <= n
      <4>1. a \in 1..(Len(q) - 1)
        BY <1>22, <2>2
      <4> QED
        BY <1>7, <4>1
    <3>2. CASE b = Len(q)
      BY <1>22, <1>23, <3>1, <3>2
    <3>3. CASE b # Len(q)
      <4>1. b \in 1..(Len(q) - 1) /\ a + d < b + d
        BY <1>22, <2>2, <3>3
      <4>2. q[a] \in Jobs \ {j}
        BY <1>22, <1>23, <3>1
      <4>3. Alive(q[a])
        BY <1>10, <2>2, <4>2
      <4> QED
        BY <1>7, <3>1, <4>1, <4>3 DEF Inv, OrderOK
    <3> QED
      BY <3>2, <3>3
  <2>3. ASSUME NEW i \in Jobs, Alive(i)', i \notin ToSet(q)
        PROVE  Len(q) = MaxHistory /\ \A k \in ToSet(q) : i < k
    <3>1. i # j /\ Alive(i) /\ i <= n
      BY <1>5, <1>6, <1>10, <1>11, <2>3
    <3>2. CASE i \in ToSet(order)
      <4>1. Len(q) = MaxHistory /\ i = order[1] /\ 1 \in 1..Len(order) /\ Len(order) = MaxHistory
        BY <1>5, <1>6, <2>3, <3>2
      <4>2. d = 1
        BY <1>6, <4>1
      <4>3. ASSUME NEW b \in 1..Len(q) PROVE i < q[b]
        <5>1. CASE b = Len(q)
          BY <1>1, <1>22, <1>23, <3>1, <5>1
        <5>2. CASE b # Len(q)
          <6>1. b \in Int /\ 1 <= b /\ b <= Len(q) /\ b # Len(q) /\ Len(q) \in Int
            BY <1>22, <5>2
          <6>2. b \in 1..(Len(q) - 1) /\ 1 < b + 1
            BY <6>1
          <6>3. 1 < b + d
            BY <4>2, <6>2
          <6> QED
            BY <1>7, <3>1, <4>1, <6>2, <6>3 DEF Inv, OrderOK
        <5> QED
          BY <5>1, <5>2
      <4>4. DOMAIN q = 1..Len(q)
        BY <1>6
      <4> QED
        BY <4>1, <4>3, <4>4 DEF ToSet
    <3>3. CASE i \notin ToSet(order)
      <4>1. Len(order) = MaxHistory /\ \A k \in ToSet(order) : i < k
        BY <3>1, <3>3 DEF Inv, OrderOK
      <4>2. Len(q) = MaxHistory
        BY <1>1, <1>6, <4>1
      <4>3. \A k \in ToSet(q) : k \in ToSet(order) \/ k = j
        BY <1>5, <1>6
      <4> QED
        BY <1>1, <3>1, <4>1, <4>2, <4>3
    <3> QED
      BY <3>2, <3>3
  <2> QED
    BY <1>6, <2>2, <2>3 DEF OrderOK, Alive
<1>13. ASSUME NEW i \in Jobs PROVE JobOK(i)'
  <2>1. CASE i = j
    <3>1. disk'[j] = disk[j] /\ disk[j].status = "none"
      BY <1>1, <1>3, <1>5 DEF Inv, JobOK
    <3> QED
      BY <1>1, <1>2, <2>1, <3>1 DEF JobOK, Alive, TERMINAL
  <2>2. CASE i # j
    <3>1. job'[i] = job[i]
      BY <1>2, <2>2
    <3>2. disk'[i] = disk[i] \/ (disk'[i].status = "none" /\ i \notin ToSet(order'))
      BY <1>3 DEF NoFile
    <3>3. JobOK(i)
      BY DEF Inv
    <3>4. i \in ToSet(order') => i \in ToSet(order)
      BY <1>5, <2>2
    <3>5. i > n' => i > n
      BY <1>1
    <3>6. (i \in ToSet(order))' <=> i \in ToSet(order')
      BY DEF ToSet
    <3> QED
      BY <1>4, <3>1, <3>2, <3>3, <3>4, <3>5, <3>6 DEF JobOK, Alive, TERMINAL
  <2> QED
    BY <2>1, <2>2
<1>14. ASSUME NEW s \in Streams PROVE StreamOK(s)'
  <2>1. stream[s] \in StreamType /\ Sound(stream[s])
    BY <1>1 DEF Inv, StreamOK
  <2>2. PICK st : st = stream[s]
    OBVIOUS
  <2>3. stream'[s] = st
    BY <1>4, <2>2
  <2>4. st.job \in Jobs /\ (st.pc # "none" => job'[st.job] = job[st.job] /\ st.job <= n')
    <3>1. st.job \in Jobs
      BY <2>1, <2>2 DEF StreamType
    <3>2. st.pc # "none" => st.job <= n
      BY <2>1, <2>2 DEF Sound
    <3> QED
      BY <1>1, <1>2, <3>1, <3>2
  <2>5. st.pc \in {"open", "ended"} => st.pc # "none"
    OBVIOUS
  <2> QED
    BY <2>1, <2>2, <2>3, <2>4, <2>5 DEF StreamOK, Sound
<1> QED
  BY <1>8, <1>9, <1>12, <1>13, <1>14 DEF Inv

-----------------------------------------------------------------------------
(* A restart.                                                              *)

\* What is loaded: files in the order of created_at, and none that is left has
\* a higher id than the last id.
LEMMA LoadFacts ==
  ASSUME NEW q \in Loads
  PROVE  /\ q \in Seq(Jobs) /\ Len(q) \in Nat /\ Len(q) <= MaxHistory /\ IsInjective(q)
         /\ ToSet(q) \subseteq Files /\ ToSet(q) \subseteq 1..LastId(q)
         /\ LastId(q) \in 0..MaxJobs /\ \A i \in Files : i <= LastId(q)
         /\ LastId(q) = 0 \/ LastId(q) \in ToSet(q)
         /\ \A a, b \in 1..Len(q) : a < b => Second[q[a]] <= Second[q[b]]
         /\ \/ ToSet(q) = Files \/ Len(q) = MaxHistory
<1>1. MaxHistory \in Nat /\ MaxJobs \in Nat /\ Files \subseteq Jobs /\ Jobs = 1..MaxJobs
  BY HistoryAssumption DEF Files, Jobs
<1>2. PICK m \in 0..MaxHistory : q \in [1..m -> Files]
  BY DEF Loads, SeqOf
<1>3. q \in Seq(Jobs) /\ q \in Seq(Files) /\ Len(q) = m /\ DOMAIN q = 1..m /\ m \in Nat /\ m <= MaxHistory
  <2>1. m \in Nat /\ m <= MaxHistory
    BY <1>1
  <2>2. q \in Seq(Files)
    BY <1>2, <2>1
  <2>3. DOMAIN q = 1..m /\ DOMAIN q = 1..Len(q) /\ Len(q) \in Nat
    BY <1>2, <2>2
  <2>4. Len(q) = m
    BY <2>1, <2>3
  <2>5. q \in [1..m -> Jobs]
    BY <1>1, <1>2
  <2>6. q \in Seq(Jobs)
    BY <2>1, <2>5
  <2> QED
    BY <2>1, <2>2, <2>3, <2>4, <2>6
<1>4. ToSet(q) \subseteq Files /\ ToSet(q) \subseteq Jobs
  BY <1>1, <1>2, <1>3 DEF ToSet
<1>5. IsInjective(q)
  BY DEF Loads
<1>6. /\ \A k \in 1..Len(q) : \A i \in 1..(k - 1) : Second[q[i]] <= Second[q[k]]
      /\ \A k \in 1..Len(q) : \A i \in Files \ ToSet(q) : Second[i] <= Second[q[k]]
      /\ Len(q) = Min({MaxHistory, Cardinality(Files)})
  BY DEF Loads
<1>7. IsFiniteSet(Jobs) /\ IsFiniteSet(Files) /\ Cardinality(Files) \in Nat
  <2>1. IsFiniteSet(Jobs)
    BY <1>1, FS_Interval
  <2>2. IsFiniteSet(Files)
    BY <1>1, <2>1, FS_Subset
  <2> QED
    BY <2>1, <2>2, FS_CardinalityType
<1>8. IsFiniteSet(ToSet(q)) /\ Cardinality(ToSet(q)) = Len(q)
  BY <1>3, <1>5, InjectiveCardinality
<1>9. /\ LastId(q) \in 0..MaxJobs /\ \A k \in ToSet(q) : k <= LastId(q)
      /\ LastId(q) = 0 \/ LastId(q) \in ToSet(q)
  <2>1. {0} \cup ToSet(q) \in SUBSET (0..MaxJobs) /\ {0} \cup ToSet(q) # {}
    BY <1>1, <1>4
  <2>2. /\ Max({0} \cup ToSet(q)) \in {0} \cup ToSet(q)
        /\ \A x \in {0} \cup ToSet(q) : x <= Max({0} \cup ToSet(q))
    BY <1>1, <2>1, MaxExists
  <2> QED
    BY <2>1, <2>2 DEF LastId
<1>10. ToSet(q) = Files \/ Len(q) = MaxHistory
  <2>1. CASE MaxHistory <= Cardinality(Files)
    BY <1>1, <1>6, <1>7, <2>1, MinOfTwo
  <2>2. CASE ~ (MaxHistory <= Cardinality(Files))
    <3>1. Len(q) = Cardinality(Files)
      BY <1>1, <1>6, <1>7, <2>2, MinOfTwo
    <3> QED
      BY <1>4, <1>7, <1>8, <3>1, FS_Subset
  <2> QED
    BY <2>1, <2>2
<1>11. ASSUME NEW i \in Files PROVE i <= LastId(q)
  <2> SUFFICES ASSUME ~ (i <= LastId(q)) PROVE FALSE
    OBVIOUS
  <2>1. i \notin ToSet(q) /\ i \in Jobs
    BY <1>1, <1>9
  <2>2. Len(q) = MaxHistory
    BY <1>10, <2>1
  <2>3. ASSUME NEW k \in ToSet(q) PROVE Second[k] = Second[i]
    <3>1. PICK a \in 1..Len(q) : q[a] = k
      BY <1>3 DEF ToSet
    <3>2. Second[i] <= Second[k]
      BY <1>6, <2>1, <3>1
    <3>3. k \in Jobs /\ k < i
      BY <1>1, <1>4, <1>9
    <3>4. Second[k] <= Second[i] /\ Second[k] \in Nat /\ Second[i] \in Nat
      BY <2>1, <3>3, ClockAssumption
    <3> QED
      BY <3>2, <3>4
  <2> DEFINE Ties == {k \in Jobs : Second[k] = Second[i]}
  <2>4. ToSet(q) \cup {i} \in SUBSET Ties
    BY <1>4, <2>1, <2>3
  <2>5. IsFiniteSet(Ties) /\ Cardinality(Ties) <= MaxHistory /\ Cardinality(Ties) \in Nat
    <3>1. IsFiniteSet(Ties)
      BY <1>7, FS_Subset
    <3>2. Cardinality(Ties) <= MaxHistory
      BY <2>1, ClockAssumption
    <3> QED
      BY <3>1, <3>2, FS_CardinalityType
  <2>6. Cardinality(ToSet(q) \cup {i}) = Len(q) + 1
    BY <1>8, <2>1, FS_AddElement
  <2>7. Cardinality(ToSet(q) \cup {i}) <= Cardinality(Ties)
    BY <2>4, <2>5, FS_Subset
  <2> QED
    BY <1>1, <2>2, <2>5, <2>6, <2>7
<1>12. ASSUME NEW a \in 1..Len(q), NEW b \in 1..Len(q), a < b
       PROVE  Second[q[a]] <= Second[q[b]]
  <2>1. a \in 1..(b - 1)
    BY <1>3, <1>12
  <2> QED
    BY <1>6, <2>1
<1>13. ToSet(q) \subseteq 1..LastId(q)
  BY <1>1, <1>4, <1>9
<1> QED
  BY <1>3, <1>4, <1>5, <1>9, <1>10, <1>11, <1>12, <1>13

\* A restart keeps the invariant.
LEMMA RestartInv ==
  ASSUME Inv, Restart
  PROVE  Inv'
<1>1. PICK q \in Loads : order' = q /\ n' = LastId(q)
  BY DEF Restart
<1>2. /\ q \in Seq(Jobs) /\ Len(q) \in Nat /\ Len(q) <= MaxHistory /\ IsInjective(q)
      /\ ToSet(q) \subseteq Files /\ ToSet(q) \subseteq 1..LastId(q)
      /\ LastId(q) \in 0..MaxJobs /\ \A i \in Files : i <= LastId(q)
      /\ \A a, b \in 1..Len(q) : a < b => Second[q[a]] <= Second[q[b]]
  BY <1>1, LoadFacts
<1>3. job \in [Jobs -> JobType] /\ disk \in [Jobs -> FileType] /\ KeepLines \in Nat
  BY HistoryAssumption, LogAssumption DEF Inv, TypeOK, CancelType, JobType, FileType
<1>4. \A i \in Jobs : LoadStatus(i) \in TERMINAL
  BY DEF LoadStatus, TERMINAL
<1>5. ASSUME NEW i \in Jobs
      PROVE  \/ /\ i \in ToSet(q)
                /\ disk'[i] = IF i \in unsaved' THEN disk[i] ELSE [disk[i] EXCEPT !.status = LoadStatus(i)]
                /\ job'[i] = [NoJob EXCEPT !.pc = "ended", !.status = LoadStatus(i),
                                           !.lines = disk[i].lines, !.final = disk[i].lines]
             \/ i \notin ToSet(q) /\ disk'[i] = disk[i] /\ job'[i] = NoJob
  BY <1>1 DEF Restart
<1>6. ASSUME NEW i \in Jobs
      PROVE  \/ /\ i \in ToSet(q)
                /\ disk'[i].status = IF i \in unsaved' THEN disk[i].status ELSE LoadStatus(i)
                /\ job'[i].pc = "ended" /\ job'[i].status = LoadStatus(i)
                /\ job'[i].lines = disk[i].lines /\ job'[i].final = disk[i].lines /\ disk[i].lines \in Nat
             \/ /\ i \notin ToSet(q) /\ disk'[i] = disk[i]
                /\ job'[i].pc = "none" /\ job'[i].status = "queued"
  <2>1. disk[i] \in FileType
    BY <1>3
  <2>2. CASE i \in ToSet(q)
    <3>1. disk'[i].status = IF i \in unsaved' THEN disk[i].status ELSE LoadStatus(i)
      BY <1>5, <2>1, <2>2 DEF FileType
    <3>2. /\ job'[i].pc = "ended" /\ job'[i].status = LoadStatus(i)
          /\ job'[i].lines = disk[i].lines /\ job'[i].final = disk[i].lines
      BY <1>5, <2>2 DEF NoJob
    <3> QED
      BY <1>3, <2>1, <2>2, <3>1, <3>2 DEF FileType
  <2>3. CASE i \notin ToSet(q)
    <3>1. disk'[i] = disk[i] /\ job'[i] = NoJob
      BY <1>5, <2>3
    <3>2. NoJob.pc = "none" /\ NoJob.status = "queued"
      BY DEF NoJob
    <3> QED
      BY <2>3, <3>1, <3>2
  <2> QED
    BY <2>2, <2>3
<1>7. \A i \in Jobs : ~ (job'[i].pc \notin {"none", "ended"})
  BY <1>6
<1>7a. /\ unsaved' \subseteq Failing
       /\ \A i \in unsaved' : i \in ToSet(q) /\ disk[i].status \notin TERMINAL
  BY <1>1 DEF Restart
<1>8. stream' \in [Streams -> StreamType] /\ \A s \in Streams : stream'[s] = NoStream
  <2>1. 1 \in Jobs /\ 0 \in 0..MaxLines /\ <<>> \in Seq(Nat)
    BY HistoryAssumption, LogAssumption DEF Jobs
  <2>2. NoStream \in StreamType
    BY <2>1 DEF NoStream, StreamType
  <2> QED
    BY <2>2 DEF Restart
<1>9. job' \in [Jobs -> JobType]
  <2>1. ASSUME NEW i \in Jobs PROVE job'[i] \in JobType
    <3>1. disk[i] \in FileType /\ LoadStatus(i) \in TERMINAL /\ disk[i].lines \in Nat
      BY <1>3, <1>4 DEF FileType
    <3>2. PICK st, l : st = LoadStatus(i) /\ l = disk[i].lines
      OBVIOUS
    <3>3. [NoJob EXCEPT !.pc = "ended", !.status = st, !.lines = l, !.final = l] \in JobType
      BY <3>1, <3>2 DEF NoJob, JobType, Pcs
    <3>4. NoJob \in JobType
      BY DEF NoJob, JobType, Pcs
    <3> QED
      BY <1>5, <3>2, <3>3, <3>4
  <2>2. job' = [i \in Jobs |-> job'[i]]
    BY DEF Restart
  <2> QED
    BY <2>1, <2>2
<1>10. disk' \in [Jobs -> FileType]
  <2>1. ASSUME NEW i \in Jobs PROVE disk'[i] \in FileType
    BY <1>3, <1>4, <1>5 DEF FileType
  <2>2. disk' = [i \in Jobs |-> disk'[i]]
    BY DEF Restart
  <2> QED
    BY <2>1, <2>2
<1>11. TypeOK'
  <2>1. cancels' = [cancels EXCEPT !.at = {}] /\ restarts' = restarts + 1 /\ restarts < MaxRestarts
    BY DEF Restart
  <2>6. cancels \in CancelType /\ restarts \in 0..MaxRestarts
    BY DEF Inv, TypeOK, CancelType
  <2>2. \A s \in Streams : /\ stream'[s].pc \in {"none", "open", "ended", "timeout"}
                           /\ stream'[s].job \in Jobs /\ stream'[s].idx \in 0..MaxLines
    BY <1>8 DEF StreamType
  <2>3. restarts' \in 0..MaxRestarts
    BY <2>1, <2>6, LogAssumption
  <2>4. cancels' \in CancelType
    BY <2>1, <2>6 DEF CancelType
  <2>5. /\ n' \in 0..MaxJobs /\ Len(order') <= MaxHistory /\ IsInjective(order')
        /\ ToSet(order') \subseteq 1..n'
        /\ \A a \in 1..Len(order'), b \in 1..Len(order') : a < b => Second[order'[a]] <= Second[order'[b]]
    BY <1>1, <1>2
  <2> QED
    BY <1>7a, <1>9, <1>10, <2>2, <2>3, <2>4, <2>5 DEF TypeOK, CancelType, JobType, FileType, IsInjective, ToSet
<1>12. Shapes'
  BY <1>1, <1>2, <1>8 DEF Shapes
<1>13. OrderOK'
  <2>2. \A i \in Jobs : ~ Alive(i)'
    BY <1>7 DEF Alive
  <2>4. \A a \in 1..Len(q) : q[a] \in Jobs
    BY <1>2
  <2>5. \A a \in 1..Len(q) : ~ Alive(q[a])'
    BY <2>2, <2>4
  <2> QED
    BY <1>1, <2>2, <2>5 DEF OrderOK, Alive
<1>14. ASSUME NEW i \in Jobs PROVE JobOK(i)'
  <2>1. (i \in ToSet(order))' <=> i \in ToSet(q)
    BY <1>1 DEF ToSet
  <2>2. CASE i \in ToSet(q)
    <3>1. ~ (i > n')
      BY <1>1, <1>2, <2>2
    <3>2. disk[i].status # "none" /\ (LoadStatus(i) # "interrupted" => disk[i].status \in TERMINAL)
      BY <1>2, <2>2 DEF Files, LoadStatus
    <3>3. i \in unsaved' => disk[i].status \notin TERMINAL /\ LoadStatus(i) = "interrupted"
      BY <1>7a DEF LoadStatus
    <3> QED
      BY <1>4, <1>6, <2>1, <2>2, <3>1, <3>2, <3>3 DEF JobOK, Alive, TERMINAL
  <2>3. CASE i \notin ToSet(q)
    <3>1. i > n' => disk[i].status = "none"
      <4>1. i \in Files => i <= LastId(q)
        BY <1>2
      <4>2. i \in Int /\ LastId(q) \in Int
        BY <1>2 DEF Jobs
      <4> QED
        BY <1>1, <4>1, <4>2 DEF Files
    <3> QED
      BY <1>6, <2>1, <2>3, <3>1 DEF JobOK, Alive, TERMINAL
  <2> QED
    BY <2>2, <2>3
<1>15. ASSUME NEW s \in Streams PROVE StreamOK(s)'
  BY <1>8 DEF StreamOK, Sound, NoStream
<1> QED
  BY <1>11, <1>12, <1>13, <1>14, <1>15 DEF Inv

-----------------------------------------------------------------------------
(* The invariant and what follows from it.                                 *)

\* The service starts in the invariant.
LEMMA InitInv ==
  ASSUME Init
  PROVE  Inv
<1>1. /\ 1 \in Jobs /\ 0 \in 0..MaxLines /\ 0 \in 0..KeepLines /\ 0 \in 0..MaxJobs
      /\ 0 \in 0..MaxCancels /\ 0 \in 0..MaxRestarts /\ MaxHistory \in Nat /\ unsaved \subseteq Failing
  BY HistoryAssumption, LogAssumption DEF Init, Jobs
<1>2. /\ job \in [Jobs -> JobType] /\ disk \in [Jobs -> FileType]
      /\ stream \in [Streams -> StreamType]
      /\ \A i \in Jobs : job[i].pc = "none" /\ job[i].status = "queued" /\ disk[i].status = "none"
      /\ \A s \in Streams : stream[s] = NoStream
  <2>1. NoJob \in JobType /\ NoJob.pc = "none" /\ NoJob.status = "queued"
    BY DEF NoJob, JobType, Pcs
  <2>2. NoFile \in FileType /\ NoFile.status = "none"
    BY <1>1 DEF NoFile, FileType
  <2>3. NoStream \in StreamType
    BY <1>1 DEF NoStream, StreamType
  <2> QED
    BY <2>1, <2>2, <2>3 DEF Init
<1>3. order = <<>> /\ Len(order) = 0 /\ ToSet(order) = {} /\ order \in Seq(Jobs) /\ IsInjective(order)
  BY DEF Init, ToSet, IsInjective
<1>4. TypeOK
  <2>1. cancels \in CancelType /\ restarts \in 0..MaxRestarts /\ n \in 0..MaxJobs
    BY <1>1 DEF Init, CancelType
  <2>2. \A s \in Streams : /\ stream[s].pc \in {"none", "open", "ended", "timeout"}
                           /\ stream[s].job \in Jobs /\ stream[s].idx \in 0..MaxLines
    BY <1>2 DEF StreamType
  <2> QED
    BY <1>1, <1>2, <1>3, <2>1, <2>2 DEF TypeOK, CancelType, JobType, FileType
<1>5. OrderOK
  BY <1>2, <1>3 DEF OrderOK, Alive
<1>6. \A i \in Jobs : JobOK(i)
  BY <1>2, <1>3 DEF JobOK, Alive, TERMINAL
<1>7. \A s \in Streams : StreamOK(s)
  BY <1>2 DEF StreamOK, Sound, NoStream
<1> QED
  BY <1>2, <1>3, <1>4, <1>5, <1>6, <1>7 DEF Inv, Shapes

\* Every step keeps the invariant.
LEMMA NextInv ==
  ASSUME Inv, [Next]_vars
  PROVE  Inv'
<1>1. ASSUME NEW j \in Jobs, ThreadStep(j) PROVE Inv'
  BY <1>1, FirstSaveInv, BeginInv, ReturnInv, RaiseInv, LogErrorInv, FinalSaveInv DEF ThreadStep
<1>2. ASSUME NEW j \in Jobs,
             \/ Submit(j) \/ TargetLogs(j) \/ AskCancel(j) \/ SetCancel(j)
             \/ \E s \in Streams : OpenStream(s, j)
      PROVE  Inv'
  BY <1>2, SubmitInv, TargetLogsInv, AskCancelInv, SetCancelInv, OpenStreamInv
<1>3. CASE \E s \in Streams : Poll(s)
  BY <1>3, PollInv
<1>4. CASE Restart
  BY <1>4, RestartInv
<1>5. CASE UNCHANGED vars
  <2>1. UNCHANGED <<job, order, n, disk, unsaved, cancels, stream, restarts>>
    BY <1>5 DEF vars
  <2>2. TypeOK' /\ Shapes'
    BY <2>1 DEF Inv, TypeOK, Shapes, IsInjective, ToSet
  <2>3. OrderOK' /\ \A i \in Jobs : JobOK(i)'
    BY <2>1 DEF Inv, OrderOK, JobOK, Alive, ToSet
  <2>4. \A s \in Streams : StreamOK(s)'
    BY <2>1 DEF Inv, StreamOK, Sound, ToSet
  <2> QED
    BY <2>2, <2>3, <2>4 DEF Inv
<1> QED
  BY <1>1, <1>2, <1>3, <1>4, <1>5 DEF Next

\* The invariant of the job runner: jobs, threads, files, the registry and the
\* streams agree in every reachable state.
THEOREM JobsInvariant == Spec => []Inv
BY InitInv, NextInv, PTL DEF Spec

\* Every variable holds a value of its kind, and the registry is in order and
\* within its limit, in every reachable state.
THEOREM JobsTyped == Spec => []TypeOK
BY JobsInvariant, PTL DEF Inv

\* A listed job that has no thread has an outcome, which a restart finds on disk
\* unless its save failed.
THEOREM HistoryStaysSaved == Spec => []HistoryIsSaved
<1>1. Inv => HistoryIsSaved
  <2> SUFFICES ASSUME Inv, NEW j \in ToSet(order), ~Alive(j)
               PROVE  /\ job[j].status \in TERMINAL
                      /\ \/ disk[j].status # "none" /\ LoadStatus(j) = job[j].status
                         \/ j \in unsaved /\ job[j].status # "interrupted"
    BY DEF HistoryIsSaved
  <2>1. j \in Jobs
    BY DEF Inv, Shapes, ToSet
  <2>2. JobOK(j)
    BY <2>1 DEF Inv
  <2>3. job[j].pc = "ended" /\ job[j].status \in TERMINAL
    BY <2>2 DEF JobOK, Alive
  <2>4. CASE j \notin unsaved
    <3>1. disk[j].status # "none" /\ disk[j].status = job[j].status
      BY <2>2, <2>3, <2>4 DEF JobOK
    <3> QED
      BY <2>3, <3>1 DEF LoadStatus
  <2>5. CASE j \in unsaved /\ job[j].status = "interrupted"
    BY <2>2, <2>3, <2>5 DEF JobOK, LoadStatus
  <2> QED
    BY <2>3, <2>4, <2>5
<1> QED
  BY <1>1, JobsInvariant, PTL

\* No stream repeats or reorders lines, and one that ends with its job has sent
\* all that was logged before the outcome.
THEOREM StreamsDoCoverLog == Spec => []StreamsCoverLog
<1>1. Inv => StreamsCoverLog
  <2> SUFFICES ASSUME Inv, NEW s \in Streams
               PROVE  LET sent == stream[s].sent  j == stream[s].job IN
                      /\ \A i \in 2..Len(sent) : sent[i - 1] < sent[i]
                      /\ stream[s].pc = "ended" /\ job[j].lines <= MaxLines
                           => 1..job[j].final \subseteq ToSet(sent)
    BY DEF StreamsCoverLog
  <2>1. PICK st : st = stream[s]
    OBVIOUS
  <2>2. Sound(st) /\ st \in StreamType
    BY <2>1 DEF Inv, StreamOK, Shapes
  <2>3. st.sent \in Seq(Nat) /\ Len(st.sent) \in Nat
    BY <2>2 DEF StreamType
  <2>4. ASSUME NEW i \in 2..Len(st.sent) PROVE st.sent[i - 1] < st.sent[i]
    <3>1. i - 1 \in 1..Len(st.sent) /\ i \in 1..Len(st.sent) /\ i - 1 < i
      BY <2>3
    <3> QED
      BY <2>2, <3>1 DEF Sound
  <2>5. st.pc = "ended" /\ job[st.job].lines <= MaxLines => 1..job[st.job].final \subseteq ToSet(st.sent)
    BY <2>2 DEF Sound
  <2> QED
    BY <2>1, <2>4, <2>5
<1> QED
  BY <1>1, JobsInvariant, PTL

-----------------------------------------------------------------------------
(* The life of a job.                                                      *)

\* The refinement mapping, job by job.
StateOf(j) ==
  IF disk[j].status \in TERMINAL THEN disk[j].status
  ELSE IF job[j].pc = "saving" THEN "submitted"
  ELSE IF Alive(j) THEN "active"
  ELSE IF j \in unsaved /\ job[j].status \in TERMINAL \ {"interrupted"} THEN "lost"
  ELSE IF disk[j].status # "none" THEN "interrupted"
  ELSE IF j <= n THEN "forgotten" ELSE "new"
States == [j \in Jobs |-> StateOf(j)]

\* The states of the jobs, before and after a step.
LEMMA StatesAre ==
  /\ DOMAIN States = Jobs /\ DOMAIN States' = Jobs
  /\ \A j \in Jobs : States[j] = StateOf(j) /\ States'[j] = StateOf(j)'
BY DEF States

\* What no state is: the life's own names for the states.
LEMMA LifeNames ==
  /\ Life!Finished = TERMINAL /\ Life!Outcomes = TERMINAL \ {"interrupted"}
  /\ {"new", "submitted", "active", "lost", "forgotten"} \cap TERMINAL = {}
BY DEF Life!Finished, Life!Outcomes, TERMINAL

\* Cardinality in the abstract specification is the one of this module.
LEMMA LifeCardinality == \A S : Life!Cardinality(S) = Cardinality(S)
BY DEF Life!Cardinality, Cardinality

\* The jobs that are not older than j.
NotOlder(j) ==
  {k \in Jobs \ {j} : Second[k] >= Second[j] /\ States[k] # "new"}

\* A job is old if their number is the limit of the history.
LEMMA LifeOld ==
  ASSUME NEW j \in Jobs
  PROVE  /\ Life!Old(j) <=> Cardinality(NotOlder(j)) >= MaxHistory
         /\ Life!Old(j)' <=> Cardinality(NotOlder(j)') >= MaxHistory
<1>1. Life!Old(j) <=> Life!Cardinality(NotOlder(j)) >= MaxHistory
  BY DEF Life!Old, States, StateOf, NotOlder
<1>2. Life!Old(j)' <=> Life!Cardinality(NotOlder(j)') >= MaxHistory
  BY DEF Life!Old, States, StateOf, NotOlder
<1> QED
  BY <1>1, <1>2, LifeCardinality

\* No job is known at the start.
LEMMA LifeInit == Init => Life!Init
<1> SUFFICES ASSUME Init PROVE States = [j \in Jobs |-> "new"]
  BY DEF Life!Init, States, StateOf, Init
<1>1. ASSUME NEW j \in Jobs PROVE StateOf(j) = "new"
  <2>1. job[j] = NoJob /\ disk[j] = NoFile /\ n = 0
    BY DEF Init
  <2>2. NoJob.pc = "none" /\ NoFile.status = "none" /\ j \in Int /\ ~ (j <= 0) /\ unsaved = {}
    BY DEF NoJob, NoFile, Jobs, Init
  <2> QED
    BY <2>1, <2>2 DEF StateOf, Alive, TERMINAL
<1> QED
  BY <1>1 DEF States

\* A step that no job's state shows.
LEMMA LifeStutter ==
  ASSUME \A i \in Jobs : StateOf(i)' = StateOf(i)
  PROVE  UNCHANGED States
BY DEF States

\* A step that leaves files, threads and the last id alone shows nothing.
LEMMA QuietStep ==
  ASSUME n' = n, unsaved' = unsaved,
         \A i \in Jobs : /\ disk'[i].status = disk[i].status
                         /\ \/ job'[i].pc = job[i].pc /\ job'[i].status = job[i].status
                            \/ /\ job[i].pc \notin {"none", "saving", "ended"}
                               /\ job'[i].pc \notin {"none", "saving", "ended"}
  PROVE  UNCHANGED <<States, unsaved>>
<1>1. \A i \in Jobs : StateOf(i)' = StateOf(i)
  BY DEF StateOf, Alive
<1> QED
  BY <1>1, LifeStutter

\* A step that changes the state of one job.
LEMMA OneState ==
  ASSUME NEW j \in Jobs, NEW e, StateOf(j)' = e, \A i \in Jobs \ {j} : StateOf(i)' = StateOf(i)
  PROVE  States' = [States EXCEPT ![j] = e]
BY DEF States

\* A save of one job, as the abstract specification sees it.
LEMMA SaveLife ==
  ASSUME Inv, NEW j \in Jobs, Save(j), n' = n, job \in [Jobs -> JobType],
         \A i \in Jobs \ {j} : job'[i] = job[i]
  PROVE  /\ \A i \in Jobs \ {j} : StateOf(i)' = StateOf(i)
         /\ IF j \in unsaved' THEN Life!NotSaved(j) /\ disk'[j] = disk[j]
                              ELSE Life!Saved(j) /\ disk'[j] = FileOf(j)
<1>1. disk \in [Jobs -> FileType]
  BY DEF Inv, TypeOK, FileType
<1>2. ASSUME NEW i \in Jobs \ {j}
      PROVE  disk'[i] = disk[i] /\ job'[i] = job[i] /\ (i \in unsaved' <=> i \in unsaved)
  BY <1>1 DEF Save
<1>3. ASSUME NEW i \in Jobs \ {j} PROVE StateOf(i)' = StateOf(i)
  BY <1>2 DEF StateOf, Alive
<1>4. IF j \in unsaved' THEN Life!NotSaved(j) /\ disk'[j] = disk[j]
                        ELSE Life!Saved(j) /\ disk'[j] = FileOf(j)
  BY <1>1 DEF Save, Life!NotSaved, Life!Saved
<1> QED
  BY <1>3, <1>4

\* The steps of a submit and of a thread are steps of the job's life.
LEMMA ThreadLife ==
  ASSUME Inv, Inv', NEW j \in Jobs, ThreadStep(j)
  PROVE  Life!Next \/ UNCHANGED <<States, unsaved>>
<1>1. job \in [Jobs -> JobType] /\ disk \in [Jobs -> FileType] /\ JobOK(j) /\ JobOK(j)'
  BY DEF Inv, TypeOK, JobType, FileType
<1>2. CASE FirstSave(j)
  <2>1. /\ job[j].pc = "saving" /\ n' = n /\ Save(j)
        /\ job' = [job EXCEPT ![j].pc = "started"]
    BY <1>2 DEF FirstSave
  <2>2. /\ job'[j].pc = "started"
        /\ \A i \in Jobs \ {j} : job'[i] = job[i]
    BY <1>1, <2>1 DEF JobType
  <2>3. StateOf(j) = "submitted"
    BY <1>1, <2>1 DEF JobOK, StateOf, TERMINAL
  <2>4. StateOf(j)' = "active"
    BY <1>1, <2>2 DEF JobOK, StateOf, Alive
  <2>5. /\ \A i \in Jobs \ {j} : StateOf(i)' = StateOf(i)
        /\ Life!Saved(j) \/ Life!NotSaved(j)
    BY <1>1, <2>1, <2>2, SaveLife
  <2>6. States[j] = "submitted" /\ States' = [States EXCEPT ![j] = "active"]
    BY <2>3, <2>4, <2>5, OneState, StatesAre
  <2>7. Life!Answer(j)
    BY <2>5, <2>6 DEF Life!Answer, States, StateOf
  <2> QED
    BY <2>7 DEF Life!Next
<1>3. CASE Begin(j)
  <2>1. /\ job[j].pc = "started" /\ n' = n /\ Save(j)
        /\ job' = [job EXCEPT ![j].pc = "target", ![j].status = "running"]
    BY <1>3 DEF Begin
  <2>2. /\ job'[j].pc = "target"
        /\ \A i \in Jobs \ {j} : job'[i] = job[i]
    BY <1>1, <2>1 DEF JobType
  <2>3. StateOf(j) = "active" /\ StateOf(j)' = "active"
    BY <1>1, <2>1, <2>2 DEF JobOK, StateOf, Alive
  <2>4. /\ \A i \in Jobs \ {j} : StateOf(i)' = StateOf(i)
        /\ Life!Saved(j) \/ Life!NotSaved(j)
    BY <1>1, <2>1, <2>2, SaveLife
  <2>5. States[j] = "active" /\ States' = States
    BY <2>3, <2>4, StatesAre DEF States
  <2>6. Life!Begin(j)
    BY <2>4, <2>5 DEF Life!Begin, States, StateOf
  <2> QED
    BY <2>6 DEF Life!Next
<1>4. CASE Return(j) \/ Raise(j) \/ LogError(j)
  <2>1. /\ job[j].pc \notin {"none", "saving", "ended"}
        /\ job'[j].pc \notin {"none", "saving", "ended"}
        /\ n' = n /\ disk' = disk /\ unsaved' = unsaved
        /\ \A i \in Jobs \ {j} : job'[i] = job[i]
    BY <1>1, <1>4 DEF Return, Raise, LogError, JobType
  <2> QED
    BY <2>1, QuietStep
<1>5. CASE FinalSave(j)
  <2>1. /\ job[j].pc = "ending" /\ n' = n /\ Save(j)
        /\ job' = [job EXCEPT ![j].pc = "ended"]
    BY <1>5 DEF FinalSave
  <2>2. /\ job'[j].pc = "ended" /\ job'[j].status = job[j].status
        /\ \A i \in Jobs \ {j} : job'[i] = job[i]
    BY <1>1, <2>1 DEF JobType
  <2>3. job[j].status \in TERMINAL \ {"interrupted"} /\ StateOf(j) = "active"
    BY <1>1, <2>1 DEF JobOK, Alive, StateOf
  <2>4. /\ \A i \in Jobs \ {j} : StateOf(i)' = StateOf(i)
        /\ IF j \in unsaved' THEN Life!NotSaved(j) /\ disk'[j] = disk[j]
                             ELSE Life!Saved(j) /\ disk'[j] = FileOf(j)
    BY <1>1, <2>1, <2>2, SaveLife
  <2>5. CASE j \in unsaved'
    <3>1. StateOf(j)' = "lost"
      BY <1>1, <2>1, <2>2, <2>3, <2>4, <2>5 DEF JobOK, StateOf, Alive
    <3>2. States[j] = "active" /\ States' = [States EXCEPT ![j] = "lost"]
      BY <2>3, <2>4, <3>1, OneState, StatesAre
    <3>3. Life!End(j)
      BY <2>4, <2>5, <3>2 DEF Life!End, States, StateOf
    <3> QED
      BY <3>3 DEF Life!Next
  <2>6. CASE j \notin unsaved'
    <3>1. disk'[j].status = job'[j].status
      BY <2>4, <2>6 DEF FileOf
    <3>2. StateOf(j)' = job[j].status
      BY <2>2, <2>3, <3>1 DEF StateOf
    <3>3. PICK e \in Life!Outcomes : e = job[j].status
      BY <2>3, LifeNames
    <3>4. States[j] = "active" /\ States' = [States EXCEPT ![j] = e]
      BY <2>3, <2>4, <3>2, <3>3, OneState, StatesAre
    <3>5. Life!End(j)
      BY <2>4, <2>6, <3>4 DEF Life!End, States, StateOf
    <3> QED
      BY <3>5 DEF Life!Next
  <2> QED
    BY <2>5, <2>6
<1> QED
  BY <1>2, <1>3, <1>4, <1>5 DEF ThreadStep

\* A submit: only an ended job is dropped, and a full registry of jobs that are
\* not older stays.
LEMMA SubmitLife ==
  ASSUME Inv, Inv', NEW j \in Jobs, Submit(j)
  PROVE  Life!Submit(j)
<1>1. /\ job \in [Jobs -> JobType] /\ n' = j /\ j = n + 1 /\ n \in Nat /\ Jobs = 1..MaxJobs
      /\ order \in Seq(Jobs) /\ MaxJobs \in Nat
  BY HistoryAssumption DEF Inv, TypeOK, Shapes, JobType, Submit, Jobs
<1>2. job'[j].pc = "saving" /\ \A i \in Jobs \ {j} : job'[i] = job[i]
  BY <1>1 DEF Submit, NoJob, JobType
<1>3. \A i \in Jobs : disk'[i] = IF i \in ToSet(order) \ ToSet(order') THEN NoFile ELSE disk[i]
  BY DEF Submit
<1>4. /\ ToSet(order') \subseteq ToSet(order) \cup {j} /\ j \in ToSet(order')
      /\ j \notin ToSet(order) /\ ToSet(order) \subseteq Jobs
      /\ \A i \in ToSet(order) \ ToSet(order') :
           Len(order) = MaxHistory /\ Len(order') = MaxHistory /\ i = order[1] /\ 1 \in 1..Len(order)
  BY SubmitKeeps
<1>5. StateOf(j) = "new"
  <2>1. JobOK(j) /\ j > n
    BY <1>1 DEF Inv
  <2>2. job[j].pc = "none" /\ disk[j].status = "none" /\ ~ (j <= n) /\ job[j].status \notin TERMINAL
    BY <1>1, <2>1 DEF JobOK
  <2> QED
    BY <2>2 DEF StateOf, Alive, TERMINAL
<1>6. StateOf(j)' = "submitted"
  <2>1. JobOK(j)'
    BY DEF Inv
  <2>2. disk'[j].status = "none"
    BY <1>2, <2>1 DEF JobOK
  <2> QED
    BY <1>2, <2>2 DEF StateOf, TERMINAL
<1>7. ASSUME NEW i \in Jobs \ {j}
      PROVE  \/ StateOf(i)' = StateOf(i)
             \/ StateOf(i) \in TERMINAL /\ StateOf(i)' = "forgotten" /\ Life!Old(i)'
  <2>1. (i <= n <=> i <= n') /\ job'[i] = job[i] /\ (i \in unsaved' <=> i \in unsaved)
    BY <1>1, <1>2 DEF Submit
  <2>2. CASE i \notin ToSet(order) \ ToSet(order')
    <3>1. disk'[i] = disk[i]
      BY <1>3, <2>2
    <3> QED
      BY <2>1, <3>1 DEF StateOf, Alive
  <2>3. CASE i \in ToSet(order) \ ToSet(order') /\ Alive(i)
    <3>1. disk'[i].status = "none" /\ disk[i].status \notin TERMINAL
      BY <1>3, <2>3 DEF NoFile, Inv, JobOK
    <3> QED
      BY <2>1, <2>3, <3>1 DEF StateOf, Alive, TERMINAL
  <2>4. CASE i \in ToSet(order) \ ToSet(order') /\ ~ Alive(i)
    <3>1. JobOK(i) /\ i <= n' /\ i <= n
      <4>1. ToSet(order) \subseteq 1..n
        BY DEF Inv, TypeOK
      <4> QED
        BY <1>1, <2>1, <2>4, <4>1 DEF Inv
    <3>2. job[i].pc = "ended" /\ job[i].status \in TERMINAL
      BY <2>4, <3>1 DEF JobOK, Alive
    <3>3. disk'[i].status = "none"
      BY <1>3, <2>4 DEF NoFile
    <3>a. CASE i \in unsaved /\ job[i].status # "interrupted"
      <4>1. StateOf(i) = "lost" /\ StateOf(i)' = "lost"
        BY <2>1, <3>1, <3>2, <3>3, <3>a DEF StateOf, JobOK, Alive, TERMINAL
      <4> QED
        BY <4>1
    <3> SUFFICES ASSUME i \notin unsaved \/ job[i].status = "interrupted"
                 PROVE  StateOf(i) \in TERMINAL /\ StateOf(i)' = "forgotten" /\ Life!Old(i)'
      BY <3>a
    <3>4. StateOf(i) \in TERMINAL /\ StateOf(i)' = "forgotten"
      <4>1. StateOf(i)' = "forgotten"
        BY <2>1, <3>1, <3>2, <3>3 DEF StateOf, Alive, TERMINAL
      <4>2. disk[i].status # "none" /\ (i \in unsaved \/ disk[i].status = job[i].status)
        BY <2>4, <3>1, <3>2 DEF JobOK
      <4>3. StateOf(i) \in TERMINAL
        BY <3>2, <4>2 DEF StateOf, Alive, TERMINAL
      <4> QED
        BY <4>1, <4>3
    <3>5. PICK q : q = order'
      OBVIOUS
    <3>6. /\ q \in Seq(Jobs) /\ IsInjective(q) /\ ToSet(q) \subseteq 1..n' /\ Len(q) = MaxHistory
          /\ i \notin ToSet(q)
      <4>1. order' \in Seq(Jobs)
        BY DEF Inv, Shapes
      <4>2. IsInjective(order)' /\ (ToSet(order) \subseteq 1..n)'
        BY DEF Inv, TypeOK
      <4>3. IsInjective(q)
        BY <3>5, <4>2 DEF IsInjective
      <4>4. ToSet(q) \subseteq 1..n'
        BY <3>5, <4>2 DEF ToSet
      <4> QED
        BY <1>4, <2>4, <3>5, <4>1, <4>3, <4>4
    <3>7. ASSUME NEW k \in ToSet(q)
          PROVE  k \in Jobs \ {i} /\ Second[k] >= Second[i] /\ States'[k] # "new"
      <4>1. k \in Jobs /\ k # i /\ k <= n'
        BY <1>1, <1>4, <3>5, <3>6
      <4>2. CASE k = j
        <5>1. i \in Jobs /\ i < j
          BY <1>1, <3>1
        <5>2. Second[i] <= Second[j] /\ Second[i] \in Nat /\ Second[j] \in Nat
          BY <5>1, ClockAssumption
        <5>3. States'[k] = "submitted"
          BY <1>6, <4>2, StatesAre
        <5> QED
          BY <4>1, <4>2, <5>2, <5>3
      <4>3. CASE k # j
        <5>1. k \in ToSet(order) /\ DOMAIN order = 1..Len(order) /\ Len(order) \in Nat
          BY <1>1, <1>4, <3>5, <4>3
        <5>2. PICK a \in 1..Len(order) : order[a] = k
          BY <5>1 DEF ToSet
        <5>3. i = order[1] /\ 1 \in 1..Len(order)
          BY <1>4, <2>4
        <5>4. 1 < a
          BY <4>1, <5>1, <5>2, <5>3
        <5>5. \A x \in 1..Len(order), y \in 1..Len(order) : x < y => Second[order[x]] <= Second[order[y]]
          BY DEF Inv, TypeOK
        <5>6. Second[i] <= Second[k]
          BY <5>2, <5>3, <5>4, <5>5
        <5>7. Second[i] \in Nat /\ Second[k] \in Nat
          BY <4>1, ClockAssumption
        <5>8. StateOf(k)' # "new"
          BY <4>1 DEF StateOf, TERMINAL
        <5> QED
          BY <4>1, <5>6, <5>7, <5>8, StatesAre
      <4> QED
        BY <4>2, <4>3
    <3>8. ASSUME NEW S, S = {k \in Jobs \ {i} : Second[k] >= Second[i] /\ States'[k] # "new"}
          PROVE  Cardinality(S) >= MaxHistory
      <4>1. IsFiniteSet(Jobs)
        BY <1>1, FS_Interval
      <4>2. IsFiniteSet(S)
        BY <3>8, <4>1, FS_Subset
      <4>3. ToSet(q) \in SUBSET S
        BY <3>7, <3>8
      <4>4. Cardinality(ToSet(q)) = MaxHistory
        BY <3>6, InjectiveCardinality
      <4>5. Cardinality(ToSet(q)) <= Cardinality(S) /\ Cardinality(S) \in Nat
        BY <4>2, <4>3, FS_Subset, FS_CardinalityType
      <4> QED
        BY <4>4, <4>5, HistoryAssumption
    <3>9. Cardinality({k \in Jobs \ {i} : Second[k] >= Second[i] /\ States'[k] # "new"}) >= MaxHistory
      BY <3>8
    <3>10. Life!Old(i)'
      BY <3>9, LifeOld DEF NotOlder
    <3> QED
      BY <3>4, <3>10
  <2> QED
    BY <2>2, <2>3, <2>4
<1>8. /\ States[j] = "new" /\ States'[j] = "submitted" /\ DOMAIN States' = Jobs
      /\ UNCHANGED unsaved
  BY <1>5, <1>6, StatesAre DEF Submit
<1>9. ASSUME NEW i \in Jobs \ {j}
      PROVE  \/ States'[i] = States[i]
             \/ States[i] \in Life!Finished /\ States'[i] = "forgotten" /\ Life!Old(i)'
  BY <1>7, StatesAre, LifeNames
<1> QED
  BY <1>8, <1>9 DEF Life!Submit, States, StateOf

\* A job that runs, was saved and has no file was evicted: the registry is full
\* of later jobs.
LEMMA EvictedIsOld ==
  ASSUME Inv, NEW j \in Jobs, Alive(j), job[j].pc # "saving", j \notin unsaved, disk[j].status = "none"
  PROVE  Cardinality(NotOlder(j)) >= MaxHistory
<1>1. order \in Seq(Jobs) /\ IsInjective(order) /\ ToSet(order) \subseteq 1..n /\ n \in Int
  BY HistoryAssumption DEF Inv, TypeOK, Shapes
<1>2. j \notin ToSet(order)
  BY DEF Inv, JobOK
<1>3. Len(order) = MaxHistory /\ \A k \in ToSet(order) : j < k
  BY <1>2 DEF Inv, OrderOK
<1>4. IsFiniteSet(ToSet(order)) /\ Cardinality(ToSet(order)) = MaxHistory /\ MaxHistory \in Nat
  BY <1>1, <1>3, InjectiveCardinality, HistoryAssumption
<1>5. IsFiniteSet(Jobs) /\ ToSet(order) \subseteq Jobs
  BY <1>1, HistoryAssumption, FS_Interval DEF Jobs, ToSet
<1>6. ToSet(order) \in SUBSET NotOlder(j)
  <2> SUFFICES ASSUME NEW k \in ToSet(order) PROVE k \in NotOlder(j)
    OBVIOUS
  <2>1. k \in Jobs /\ k # j /\ j < k /\ k <= n
    BY <1>1, <1>2, <1>3, <1>5
  <2>2. Second[j] <= Second[k] /\ Second[j] \in Nat /\ Second[k] \in Nat
    BY <2>1, ClockAssumption
  <2>3. States[k] # "new"
    <3>1. StateOf(k) # "new"
      BY <2>1 DEF StateOf, TERMINAL
    <3> QED
      BY <2>1, <3>1, StatesAre
  <2> QED
    BY <2>1, <2>2, <2>3 DEF NotOlder
<1>7. Cardinality(NotOlder(j)) >= MaxHistory
  <2>1. IsFiniteSet(NotOlder(j))
    BY <1>5, FS_Subset DEF NotOlder
  <2>2. Cardinality(ToSet(order)) <= Cardinality(NotOlder(j)) /\ Cardinality(NotOlder(j)) \in Nat
    BY <1>6, <2>1, FS_Subset, FS_CardinalityType
  <2> QED
    BY <1>4, <2>2
<1> QED
  BY <1>7

\* What a restart makes of the state of a job.
LEMMA RestartState ==
  ASSUME Inv, Restart, NEW j \in Jobs
  PROVE  /\ StateOf(j) \in {"submitted", "forgotten"} => StateOf(j)' \in Life!Gone
         /\ StateOf(j) = "active" =>
              \/ StateOf(j)' = "interrupted"
              \/ StateOf(j)' \in Life!Gone /\ (Life!Old(j) \/ j \in unsaved)
         /\ StateOf(j) = "lost" => StateOf(j)' \in Life!Gone \cup {"interrupted"}
         /\ StateOf(j) \notin {"submitted", "active", "lost", "forgotten"} => StateOf(j)' = StateOf(j)
         /\ j \in unsaved' => StateOf(j)' = "interrupted"
<1>1. PICK q \in Loads : order' = q /\ n' = LastId(q)
  BY DEF Restart
<1>2. /\ ToSet(q) \subseteq Files /\ LastId(q) \in Nat /\ \A i \in Files : i <= LastId(q)
      /\ LastId(q) = 0 \/ LastId(q) \in ToSet(q)
  BY <1>1, LoadFacts, HistoryAssumption
<1>3. disk \in [Jobs -> FileType] /\ JobOK(j) /\ n \in Nat
  BY HistoryAssumption DEF Inv, TypeOK, FileType
<1>3a. j \in unsaved' => j \in ToSet(q) /\ disk[j].status \notin TERMINAL /\ disk[j].status # "none"
  BY <1>1, <1>2 DEF Restart, Files
<1>4. \/ job'[j].pc = "ended" /\ job'[j].status = LoadStatus(j)
      \/ job'[j].pc = "none" /\ job'[j].status = "queued"
  <2>1. CASE j \in ToSet(q)
    <3>1. job'[j] = [NoJob EXCEPT !.pc = "ended", !.status = LoadStatus(j),
                                  !.lines = disk[j].lines, !.final = disk[j].lines]
      BY <1>1, <2>1 DEF Restart
    <3> QED
      BY <3>1 DEF NoJob
  <2>2. CASE j \notin ToSet(q)
    <3>1. job'[j] = NoJob
      BY <1>1, <2>2 DEF Restart
    <3> QED
      BY <3>1 DEF NoJob
  <2> QED
    BY <2>1, <2>2
<1>5. disk'[j].status = IF j \in ToSet(q) \ unsaved' THEN LoadStatus(j) ELSE disk[j].status
  <2>1. disk[j] \in FileType
    BY <1>3
  <2>2. disk'[j] = IF j \in ToSet(q) \ unsaved' THEN [disk[j] EXCEPT !.status = LoadStatus(j)] ELSE disk[j]
    BY <1>1 DEF Restart
  <2> QED
    BY <2>1, <2>2 DEF FileType
<1>6. StateOf(j)' = IF disk'[j].status \in TERMINAL THEN disk'[j].status
                    ELSE IF disk'[j].status # "none" THEN "interrupted"
                    ELSE IF j <= n' THEN "forgotten" ELSE "new"
  <2>1. ~ (j \in unsaved' /\ job'[j].status \in TERMINAL \ {"interrupted"})
    BY <1>3a, <1>4 DEF LoadStatus, TERMINAL
  <2> QED
    BY <1>4, <2>1 DEF StateOf, Alive
<1>7. j \in ToSet(q) => disk[j].status # "none"
  BY <1>2 DEF Files
<1>8. CASE disk[j].status \in TERMINAL
  <2>1. disk'[j].status = disk[j].status
    BY <1>5, <1>8 DEF LoadStatus
  <2>2. StateOf(j) = disk[j].status /\ StateOf(j)' = disk[j].status
    BY <1>6, <1>8, <2>1 DEF StateOf
  <2> QED
    BY <1>3a, <1>8, <2>2 DEF TERMINAL
<1>9. CASE disk[j].status \notin TERMINAL /\ disk[j].status # "none"
  <2>1. StateOf(j)' = "interrupted"
    BY <1>5, <1>6, <1>9 DEF LoadStatus, TERMINAL
  <2>2. job[j].pc # "saving"
    BY <1>3, <1>9 DEF JobOK
  <2>3. StateOf(j) \in {"active", "lost", "interrupted"}
    BY <1>9, <2>2 DEF StateOf
  <2> QED
    BY <2>1, <2>3
<1>10. CASE disk[j].status = "none"
  <2>1. disk'[j].status = "none" /\ j \notin unsaved'
    BY <1>3a, <1>5, <1>7, <1>10
  <2>2. StateOf(j)' = (IF j <= n' THEN "forgotten" ELSE "new") /\ StateOf(j)' \in Life!Gone
    BY <1>6, <2>1 DEF TERMINAL, Life!Gone
  <2>3. CASE job[j].pc = "saving"
    <3>1. StateOf(j) = "submitted"
      BY <1>10, <2>3 DEF StateOf, TERMINAL
    <3> QED
      BY <2>1, <2>2, <3>1
  <2>4. CASE job[j].pc # "saving" /\ Alive(j)
    <3>1. StateOf(j) = "active"
      BY <1>10, <2>4 DEF StateOf, TERMINAL
    <3>2. Life!Old(j) \/ j \in unsaved
      <4>1. j \notin unsaved => Cardinality(NotOlder(j)) >= MaxHistory
        BY <1>10, <2>4, EvictedIsOld
      <4> QED
        BY <4>1, LifeOld
    <3> QED
      BY <2>1, <2>2, <3>1, <3>2
  <2>5. CASE job[j].pc # "saving" /\ ~ Alive(j) /\ j <= n
    <3>1. StateOf(j) \in {"lost", "forgotten"}
      BY <1>10, <2>5 DEF StateOf, TERMINAL
    <3> QED
      BY <2>1, <2>2, <3>1
  <2>6. CASE job[j].pc # "saving" /\ ~ Alive(j) /\ ~ (j <= n)
    <3>1. StateOf(j) = "new"
      <4>1. j > n
        BY <1>3, <2>6 DEF Jobs
      <4>2. job[j].status \notin TERMINAL
        BY <1>3, <4>1 DEF JobOK
      <4> QED
        BY <1>10, <2>6, <4>2 DEF StateOf, TERMINAL
    <3>2. ~ (j <= n')
      <4>1. \A i \in Files : i <= n
        <5> SUFFICES ASSUME NEW i \in Files PROVE i <= n
          OBVIOUS
        <5>1. i \in Jobs /\ disk[i].status # "none" /\ i \in Int
          BY DEF Files, Jobs
        <5>2. JobOK(i)
          BY <5>1 DEF Inv
        <5> QED
          BY <1>3, <5>1, <5>2 DEF JobOK
      <4>2. LastId(q) <= n
        BY <1>2, <1>3, <4>1
      <4>3. j \in Int
        BY DEF Jobs
      <4> QED
        BY <1>1, <1>2, <1>3, <2>6, <4>2, <4>3
    <3> QED
      BY <2>1, <2>2, <3>1, <3>2
  <2> QED
    BY <2>3, <2>4, <2>5, <2>6
<1> QED
  BY <1>8, <1>9, <1>10

\* A restart of the service is a restart of the abstract specification.
LEMMA RestartLife ==
  ASSUME Inv, Inv', Restart
  PROVE  Life!Restart
<1>1. ASSUME NEW j \in Jobs
      PROVE  CASE States[j] = "submitted" -> States'[j] \in Life!Gone
               [] States[j] = "active" -> \/ States'[j] = "interrupted"
                                          \/ States'[j] \in Life!Gone /\ (Life!Old(j) \/ j \in unsaved)
               [] States[j] = "lost" -> States'[j] \in Life!Gone \cup {"interrupted"}
               [] States[j] = "forgotten" -> States'[j] \in Life!Gone
               [] OTHER -> States'[j] = States[j]
  <2>1. PICK old, new, gone : old = States[j] /\ new = States'[j] /\ gone = Life!Gone
    OBVIOUS
  <2>2. /\ old \in {"submitted", "forgotten"} => new \in gone
        /\ old = "active" => new = "interrupted" \/ (new \in gone /\ (Life!Old(j) \/ j \in unsaved))
        /\ old = "lost" => new \in gone \cup {"interrupted"}
        /\ old \notin {"submitted", "active", "lost", "forgotten"} => new = old
    BY <2>1, RestartState, StatesAre
  <2> QED
    BY <2>1, <2>2
<1>2. unsaved' \subseteq {j \in Jobs : States'[j] = "interrupted"}
  <2>1. unsaved' \subseteq Jobs
    BY HistoryAssumption DEF Inv, TypeOK
  <2>2. ASSUME NEW j \in unsaved' PROVE States'[j] = "interrupted"
    BY <2>1, RestartState, StatesAre
  <2> QED
    BY <2>1, <2>2
<1> QED
  BY <1>1, <1>2, StatesAre DEF Life!Restart, States, StateOf

\* Every step is a step of the jobs' lives or shows nothing.
LEMMA LifeNext == Inv /\ Inv' /\ [Next]_vars => Life!Next \/ UNCHANGED <<States, unsaved>>
<1> SUFFICES ASSUME Inv, Inv', [Next]_vars PROVE Life!Next \/ UNCHANGED <<States, unsaved>>
  OBVIOUS
<1>1. ASSUME NEW j \in Jobs, Submit(j) PROVE Life!Next
  BY <1>1, SubmitLife DEF Life!Next
<1>2. ASSUME NEW j \in Jobs, ThreadStep(j) PROVE Life!Next \/ UNCHANGED <<States, unsaved>>
  BY <1>2, ThreadLife
<1>3. ASSUME NEW j \in Jobs, TargetLogs(j) \/ SetCancel(j) PROVE UNCHANGED <<States, unsaved>>
  <2>1. job \in [Jobs -> JobType]
    BY DEF Inv, TypeOK, JobType
  <2>2. /\ n' = n /\ disk' = disk /\ unsaved' = unsaved
        /\ \A i \in Jobs : job'[i].pc = job[i].pc /\ job'[i].status = job[i].status
    BY <1>3, <2>1 DEF TargetLogs, SetCancel, JobType
  <2> QED
    BY <2>2, QuietStep
<1>4. ASSUME NEW j \in Jobs, AskCancel(j) \/ \E s \in Streams : OpenStream(s, j)
      PROVE  UNCHANGED <<States, unsaved>>
  <2>1. n' = n /\ disk' = disk /\ unsaved' = unsaved /\ job' = job
    BY <1>4 DEF AskCancel, OpenStream
  <2> QED
    BY <2>1, QuietStep
<1>5. ASSUME NEW s \in Streams, Poll(s) PROVE UNCHANGED <<States, unsaved>>
  <2>1. n' = n /\ disk' = disk /\ unsaved' = unsaved /\ job' = job
    BY <1>5 DEF Poll
  <2> QED
    BY <2>1, QuietStep
<1>6. CASE Restart
  BY <1>6, RestartLife DEF Life!Next
<1>7. CASE UNCHANGED vars
  BY <1>7, QuietStep DEF vars
<1> QED
  BY <1>1, <1>2, <1>3, <1>4, <1>5, <1>6, <1>7 DEF Next

\* The job runner implements the life of a job: one outcome that no restart
\* changes once it is saved; only old jobs and jobs whose save failed are
\* forgotten, and only their ids are given again.
THEOREM JobsKeepLife == Spec => KeepsLife
<1>1. Init => Life!Init
  BY LifeInit
<1>2. Inv /\ Inv' /\ [Next]_vars => Life!Next \/ UNCHANGED <<States, unsaved>>
  BY LifeNext
<1> QED
  BY <1>1, <1>2, JobsInvariant, PTL DEF Spec, KeepsLife, Life!Spec, Life!vars, States, StateOf
=============================================================================
