-------------------------- MODULE StoreUpdateProofs --------------------------
(***************************************************************************)
(* Proofs about StoreUpdate: types, what the manifest says, days left out. *)
(***************************************************************************)
EXTENDS StoreUpdate, TLAPS

\* A date said of a source is one the store has reached, or one that a run which
\* ended well reported.
Sound(s, date) == date <= store[s] \/ date \in claimed[s]

\* What an updater holds of the store is sound: store dates only grow, and those of a
\* scan become a record without being read again.
LocalSound(u) ==
  /\ \A s \in Sources : /\ Sound(s, up[u].copy[s])
                        /\ Sound(s, up[u].result[s])
                        /\ up[u].scan[s].store <= store[s]
                        /\ up[u].scan[s].raw <= raw[s]
  /\ up[u].pc = "fetch" => up[u].todo \subseteq Dated

\* Nothing is converted that is not there; the other sources are there or not.
StoreSound ==
  /\ \A s \in Dated : store[s] <= raw[s]
  /\ \A s \in Single : raw[s] <= 1 /\ store[s] <= 1
  /\ NothingElseIsLeftOut

\* The inductive invariant.
Inv ==
  /\ TypeOK
  /\ RecordsAreTrue
  /\ StoreSound
  /\ \A u \in Updaters : LocalSound(u)

\* Data are not taken back, and what was reported stays so until the store reaches it.
Grows ==
  \A s \in Sources : /\ store[s] <= store'[s] /\ raw[s] <= raw'[s]
                     /\ \A date \in claimed[s] : date \in claimed'[s] \/ date <= store'[s]

\* The types of the data.
DataOK ==
  /\ raw \in [Sources -> Dates] /\ store \in [Sources -> Dates]
  /\ missed \in [Sources -> SUBSET Days] /\ left \in [Sources -> SUBSET Days]
  /\ claimed \in [Sources -> SUBSET Dates]

\* The same after a step, of a date that is known before it.
SoundAfter(s, date) == date <= store'[s] \/ date \in claimed'[s]

\* What is sound stays so.
LEMMA SoundStays ==
  ASSUME DataOK, DataOK', Grows, NEW s \in Sources, NEW date \in Int, Sound(s, date)
  PROVE  SoundAfter(s, date)
<1>1. store[s] \in Int /\ store'[s] \in Int
  BY BoundAssumption DEF DataOK, Dates
<1>2. store[s] <= store'[s] /\ \A d \in claimed[s] : d \in claimed'[s] \/ d <= store'[s]
  BY DEF Grows
<1> QED
  BY <1>1, <1>2 DEF Sound, SoundAfter

\* Max of two numbers is the greater.
LEMMA MaxOfTwo ==
  ASSUME NEW a \in Int, NEW b \in Int
  PROVE  Max({a, b}) = IF a >= b THEN a ELSE b
<1>1. PICK m \in {a, b} : m = IF a >= b THEN a ELSE b
  OBVIOUS
<1>2. \A y \in {a, b} : m >= y
  BY <1>1
<1>3. \A x \in {a, b} : (\A y \in {a, b} : x >= y) => x = m
  BY <1>1
<1> QED
  BY <1>1, <1>2, <1>3 DEF Max

\* The dates of a state are integers.
LEMMA DateTypes ==
  ASSUME TypeOK, NEW s \in Sources
  PROVE  /\ store[s] \in Dates /\ raw[s] \in Dates /\ Dates \subseteq Int
         /\ \A d \in Dates : 0 <= d /\ d <= MaxDate
         /\ file.entries[s] \in Dates \cup {-1}
         /\ \A u \in Updaters : /\ up[u] \in Locals
                                /\ up[u].copy[s] \in Dates \cup {-1}
                                /\ up[u].result[s] \in Dates \cup {-1}
                                /\ up[u].scan[s].store \in Dates
                                /\ up[u].scan[s].raw \in Dates
<1>1. store[s] \in Dates /\ raw[s] \in Dates /\ file.entries[s] \in Dates \cup {-1}
  BY DEF TypeOK, Entries, NoEntry
<1>2. Dates \subseteq Int /\ \A d \in Dates : 0 <= d /\ d <= MaxDate
  BY BoundAssumption DEF Dates
<1>3. ASSUME NEW u \in Updaters
      PROVE  /\ up[u] \in Locals
             /\ up[u].copy[s] \in Dates \cup {-1} /\ up[u].result[s] \in Dates \cup {-1}
             /\ up[u].scan[s].store \in Dates /\ up[u].scan[s].raw \in Dates
  <2>1. up[u] \in Locals
    BY DEF TypeOK
  <2>2. up[u].scan[s] \in [raw : Dates, store : Dates]
    BY <2>1 DEF Locals
  <2> QED
    BY <2>1, <2>2 DEF Locals, Entries, NoEntry
<1> QED
  BY <1>1, <1>2, <1>3

\* What an updater holds that does not change stays sound.
LEMMA HeldStays ==
  ASSUME TypeOK, TypeOK', Grows, NEW u \in Updaters, LocalSound(u), NEW s \in Sources
  PROVE  /\ SoundAfter(s, up[u].copy[s]) /\ SoundAfter(s, up[u].result[s])
         /\ up[u].scan[s].store <= store'[s] /\ up[u].scan[s].raw <= raw'[s]
<1> DEFINE c == up[u].copy[s]
           r == up[u].result[s]
           ss == up[u].scan[s].store
           sr == up[u].scan[s].raw
<1>1. store[s] \in Int /\ raw[s] \in Int /\ c \in Int /\ r \in Int /\ ss \in Int /\ sr \in Int
  BY DateTypes
<1>2. store'[s] \in Int /\ raw'[s] \in Int /\ DataOK /\ DataOK'
  BY BoundAssumption DEF TypeOK, DataOK, Dates
<1>3. store[s] <= store'[s] /\ raw[s] <= raw'[s]
  BY DEF Grows
<1>4. Sound(s, c) /\ Sound(s, r) /\ ss <= store[s] /\ sr <= raw[s]
  BY DEF LocalSound
<1> HIDE DEF c, r, ss, sr
<1>5. ss <= store'[s] /\ sr <= raw'[s]
  BY <1>1, <1>2, <1>3, <1>4
<1>6. SoundAfter(s, c) /\ SoundAfter(s, r)
  BY <1>1, <1>2, <1>4, SoundStays
<1> QED
  BY <1>5, <1>6 DEF c, r, ss, sr

\* An updater whose dates stay is sound after the step.
LEMMA LocalStays ==
  ASSUME TypeOK, TypeOK', Grows, NEW u \in Updaters, LocalSound(u),
         up'[u].copy = up[u].copy, up'[u].result = up[u].result, up'[u].scan = up[u].scan,
         up'[u].pc = "fetch" => up'[u].todo \subseteq Dated
  PROVE  LocalSound(u)'
BY HeldStays DEF LocalSound, Sound, SoundAfter

\* A step of u leaves the others sound, as data only grow.
LEMMA OthersSound ==
  ASSUME TypeOK, TypeOK', Grows, NEW u \in Updaters,
         \A v \in Updaters : LocalSound(v),
         \A v \in Updaters \ {u} : up'[v] = up[v],
         LocalSound(u)'
  PROVE  \A v \in Updaters : LocalSound(v)'
<1> SUFFICES ASSUME NEW v \in Updaters, v # u PROVE LocalSound(v)'
  OBVIOUS
<1>1. up'[v] = up[v]
  OBVIOUS
<1>2. up[v].pc = "fetch" => up[v].todo \subseteq Dated
  BY DEF LocalSound
<1> QED
  BY <1>1, <1>2, LocalStays

\* A process that is idle is sound.
LEMMA IdleSound ==
  ASSUME TypeOK, NEW u \in Updaters, up[u] = Idle
  PROVE  LocalSound(u)
BY BoundAssumption DEF LocalSound, Sound, Idle, NoScan, NoEntries, NoEntry, TypeOK, Dates, Entries

\* The first state satisfies the invariant.
LEMMA InitInv == Init => Inv
<1> SUFFICES ASSUME Init PROVE Inv
  OBVIOUS
<1> USE BoundAssumption DEF Init
<1>1. Idle \in Locals
  BY DEF Idle, Locals, NoScan, NoEntries, NoEntry, Entries, Dates, Pcs
<1>2. TypeOK
  BY <1>1 DEF TypeOK, NoEntries, NoEntry, Entries, Dates, Days
<1>3. RecordsAreTrue
  BY DEF RecordsAreTrue, NoEntries, NoEntry
<1>4. StoreSound
  BY DEF StoreSound, Sources, NothingElseIsLeftOut
<1> QED
  BY <1>2, <1>3, <1>4, IdleSound DEF Inv

-----------------------------------------------------------------------------
(* What every step has in common.                                          *)

\* The types of what only remembers or counts.
HistoryOK ==
  /\ behind \subseteq Updaters /\ last \in Entries /\ exact \in BOOLEAN
  /\ updates \in 0..MaxUpdates

\* History variables and counts keep their types.
LEMMA RememberTypes ==
  ASSUME TypeOK, NEW u \in Updaters, Remember(u)
  PROVE  HistoryOK'
<1>1. up[u].copy \in Entries /\ last \in Entries
  BY DEF TypeOK, Locals
<1>2. NoEntries \in Entries
  BY DEF NoEntries, Entries
<1>3. last' \in Entries
  BY <1>1, <1>2 DEF Remember, Entries
<1>4. behind' \subseteq Updaters
  BY DEF Remember, TypeOK
<1>5. exact' \in BOOLEAN
  BY DEF Remember, TypeOK
<1>6. updates' \in 0..MaxUpdates
  BY DEF Remember, TypeOK
<1> QED
  BY <1>3, <1>4, <1>5, <1>6 DEF HistoryOK

\* The manifest file has its type.
FileOK == file \in [state : {"whole", "empty", "torn"}, entries : Entries]

\* A step of u to the local state l keeps the invariant if it keeps l, the data and
\* the file right.
LEMMA StepKeeps ==
  ASSUME Inv, NEW u \in Updaters, NEW l \in Locals, up' = [up EXCEPT ![u] = l],
         DataOK', Grows, StoreSound', lock' \in Updaters \cup {NoOne}, FileOK',
         file' = file \/ \A s \in Sources : SoundAfter(s, file'.entries[s]),
         HistoryOK', LocalSound(u)'
  PROVE  Inv'
<1>1. TypeOK' /\ DataOK
  BY DEF Inv, TypeOK, DataOK, FileOK, HistoryOK
<1>2. up'[u] = l /\ \A v \in Updaters \ {u} : up'[v] = up[v]
  BY DEF Inv, TypeOK
<1>3. RecordsAreTrue'
  <2>1. CASE file' = file
    <3> SUFFICES ASSUME NEW s \in Sources
                 PROVE  file.entries[s] <= store'[s] \/ file.entries[s] \in claimed'[s]
      BY <2>1 DEF RecordsAreTrue
    <3> DEFINE e == file.entries[s]
    <3>1. e \in Int
      BY DateTypes DEF Inv
    <3>2. Sound(s, e)
      BY DEF Inv, RecordsAreTrue, Sound
    <3> HIDE DEF e
    <3>3. e <= store'[s] \/ e \in claimed'[s]
      BY <1>1, <3>1, <3>2, SoundStays DEF SoundAfter
    <3> QED
      BY <3>3 DEF e
  <2> QED
    BY <2>1 DEF RecordsAreTrue, SoundAfter
<1>4. \A v \in Updaters : LocalSound(v)'
  BY <1>1, <1>2, OthersSound DEF Inv
<1> QED
  BY <1>1, <1>3, <1>4 DEF Inv

\* Data that stay are right, and grow by nothing.
LEMMA DataStay ==
  ASSUME Inv, UNCHANGED data
  PROVE  DataOK' /\ Grows /\ StoreSound'
<1>1. \A s \in Sources : store[s] \in Int /\ raw[s] \in Int
  BY DateTypes DEF Inv
<1> QED
  BY <1>1 DEF Inv, TypeOK, Grows, StoreSound, NothingElseIsLeftOut, data, DataOK

\* Data that stay keep what is said of them sound.
LEMMA SoundWhenStay ==
  ASSUME UNCHANGED data, NEW s, NEW date
  PROVE  SoundAfter(s, date) <=> Sound(s, date)
BY DEF data, Sound, SoundAfter

\* A file that stays has its type, as has a lock.
LEMMA FileStays ==
  ASSUME Inv
  PROVE  /\ file' = file => FileOK'
         /\ lock' = lock => lock' \in Updaters \cup {NoOne}
BY DEF Inv, TypeOK, FileOK

\* The data after a source is converted: days below the first one stay missed only if
\* they may be, and what is reported is claimed unless the store has reached it.
LEMMA ConvertKeeps ==
  ASSUME Inv, NEW s \in Sources, NEW first \in Int, NEW newest \in Dates, NEW out,
         NEW may \in BOOLEAN, NEW reported \in SUBSET Dates,
         store[s] <= newest, s \in Dated => newest <= raw'[s], s \in Single => newest <= 1,
         raw' \in [Sources -> Dates], \A z \in Sources : raw[z] <= raw'[z],
         \A z \in Single : raw'[z] <= 1,
         ~may => first <= store[s] + 1 /\ out = {},
         Convert(s, first, newest, out), Remark(s, may, reported)
  PROVE  /\ DataOK' /\ Grows /\ StoreSound'
         /\ store'[s] = newest
         /\ \A date \in reported : SoundAfter(s, date)
<1>1. \A z \in Sources : /\ store[z] \in Int /\ raw[z] \in Int /\ raw'[z] \in Int
                         /\ 0 <= store[z] /\ missed[z] \in SUBSET Days /\ left[z] \in SUBSET Days
                         /\ claimed[z] \in SUBSET Dates
  BY BoundAssumption DEF Inv, TypeOK, Dates
<1>2. /\ newest \in Int /\ 0 <= newest /\ newest <= MaxDate /\ MaxDate \in Int
      /\ \A d \in Dates : d \in Int
  BY BoundAssumption DEF Dates
<1>3. /\ store' \in [Sources -> Dates]
      /\ \A z \in Sources : store'[z] = IF z = s THEN newest ELSE store[z]
  BY DEF Convert, Inv, TypeOK
<1> DEFINE m == (missed[s] \cup ((store[s] + 1)..newest)) \ ((first..newest) \ out)
<1>4. m \in SUBSET Days /\ (~may => m \subseteq missed[s])
  <2>1. (store[s] + 1)..newest \subseteq Days
    BY <1>1, <1>2 DEF Days
  <2>2. ASSUME ~may PROVE m \subseteq missed[s]
    <3>1. first <= store[s] + 1 /\ out = {}
      BY <2>2
    <3>2. (store[s] + 1)..newest \subseteq first..newest
      BY <1>1, <1>2, <3>1
    <3> QED
      BY <3>1, <3>2
  <2> QED
    BY <1>1, <2>1, <2>2
<1>5. missed' = [missed EXCEPT ![s] = m]
  BY DEF Convert, Inv, TypeOK
<1> HIDE DEF m
<1>6. /\ missed' \in [Sources -> SUBSET Days]
      /\ \A z \in Sources : missed'[z] = IF z = s THEN m ELSE missed[z]
  BY <1>4, <1>5 DEF Inv, TypeOK
<1>7. /\ left' \in [Sources -> SUBSET Days]
      /\ \A z \in Sources : left'[z] = IF z # s THEN left[z] ELSE
                                        IF may THEN m ELSE left[s] \cap m
  BY <1>1, <1>4, <1>6 DEF Remark, Inv, TypeOK
<1> DEFINE cl == {date \in claimed[s] \cup reported : date > newest}
<1>8. /\ claimed' \in [Sources -> SUBSET Dates]
      /\ \A z \in Sources : claimed'[z] = IF z = s THEN cl ELSE claimed[z]
  <2>1. claimed' = [claimed EXCEPT ![s] = cl]
    BY <1>3 DEF Remark, Inv, TypeOK
  <2>2. cl \in SUBSET Dates
    BY <1>1
  <2> QED
    BY <2>1, <2>2 DEF Inv, TypeOK
<1>9. DataOK'
  BY <1>3, <1>6, <1>7, <1>8 DEF DataOK
<1>10. Grows
  <2> SUFFICES ASSUME NEW z \in Sources
               PROVE  /\ store[z] <= store'[z] /\ raw[z] <= raw'[z]
                      /\ \A date \in claimed[z] : date \in claimed'[z] \/ date <= store'[z]
    BY DEF Grows
  <2>1. store[z] <= store'[z]
    BY <1>1, <1>3
  <2>2. ASSUME NEW date \in claimed[z] PROVE date \in claimed'[z] \/ date <= store'[z]
    <3>1. date \in Dates
      BY <1>1
    <3>2. date \in Int
      BY <1>2, <3>1
    <3>3. CASE z = s
      <4>1. date > newest => date \in cl
        BY <3>3
      <4> HIDE DEF cl
      <4> QED
        BY <1>2, <1>3, <1>8, <3>2, <3>3, <4>1
    <3>4. CASE z # s
      BY <1>8, <3>4
    <3> QED
      BY <3>3, <3>4
  <2> QED
    BY <1>1, <2>1, <2>2
<1>11. StoreSound'
  <2>1. ASSUME NEW z \in Dated PROVE store'[z] <= raw'[z]
    <3>1. z \in Sources /\ store[z] <= raw[z]
      BY DEF Sources, Inv, StoreSound
    <3> QED
      BY <1>1, <1>2, <1>3, <3>1
  <2>2. ASSUME NEW z \in Single PROVE store'[z] <= 1
    <3>1. z \in Sources /\ store[z] <= 1
      BY DEF Sources, Inv, StoreSound
    <3> QED
      BY <1>3, <3>1
  <2>3. NothingElseIsLeftOut'
    BY <1>4, <1>6, <1>7 DEF NothingElseIsLeftOut, Inv, StoreSound
  <2> QED
    BY <2>1, <2>2, <2>3 DEF StoreSound
<1>12. ASSUME NEW date \in reported PROVE SoundAfter(s, date)
  <2>1. date \in Int
    BY <1>2
  <2>2. date \in claimed'[s] \/ ~(date > newest)
    BY <1>8
  <2> QED
    BY <1>2, <1>3, <2>1, <2>2 DEF SoundAfter
<1> QED
  BY <1>3, <1>9, <1>10, <1>11, <1>12

-----------------------------------------------------------------------------
(* The steps of an update.                                                 *)

\* An update starts, with sources to fetch that are dated.
LEMMA StartInv ==
  ASSUME Inv, NEW u \in Updaters, StartCron(u) \/ StartTab(u)
  PROVE  Inv'
<1>1. PICK items \in SUBSET Sources, pc \in {"plan", "fetch"}, todo \in SUBSET Sources :
        /\ up' = [up EXCEPT ![u].pc = pc, ![u].items = items, ![u].todo = todo]
        /\ pc = "fetch" => todo \subseteq Dated
  <2>1. CASE StartCron(u)
    <3>1. up[u].todo \in SUBSET Sources
      BY DEF Inv, TypeOK, Locals
    <3>2. up' = [up EXCEPT ![u].pc = "plan", ![u].items = Sources, ![u].todo = up[u].todo]
      BY <2>1, <3>1 DEF StartCron, Inv, TypeOK, Locals
    <3> QED
      BY <3>1, <3>2
  <2>2. CASE StartTab(u)
    <3>1. PICK items \in Selections, pc \in {"plan", "fetch"} :
            up' = [up EXCEPT ![u].pc = pc, ![u].items = items,
                             ![u].todo = IF pc = "fetch" THEN items \cap Dated ELSE {}]
      BY <2>2 DEF StartTab
    <3> DEFINE todo == IF pc = "fetch" THEN items \cap Dated ELSE {}
    <3>2. items \in SUBSET Sources /\ todo \in SUBSET Sources
      BY SourceAssumption
    <3>3. up' = [up EXCEPT ![u].pc = pc, ![u].items = items, ![u].todo = todo]
          /\ (pc = "fetch" => todo \subseteq Dated)
      BY <3>1
    <3> HIDE DEF todo
    <3> QED
      BY <3>2, <3>3
  <2> QED
    BY <2>1, <2>2
<1> DEFINE l == [up[u] EXCEPT !.pc = pc, !.items = items, !.todo = todo]
<1>2. /\ l \in Locals /\ up' = [up EXCEPT ![u] = l] /\ up'[u] = l
      /\ l.pc = pc /\ l.todo = todo /\ l.copy = up[u].copy /\ l.result = up[u].result
      /\ l.scan = up[u].scan
  BY <1>1, ZenonT(40) DEF Inv, TypeOK, Locals, Pcs
<1> HIDE DEF l
<1>3. UNCHANGED <<data, lock, file>>
  BY DEF StartCron, StartTab
<1>4. LocalSound(u)'
  BY <1>1, <1>2, <1>3 DEF LocalSound, Sound, Inv, data
<1>5. HistoryOK'
  <2>2. CASE StartCron(u)
    BY <2>2 DEF StartCron, Inv, TypeOK, HistoryOK
  <2>3. CASE StartTab(u)
    <3>1. /\ updates < MaxUpdates /\ updates' = updates + 1
          /\ UNCHANGED <<behind, last, exact>>
      BY <2>3 DEF StartTab
    <3>2. updates' \in 0..MaxUpdates
      BY <3>1, BoundAssumption DEF Inv, TypeOK
    <3> QED
      BY <3>1, <3>2 DEF Inv, TypeOK, HistoryOK
  <2> QED
    BY <2>2, <2>3
<1> QED
  BY <1>2, <1>3, <1>4, <1>5, FileStays, DataStay, StepKeeps

\* A fetch brings a dated source no further than its raw data.
LEMMA FetchInv ==
  ASSUME Inv, NEW u \in Updaters, Fetch(u), Remember(u)
  PROVE  Inv'
<1>1. up[u] \in Locals /\ up[u].pc = "fetch" /\ up[u].todo \subseteq Dated
      /\ up \in [Updaters -> Locals]
  BY DEF Inv, TypeOK, Fetch, LocalSound
<1>2. HistoryOK'
  BY RememberTypes DEF Inv
<1>3. UNCHANGED <<lock, file>>
  BY DEF Fetch
<1>4. CASE up[u].todo = {} /\ up' = [up EXCEPT ![u].pc = "plan"] /\ UNCHANGED data
  <2> DEFINE l == [up[u] EXCEPT !.pc = "plan"]
  <2>1. /\ l \in Locals /\ up' = [up EXCEPT ![u] = l] /\ up'[u] = l
        /\ l.pc = "plan" /\ l.copy = up[u].copy /\ l.result = up[u].result
        /\ l.scan = up[u].scan
    BY <1>1, <1>4 DEF Locals, Pcs
  <2> HIDE DEF l
  <2>2. LocalSound(u)'
    BY <1>4, <2>1 DEF LocalSound, Sound, Inv, data
  <2> QED
    BY <1>2, <1>3, <1>4, <2>1, <2>2, FileStays, DataStay, StepKeeps
<1>5. ASSUME NEW s \in up[u].todo, NEW fetched \in SUBSET Dated,
             up' = [up EXCEPT ![u].todo = @ \ {s}, ![u].fetched = fetched],
             DataOK', Grows, StoreSound'
      PROVE  Inv'
  <2> DEFINE l == [up[u] EXCEPT !.todo = @ \ {s}, !.fetched = fetched]
  <2>1. /\ l \in Locals /\ up' = [up EXCEPT ![u] = l] /\ up'[u] = l
        /\ l.pc = "fetch" /\ l.copy = up[u].copy /\ l.result = up[u].result
        /\ l.scan = up[u].scan /\ l.todo \subseteq Dated
    BY <1>1, <1>5 DEF Locals, Pcs
  <2> HIDE DEF l
  <2>2. TypeOK /\ TypeOK' /\ LocalSound(u)
    <3>1. lock' \in Updaters \cup {NoOne} /\ FileOK'
      BY <1>3, FileStays
    <3> QED
      BY <1>1, <1>2, <1>5, <2>1, <3>1 DEF Inv, TypeOK, DataOK, FileOK, HistoryOK
  <2>3. LocalSound(u)'
    BY <1>5, <2>1, <2>2, LocalStays
  <2> QED
    BY <1>2, <1>3, <1>5, <2>1, <2>3, FileStays, StepKeeps
<1>6. ASSUME NEW s \in up[u].todo, up' = [up EXCEPT ![u].todo = @ \ {s}], UNCHANGED data
      PROVE  Inv'
  <2>1. up' = [up EXCEPT ![u].todo = @ \ {s}, ![u].fetched = up[u].fetched]
    BY <1>1, <1>6 DEF Locals
  <2>2. up[u].fetched \in SUBSET Dated
    BY <1>1 DEF Locals
  <2> QED
    BY <1>5, <1>6, <2>1, <2>2, DataStay
<1>7. ASSUME NEW s \in up[u].todo, NEW newest \in raw[s]..MaxDate,
             NEW date \in {store[s]} \cup ((raw[s] + 1)..newest),
             raw' = [raw EXCEPT ![s] = newest],
             Convert(s, raw[s] + 1, date, {}), Remark(s, TRUE, {}),
             up' = [up EXCEPT ![u].todo = @ \ {s}, ![u].fetched = @ \cup {s}]
      PROVE  Inv'
  <2>1. s \in Dated /\ s \in Sources /\ s \notin Single
    BY <1>1, SourceAssumption DEF Sources
  <2>2. \A z \in Sources : /\ store[z] \in Int /\ raw[z] \in Int /\ 0 <= raw[z]
                           /\ raw[z] <= MaxDate /\ store[z] \in Dates
    BY DateTypes DEF Inv
  <2>3. store[s] <= raw[s] /\ MaxDate \in Int
    BY <2>1, BoundAssumption DEF Inv, StoreSound
  <2>4. newest \in Dates /\ newest \in Int /\ raw[s] <= newest
    BY <2>1, <2>2, <2>3 DEF Dates
  <2>5. date \in Dates /\ store[s] <= date /\ date <= newest
    BY <2>1, <2>2, <2>3, <2>4 DEF Dates
  <2>6. raw' \in [Sources -> Dates] /\ \A z \in Sources : raw'[z] = IF z = s THEN newest ELSE raw[z]
    BY <1>7, <2>4 DEF Inv, TypeOK
  <2>7. \A z \in Sources : raw[z] <= raw'[z]
    BY <2>2, <2>4, <2>6
  <2>8. \A z \in Single : raw'[z] <= 1
    BY <2>1, <2>6 DEF Inv, StoreSound, Sources
  <2>9. raw[s] + 1 \in Int /\ date <= raw'[s]
    BY <2>1, <2>2, <2>5, <2>6
  <2>10. DataOK' /\ Grows /\ StoreSound'
    BY <1>7, <2>1, <2>5, <2>6, <2>7, <2>8, <2>9, ConvertKeeps
  <2>11. up[u].fetched \cup {s} \in SUBSET Dated
    BY <1>1, <2>1 DEF Locals
  <2> QED
    BY <1>5, <1>7, <2>10, <2>11
<1> QED
  BY <1>1, <1>4, <1>6, <1>7 DEF Fetch

\* The scan is what there is, and a skip records the store date of the scan.
LEMMA PlanInv ==
  ASSUME Inv, NEW u \in Updaters, Plan(u), Remember(u)
  PROVE  Inv'
<1>1. PICK will \in SUBSET Sources :
        up' = [up EXCEPT ![u].pc = "load", ![u].items = {}, ![u].todo = will,
                 ![u].scan = [s \in Sources |-> IF s \in will THEN [raw |-> raw[s], store |-> store[s]]
                                                              ELSE NoScan[s]],
                 ![u].result = [s \in Sources |->
                                  IF s \in up[u].items \ will THEN store[s] ELSE NoEntry]]
  <2>1. PICK force \in BOOLEAN : LET will == WillRun(up[u].items, force) IN
          up' = [up EXCEPT ![u].pc = "load", ![u].items = {}, ![u].todo = will,
                 ![u].scan = [s \in Sources |-> IF s \in will THEN [raw |-> raw[s], store |-> store[s]]
                                                              ELSE NoScan[s]],
                 ![u].result = [s \in Sources |->
                                  IF s \in up[u].items \ will THEN store[s] ELSE NoEntry]]
    BY DEF Plan
  <2>2. up[u].items \in SUBSET Sources
    BY DEF Inv, TypeOK, Locals
  <2>3. WillRun(up[u].items, force) \in SUBSET Sources
    BY <2>2 DEF WillRun
  <2> QED
    BY <2>1, <2>3
<1> DEFINE scan == [s \in Sources |-> IF s \in will THEN [raw |-> raw[s], store |-> store[s]]
                                                    ELSE NoScan[s]]
           result == [s \in Sources |-> IF s \in up[u].items \ will THEN store[s] ELSE NoEntry]
           l == [up[u] EXCEPT !.pc = "load", !.items = {}, !.todo = will, !.scan = scan,
                              !.result = result]
<1>2. \A s \in Sources : store[s] \in Dates /\ raw[s] \in Dates /\ 0 <= store[s] /\ 0 <= raw[s]
                         /\ store[s] \in Int /\ raw[s] \in Int
  BY DateTypes DEF Inv
<1>3. 0 \in Dates
  BY BoundAssumption DEF Dates
<1>4. scan \in [Sources -> [raw : Dates, store : Dates]]
  BY <1>2, <1>3 DEF NoScan
<1>5. result \in Entries
  BY <1>2 DEF Entries
<1>6. \A s \in Sources : scan[s].raw <= raw[s] /\ scan[s].store <= store[s] /\ Sound(s, result[s])
  BY <1>2 DEF NoScan, NoEntry, Sound
<1> HIDE DEF scan, result
<1>7. /\ l \in Locals /\ up' = [up EXCEPT ![u] = l] /\ up'[u] = l
      /\ l.pc = "load" /\ l.copy = up[u].copy /\ l.result = result /\ l.scan = scan
  <2>1. up' = [up EXCEPT ![u].pc = "load", ![u].items = {}, ![u].todo = will,
                         ![u].scan = scan, ![u].result = result]
    BY <1>1 DEF scan, result
  <2>2. up[u] \in Locals /\ up \in [Updaters -> Locals]
    BY DEF Inv, TypeOK
  <2> QED
    BY <1>4, <1>5, <2>1, <2>2 DEF Locals, Pcs
<1> HIDE DEF l
<1>8. UNCHANGED <<data, lock, file>>
  BY DEF Plan
<1>9. LocalSound(u)'
  BY <1>6, <1>7, <1>8 DEF LocalSound, Sound, Inv, data
<1>10. HistoryOK'
  BY RememberTypes DEF Inv
<1> QED
  BY <1>7, <1>8, <1>9, <1>10, FileStays, DataStay, StepKeeps

\* A manifest in which sound results are recorded is sound.
LEMMA RecordedSound ==
  ASSUME NEW e \in Entries, NEW r \in Entries,
         \A s \in Sources : Sound(s, e[s]) /\ Sound(s, r[s])
  PROVE  /\ Recorded(e, r) \in Entries
         /\ \A s \in Sources : Sound(s, Recorded(e, r)[s])
BY DEF Recorded, Entries

\* So is an empty one.
LEMMA EmptyIsSound ==
  ASSUME Inv
  PROVE  NoEntries \in Entries /\ \A s \in Sources : Sound(s, NoEntries[s])
BY DateTypes DEF Inv, Sound, NoEntries, NoEntry, Entries

\* So is the manifest as it is loaded, also when the file is not whole.
LEMMA LoadedSound ==
  ASSUME Inv
  PROVE  /\ LoadedEntries \in Entries
         /\ \A s \in Sources : Sound(s, LoadedEntries[s]) /\ LoadedEntries[s] \in Dates \cup {-1}
<1>1. NoEntries \in Entries /\ file.entries \in Entries
  BY DEF NoEntries, Entries, Inv, TypeOK
<1>2. \A s \in Sources : Sound(s, file.entries[s])
  BY DEF Inv, RecordsAreTrue, Sound
<1> QED
  BY <1>1, <1>2, EmptyIsSound DEF LoadedEntries, Entries, NoEntry

\* The manifest is loaded.
LEMMA LoadInv ==
  ASSUME Inv, NEW u \in Updaters, Load(u), Remember(u)
  PROVE  Inv'
<1> DEFINE copy == Recorded(LoadedEntries, up[u].result)
<1>0. up[u] \in Locals /\ up \in [Updaters -> Locals]
  BY DEF Inv, TypeOK
<1>1. /\ copy \in Entries /\ LoadedEntries \in Entries
      /\ \A s \in Sources : Sound(s, copy[s]) /\ Sound(s, LoadedEntries[s])
  <2>1. up[u].result \in Entries /\ \A s \in Sources : Sound(s, up[u].result[s])
    BY <1>0 DEF Inv, Locals, LocalSound
  <2> QED
    BY <2>1, LoadedSound, RecordedSound
<1>2. UNCHANGED <<data, lock, file>>
  BY DEF Load
<1>3. HistoryOK'
  BY RememberTypes DEF Inv
<1> HIDE DEF copy
<1>4. ASSUME NEW c \in Entries, NEW pc \in {"save", "lock"}, \A s \in Sources : Sound(s, c[s]),
             up' = [up EXCEPT ![u].pc = pc, ![u].copy = c]
      PROVE  Inv'
  <2> DEFINE l == [up[u] EXCEPT !.pc = pc, !.copy = c]
  <2>1. /\ l \in Locals /\ up' = [up EXCEPT ![u] = l] /\ up'[u] = l
        /\ l.pc = pc /\ l.copy = c /\ l.result = up[u].result /\ l.scan = up[u].scan
    BY <1>0, <1>4 DEF Locals, Pcs
  <2> HIDE DEF l
  <2>2. LocalSound(u)'
    BY <1>2, <1>4, <2>1 DEF LocalSound, Sound, Inv, data
  <2> QED
    BY <1>2, <1>3, <2>1, <2>2, FileStays, DataStay, StepKeeps
<1> QED
  BY <1>1, <1>4 DEF Load, copy

\* The local state of an idle updater.
LEMMA IdleLocal ==
  /\ Idle \in Locals /\ Idle.pc = "idle" /\ Idle.copy = NoEntries
  /\ Idle.result = NoEntries /\ Idle.scan = NoScan
BY BoundAssumption DEF Idle, Locals, NoScan, NoEntries, NoEntry, Entries, Dates, Pcs

\* An updater that holds no dates is sound.
LEMMA EmptySound ==
  ASSUME Inv, NEW u \in Updaters, UNCHANGED data, up'[u].pc # "fetch",
         up'[u].copy = NoEntries, up'[u].result = NoEntries, up'[u].scan = NoScan
  PROVE  LocalSound(u)'
<1>1. \A s \in Sources : store[s] \in Int /\ 0 <= store[s] /\ raw[s] \in Int /\ 0 <= raw[s]
  BY DateTypes DEF Inv
<1> QED
  BY <1>1 DEF LocalSound, Sound, NoEntries, NoEntry, NoScan, data

\* The lock is taken, or the update fails.
LEMMA LockInv ==
  ASSUME Inv, NEW u \in Updaters, Lock(u), Remember(u)
  PROVE  Inv'
<1>1. up[u] \in Locals /\ up \in [Updaters -> Locals]
  BY DEF Inv, TypeOK
<1>2. UNCHANGED <<data, file>>
  BY DEF Lock
<1>3. HistoryOK'
  BY RememberTypes DEF Inv
<1>4. CASE lock = NoOne
  <2> DEFINE l == [up[u] EXCEPT !.pc = "convert"]
  <2>1. lock' = u /\ up' = [up EXCEPT ![u].pc = "convert"]
    BY <1>4 DEF Lock
  <2>2. /\ l \in Locals /\ up' = [up EXCEPT ![u] = l] /\ up'[u] = l
        /\ l.pc = "convert" /\ l.copy = up[u].copy /\ l.result = up[u].result
        /\ l.scan = up[u].scan
    BY <1>1, <2>1 DEF Locals, Pcs
  <2> HIDE DEF l
  <2>3. LocalSound(u)'
    BY <1>2, <2>2 DEF LocalSound, Sound, Inv, data
  <2> QED
    BY <1>2, <1>3, <2>1, <2>2, <2>3, FileStays, DataStay, StepKeeps
<1>5. CASE lock # NoOne
  <2>1. UNCHANGED lock /\ up' = [up EXCEPT ![u] = Idle]
    BY <1>5 DEF Lock
  <2>2. up'[u] = Idle
    BY <1>1, <2>1
  <2>3. LocalSound(u)'
    BY <1>2, <2>2, IdleLocal, EmptySound
  <2> QED
    BY <1>2, <1>3, <2>1, <2>3, IdleLocal, FileStays, DataStay, StepKeeps
<1> QED
  BY <1>4, <1>5

\* One source has run, and what is recorded of it is sound.
LEMMA RanInv ==
  ASSUME Inv, NEW u \in Updaters, Remember(u), up[u].pc = "convert", UNCHANGED <<lock, file>>,
         NEW s \in Sources, NEW date \in Dates, DataOK', Grows, StoreSound',
         SoundAfter(s, date), Ran(u, s, date)
  PROVE  Inv'
<1> DEFINE res == [up[u].result EXCEPT ![s] = date]
           sc == [up[u].scan EXCEPT ![s] = NoScan[s]]
           l == [up[u] EXCEPT !.todo = @ \ {s}, !.result = res, !.scan = sc]
<1>1. up[u] \in Locals /\ up \in [Updaters -> Locals]
  BY DEF Inv, TypeOK
<1>2. res \in Entries /\ \A z \in Sources : res[z] = IF z = s THEN date ELSE up[u].result[z]
  BY <1>1 DEF Locals, Entries
<1>3. /\ sc \in [Sources -> [raw : Dates, store : Dates]]
      /\ \A z \in Sources : sc[z] = IF z = s THEN NoScan[s] ELSE up[u].scan[z]
  <2>1. NoScan[s] \in [raw : Dates, store : Dates]
    BY BoundAssumption DEF NoScan, Dates
  <2> QED
    BY <1>1, <2>1 DEF Locals
<1>4. up' = [up EXCEPT ![u].todo = @ \ {s}, ![u].result = res, ![u].scan = sc]
  BY <1>1 DEF Locals, Ran
<1> HIDE DEF res, sc
<1>5. /\ l \in Locals /\ up' = [up EXCEPT ![u] = l] /\ up'[u] = l
      /\ l.pc = "convert" /\ l.copy = up[u].copy /\ l.result = res /\ l.scan = sc
  BY <1>1, <1>2, <1>3, <1>4 DEF Locals, Pcs
<1> HIDE DEF l
<1>6. HistoryOK'
  BY RememberTypes DEF Inv
<1>7. /\ TypeOK' /\ TypeOK /\ LocalSound(u)
      /\ lock' \in Updaters \cup {NoOne} /\ FileOK'
  <2>1. lock' \in Updaters \cup {NoOne} /\ FileOK'
    BY FileStays
  <2>2. up' \in [Updaters -> Locals]
    BY <1>1, <1>5
  <2> QED
    BY <1>6, <2>1, <2>2 DEF Inv, TypeOK, DataOK, FileOK, HistoryOK
<1>8. LocalSound(u)'
  <2> SUFFICES ASSUME NEW z \in Sources
               PROVE  /\ SoundAfter(z, up[u].copy[z]) /\ SoundAfter(z, res[z])
                      /\ sc[z].store <= store'[z] /\ sc[z].raw <= raw'[z]
    BY <1>5 DEF LocalSound, Sound, SoundAfter
  <2>2. store'[z] \in Dates /\ raw'[z] \in Dates /\ \A d \in Dates : 0 <= d
    BY BoundAssumption DEF DataOK, Dates
  <2> QED
    BY <1>2, <1>3, <1>7, <2>2, HeldStays DEF NoScan
<1> QED
  BY <1>5, <1>6, <1>7, <1>8, StepKeeps

\* What a conversion knows of its source.
LEMMA ConvertFacts ==
  ASSUME Inv, NEW u \in Updaters, NEW s \in Sources, Turn(u, s)
  PROVE  /\ up[u].pc = "convert" /\ store[s] \in Int /\ raw[s] \in Int
         /\ store[s] \in Dates /\ raw[s] \in Dates
         /\ up[u].scan[s].store \in Dates /\ up[u].scan[s].raw \in Dates
         /\ up[u].scan[s].store \in Int /\ up[u].scan[s].raw \in Int
         /\ up[u].scan[s].store <= store[s] /\ up[u].scan[s].raw <= raw[s]
         /\ \A newest \in store[s]..Available(s) :
              newest \in Dates /\ store[s] <= newest /\ (s \in Dated => newest <= raw[s])
              /\ (s \in Single => newest <= 1)
         /\ store[s] <= Available(s) /\ Available(s) \in Int
         /\ raw \in [Sources -> Dates] /\ \A z \in Sources : raw[z] <= raw[z]
         /\ \A z \in Single : raw[z] <= 1
<1>1. /\ store[s] \in Dates /\ raw[s] \in Dates /\ Dates \subseteq Int
      /\ \A d \in Dates : 0 <= d /\ d <= MaxDate
      /\ up[u].scan[s].store \in Dates /\ up[u].scan[s].raw \in Dates
  BY DateTypes DEF Inv
<1>2. /\ up[u].scan[s].store <= store[s] /\ up[u].scan[s].raw <= raw[s]
      /\ s \in Dated => store[s] <= raw[s]
      /\ s \in Single => store[s] <= 1
      /\ \A z \in Single : raw[z] <= 1
  BY DEF Inv, LocalSound, StoreSound
<1>3. s \in Dated \/ s \in Single
  BY DEF Sources
<1>4. /\ Available(s) = IF s \in Dated THEN raw[s] ELSE 1
      /\ s \in Dated => s \notin Single
  BY SourceAssumption DEF Available
<1>5. store[s] <= Available(s) /\ Available(s) \in Int /\ Available(s) <= MaxDate
  <2>1. CASE s \in Dated
    BY <1>1, <1>2, <1>4, <2>1
  <2>2. CASE s \notin Dated
    <3>1. Available(s) = 1 /\ store[s] <= 1
      BY <1>2, <1>3, <1>4, <2>2
    <3>2. 1 <= MaxDate
      BY BoundAssumption
    <3> QED
      BY <3>1, <3>2
  <2> QED
    BY <2>1, <2>2
<1>6. ASSUME NEW newest \in store[s]..Available(s)
      PROVE  /\ newest \in Dates /\ store[s] <= newest /\ (s \in Dated => newest <= raw[s])
             /\ (s \in Single => newest <= 1)
  <2>1. newest \in Int /\ store[s] <= newest /\ newest <= Available(s)
    BY <1>1, <1>5
  <2>2. newest <= MaxDate /\ 0 <= newest
    <3>1. store[s] \in Int /\ 0 <= store[s]
      BY <1>1
    <3>2. MaxDate \in Int
      BY BoundAssumption
    <3>3. Available(s) \in Int /\ Available(s) <= MaxDate
      BY <1>5
    <3> QED
      BY <2>1, <3>1, <3>2, <3>3
  <2>3. newest \in Dates
    BY <2>1, <2>2, BoundAssumption DEF Dates
  <2> QED
    BY <1>3, <1>4, <2>1, <2>3
<1>7. raw \in [Sources -> Dates] /\ \A z \in Sources : raw[z] <= raw[z]
  BY DateTypes DEF Inv, TypeOK
<1>8. up[u].pc = "convert"
  BY DEF Turn
<1> QED
  BY <1>1, <1>2, <1>5, <1>6, <1>7, <1>8

\* A run that ended well is recorded with a date the store has reached, or that is
\* claimed; one that failed with the store date of the plan.
LEMMA ConvertInv ==
  ASSUME Inv, NEW u \in Updaters, NEW s \in Sources, Remember(u),
         ConvertOk(u, s) \/ ConvertSome(u, s) \/ ConvertError(u, s)
  PROVE  Inv'
<1>1. Turn(u, s) /\ UNCHANGED <<raw, lock, file>>
  BY DEF ConvertOk, ConvertSome, ConvertError
<1>2. up[u].pc = "convert"
  BY <1>1, ConvertFacts
<1>3. ASSUME NEW first \in Int, NEW newest \in store[s]..Available(s), NEW out,
             NEW may \in BOOLEAN, NEW reported \in SUBSET Dates,
             ~may => first <= store[s] + 1 /\ out = {},
             Convert(s, first, newest, out), Remark(s, may, reported)
      PROVE  /\ DataOK' /\ Grows /\ StoreSound'
             /\ store'[s] = newest
             /\ \A date \in reported : SoundAfter(s, date)
  <2>1. /\ newest \in Dates /\ store[s] <= newest /\ (s \in Dated => newest <= raw[s])
        /\ (s \in Single => newest <= 1)
    BY <1>1, ConvertFacts
  <2>2. /\ raw' \in [Sources -> Dates] /\ \A z \in Sources : raw[z] <= raw'[z]
        /\ \A z \in Single : raw'[z] <= 1
    BY <1>1, ConvertFacts
  <2>3. s \in Dated => newest <= raw'[s]
    BY <1>1, <2>1
  <2> QED
    BY <1>3, <2>1, <2>2, <2>3, ConvertKeeps
<1> DEFINE scanned == up[u].scan[s].store
<1>4. /\ scanned \in Dates /\ scanned \in Int /\ scanned <= store[s] /\ store[s] \in Int
      /\ Reported(u, s) \in Dates /\ Starts(u, s) \subseteq Int /\ Start(u, s) = scanned
  BY <1>1, ConvertFacts, BoundAssumption DEF Starts, Start, Reported, Days
<1> HIDE DEF scanned
<1>5. ASSUME Grows, DataOK' PROVE SoundAfter(s, scanned)
  <2>1. store[s] <= store'[s] /\ store'[s] \in Int
    BY <1>5, BoundAssumption DEF Grows, DataOK, Dates
  <2> QED
    BY <1>4, <2>1 DEF SoundAfter
<1>6. CASE ConvertOk(u, s)
  <2>1. /\ Convert(s, scanned, Available(s), {}) /\ Remark(s, FALSE, {})
        /\ Ran(u, s, Reported(u, s))
    BY <1>4, <1>6 DEF ConvertOk
  <2>2. Available(s) \in store[s]..Available(s)
    BY <1>1, ConvertFacts
  <2>3. scanned <= store[s] + 1 /\ {} \in SUBSET Dates
    BY <1>4
  <2>4. DataOK' /\ Grows /\ StoreSound' /\ store'[s] = Available(s)
    BY <1>3, <1>4, <2>1, <2>2, <2>3
  <2>5. SoundAfter(s, Reported(u, s))
    <3>1. CASE s \in Dated
      <4>1. up[u].scan[s].raw <= raw[s] /\ Available(s) = raw[s]
        BY <1>1, <3>1, ConvertFacts DEF Available
      <4> QED
        BY <2>4, <3>1, <4>1 DEF SoundAfter, Reported
    <3>2. CASE s \notin Dated
      BY <1>5, <2>4, <3>2 DEF Reported, scanned
    <3> QED
      BY <3>1, <3>2
  <2> QED
    BY <1>1, <1>2, <1>4, <2>1, <2>4, <2>5, RanInv
<1>7. CASE ConvertSome(u, s)
  <2> DEFINE reported == IF s \in Dated THEN {up[u].scan[s].raw} ELSE {}
  <2>1. PICK first \in Starts(u, s), newest \in store[s]..Available(s) :
          /\ \E out \in SUBSET (first..(newest - 1)) : Convert(s, first, newest, out)
          /\ Remark(s, TRUE, reported)
    BY <1>7 DEF ConvertSome
  <2>2. PICK out \in SUBSET (first..(newest - 1)) : Convert(s, first, newest, out)
    BY <2>1
  <2>3. reported \in SUBSET Dates /\ first \in Int
    BY <1>1, <1>4, ConvertFacts
  <2>4. s \in Dated => Reported(u, s) \in reported
    BY DEF Reported
  <2> HIDE DEF reported
  <2>5. DataOK' /\ Grows /\ StoreSound' /\ \A date \in reported : SoundAfter(s, date)
    BY <1>3, <2>1, <2>2, <2>3
  <2>6. SoundAfter(s, Reported(u, s))
    <3>1. CASE s \in Dated
      BY <2>4, <2>5, <3>1
    <3>2. CASE s \notin Dated
      BY <1>5, <2>5, <3>2 DEF Reported, scanned
    <3> QED
      BY <3>1, <3>2
  <2>7. Ran(u, s, Reported(u, s))
    BY <1>7 DEF ConvertSome
  <2> QED
    BY <1>1, <1>2, <1>4, <2>5, <2>6, <2>7, RanInv
<1>8. CASE ConvertError(u, s)
  <2>1. PICK first \in Starts(u, s), newest \in store[s]..Available(s) :
          Convert(s, first, newest, {}) /\ Remark(s, first # Start(u, s), {})
    BY <1>8 DEF ConvertError
  <2>2. ~(first # Start(u, s)) => first <= store[s] + 1
    BY <1>4
  <2>3. first \in Int /\ {} \in SUBSET Dates /\ (first # Start(u, s)) \in BOOLEAN
    BY <1>4
  <2>4. DataOK' /\ Grows /\ StoreSound'
    BY <1>3, <2>1, <2>2, <2>3
  <2>5. Ran(u, s, scanned)
    BY <1>8 DEF ConvertError, scanned
  <2> QED
    BY <1>1, <1>2, <1>4, <1>5, <2>4, <2>5, RanInv
<1> QED
  BY <1>6, <1>7, <1>8

\* The lock is released and the results are recorded in the copy.
LEMMA UnlockInv ==
  ASSUME Inv, NEW u \in Updaters, Unlock(u), Remember(u)
  PROVE  Inv'
<1> DEFINE copy == Recorded(up[u].copy, up[u].result)
           l == [up[u] EXCEPT !.pc = "save", !.copy = copy]
<1>1. up[u] \in Locals /\ up \in [Updaters -> Locals]
  BY DEF Inv, TypeOK
<1>2. copy \in Entries /\ \A s \in Sources : Sound(s, copy[s])
  <2>1. /\ up[u].copy \in Entries /\ up[u].result \in Entries
        /\ \A s \in Sources : Sound(s, up[u].copy[s]) /\ Sound(s, up[u].result[s])
    BY <1>1 DEF Inv, Locals, LocalSound
  <2> QED
    BY <2>1, RecordedSound
<1>3. up' = [up EXCEPT ![u].pc = "save", ![u].copy = copy]
  BY <1>1 DEF Unlock, Locals
<1>4. UNCHANGED <<data, file>> /\ lock' = NoOne
  BY DEF Unlock
<1>5. \A s \in Sources : SoundAfter(s, copy[s])
  BY <1>2, <1>4, SoundWhenStay
<1> HIDE DEF copy
<1>6. /\ l \in Locals /\ up' = [up EXCEPT ![u] = l] /\ up'[u] = l
      /\ l.pc = "save" /\ l.copy = copy /\ l.result = up[u].result /\ l.scan = up[u].scan
  BY <1>1, <1>2, <1>3 DEF Locals, Pcs
<1> HIDE DEF l
<1>7. LocalSound(u)'
  BY <1>4, <1>5, <1>6 DEF LocalSound, Sound, SoundAfter, Inv, data
<1>8. HistoryOK'
  BY RememberTypes DEF Inv
<1> QED
  BY <1>4, <1>6, <1>7, <1>8, FileStays, DataStay, StepKeeps

\* The file is emptied.
LEMMA OpenInv ==
  ASSUME Inv, NEW u \in Updaters, Open(u), Remember(u)
  PROVE  Inv'
<1> DEFINE l == [up[u] EXCEPT !.pc = "write"]
<1>1. up[u] \in Locals /\ up \in [Updaters -> Locals]
  BY DEF Inv, TypeOK
<1>2. /\ UNCHANGED <<data, lock>> /\ up' = [up EXCEPT ![u].pc = "write"]
      /\ file' = [state |-> "empty", entries |-> NoEntries]
  BY DEF Open
<1>3. /\ l \in Locals /\ up' = [up EXCEPT ![u] = l] /\ up'[u] = l
      /\ l.pc = "write" /\ l.copy = up[u].copy /\ l.result = up[u].result
      /\ l.scan = up[u].scan
  BY <1>1, <1>2 DEF Locals, Pcs
<1> HIDE DEF l
<1>4. LocalSound(u)'
  BY <1>2, <1>3 DEF LocalSound, Sound, Inv, data
<1>5. FileOK' /\ \A s \in Sources : SoundAfter(s, file'.entries[s])
  BY <1>2, EmptyIsSound, SoundWhenStay DEF FileOK
<1>6. HistoryOK'
  BY RememberTypes DEF Inv
<1> QED
  BY <1>2, <1>3, <1>4, <1>5, <1>6, FileStays, DataStay, StepKeeps

\* The copy that is written is sound, however old it is.
LEMMA WriteInv ==
  ASSUME Inv, NEW u \in Updaters, Write(u), Remember(u)
  PROVE  Inv'
<1> DEFINE l == IF up[u].fetched = {} THEN Idle
                ELSE [Idle EXCEPT !.pc = "again", !.fetched = up[u].fetched]
<1>1. up[u] \in Locals /\ up \in [Updaters -> Locals]
  BY DEF Inv, TypeOK
<1>2. UNCHANGED <<data, lock>> /\ up' = [up EXCEPT ![u] = l]
  BY DEF Write
<1>3. /\ l \in Locals /\ l.pc \in {"idle", "again"} /\ l.copy = NoEntries
      /\ l.result = NoEntries /\ l.scan = NoScan
  BY <1>1, IdleLocal DEF Locals, Pcs
<1> HIDE DEF l
<1>4. up'[u] = l
  BY <1>1, <1>2
<1>5. LocalSound(u)'
  BY <1>2, <1>3, <1>4, EmptySound
<1>6. up[u].copy \in Entries /\ \A s \in Sources : Sound(s, up[u].copy[s])
  BY <1>1 DEF Inv, Locals, LocalSound
<1>7. \/ file' = [state |-> "whole", entries |-> up[u].copy]
      \/ file' = [state |-> "torn", entries |-> NoEntries]
  BY DEF Write, Written
<1>8. FileOK'
  BY <1>6, <1>7, EmptyIsSound DEF FileOK
<1>9. \A s \in Sources : SoundAfter(s, file'.entries[s])
  BY <1>2, <1>6, <1>7, EmptyIsSound, SoundWhenStay
<1>10. HistoryOK'
  BY RememberTypes DEF Inv
<1> QED
  BY <1>2, <1>3, <1>5, <1>8, <1>9, <1>10, FileStays, DataStay, StepKeeps

\* The record of a fetch leaves the store dates of the manifest as they are.
LEMMA LoadAgainInv ==
  ASSUME Inv, NEW u \in Updaters, LoadAgain(u), Remember(u)
  PROVE  Inv'
<1> DEFINE result == [s \in Sources |-> IF s \notin up[u].fetched THEN NoEntry
                                        ELSE Max({0, LoadedEntries[s]})]
           copy == Recorded(LoadedEntries, result)
           l == [up[u] EXCEPT !.pc = "save", !.fetched = {}, !.result = result, !.copy = copy]
<1>1. up[u] \in Locals /\ up \in [Updaters -> Locals]
  BY DEF Inv, TypeOK
<1>2. /\ UNCHANGED <<data, lock, file>>
      /\ up' = [up EXCEPT ![u].pc = "save", ![u].fetched = {}, ![u].result = result,
                          ![u].copy = copy]
  BY DEF LoadAgain
<1>3. \A s \in Sources : /\ 0 <= store[s] /\ store[s] \in Int /\ Sound(s, LoadedEntries[s])
                         /\ LoadedEntries[s] \in Dates \cup {-1}
  BY DateTypes, LoadedSound DEF Inv
<1>4. ASSUME NEW s \in Sources
      PROVE  Sound(s, Max({0, LoadedEntries[s]})) /\ Max({0, LoadedEntries[s]}) \in Dates
  <2> DEFINE e == LoadedEntries[s]
  <2>1. e \in Int /\ Sound(s, e) /\ e \in Dates \cup {-1} /\ 0 \in Dates
    BY <1>3, BoundAssumption DEF Dates
  <2> HIDE DEF e
  <2>2. Max({0, e}) = IF 0 >= e THEN 0 ELSE e
    BY <2>1, MaxOfTwo
  <2>3. Max({0, e}) \in {0, e} /\ Max({0, e}) \in Dates
    BY <2>1, <2>2
  <2>4. Sound(s, 0)
    BY <1>3 DEF Sound
  <2>5. Sound(s, Max({0, e})) /\ Max({0, e}) \in Dates
    BY <2>1, <2>3, <2>4
  <2> QED
    BY <2>5 DEF e
<1>5. result \in Entries /\ \A s \in Sources : Sound(s, result[s])
  BY <1>4, EmptyIsSound DEF Entries, NoEntry, NoEntries
<1> HIDE DEF result
<1>6. copy \in Entries /\ \A s \in Sources : Sound(s, copy[s])
  BY <1>5, LoadedSound, RecordedSound
<1>7. \A s \in Sources : SoundAfter(s, copy[s]) /\ SoundAfter(s, result[s])
  BY <1>2, <1>5, <1>6, SoundWhenStay
<1> HIDE DEF copy
<1>8. /\ l \in Locals /\ up' = [up EXCEPT ![u] = l] /\ up'[u] = l
      /\ l.pc = "save" /\ l.copy = copy /\ l.result = result /\ l.scan = up[u].scan
  BY <1>1, <1>2, <1>5, <1>6 DEF Locals, Pcs
<1> HIDE DEF l
<1>9. LocalSound(u)'
  BY <1>2, <1>7, <1>8 DEF LocalSound, Sound, SoundAfter, Inv, data
<1>10. HistoryOK'
  BY RememberTypes DEF Inv
<1> QED
  BY <1>2, <1>8, <1>9, <1>10, FileStays, DataStay, StepKeeps

-----------------------------------------------------------------------------
(* The environment.                                                        *)

\* A process that dies takes no lock along.
LEMMA CrashInv ==
  ASSUME Inv, NEW u \in Updaters, Crash(u)
  PROVE  Inv'
<1>1. up[u] \in Locals /\ up \in [Updaters -> Locals]
  BY DEF Inv, TypeOK
<1>2. /\ UNCHANGED <<data, file>> /\ up' = [up EXCEPT ![u] = Idle]
      /\ lock' = IF lock = u THEN NoOne ELSE lock
  BY DEF Crash
<1>3. up'[u] = Idle
  BY <1>1, <1>2
<1>4. LocalSound(u)'
  BY <1>2, <1>3, IdleLocal, EmptySound
<1>5. lock' \in Updaters \cup {NoOne}
  BY <1>2 DEF Inv, TypeOK
<1>6. HistoryOK'
  BY DEF Crash, Inv, TypeOK, HistoryOK
<1> QED
  BY <1>2, <1>4, <1>5, <1>6, IdleLocal, FileStays, DataStay, StepKeeps

\* New raw data put nothing ahead of the store.
LEMMA NewRawInv ==
  ASSUME Inv, NEW s \in Sources, NewRaw(s)
  PROVE  Inv'
<1>1. UNCHANGED <<store, missed, left, claimed, lock, up, file, behind, last, exact, updates>>
  BY DEF NewRaw
<1>2. \A z \in Sources : store[z] \in Int /\ raw[z] \in Int /\ raw[z] \in Dates
  BY DateTypes DEF Inv
<1>3. /\ raw[s] < IF s \in Dated THEN MaxDate ELSE 1
      /\ raw' = [raw EXCEPT ![s] = raw[s] + 1]
  BY DEF NewRaw
<1>4. raw' \in [Sources -> Dates]
  <2>1. raw[s] + 1 \in Dates
    BY <1>2, <1>3, BoundAssumption DEF Dates
  <2> QED
    BY <1>3, <2>1 DEF Inv, TypeOK
<1>5. \A z \in Sources : raw'[z] = IF z = s THEN raw[s] + 1 ELSE raw[z]
  BY <1>3 DEF Inv, TypeOK
<1>6. \A z \in Sources : raw[z] <= raw'[z]
  BY <1>2, <1>5
<1>7. TypeOK'
  BY <1>1, <1>4 DEF Inv, TypeOK
<1>8. StoreSound'
  <2>1. ASSUME NEW z \in Dated PROVE store[z] <= raw'[z]
    <3>1. z \in Sources /\ store[z] <= raw[z]
      BY DEF Sources, Inv, StoreSound
    <3> QED
      BY <1>2, <1>5, <3>1
  <2>2. ASSUME NEW z \in Single PROVE raw'[z] <= 1 /\ store[z] <= 1
    <3>1. z \in Sources /\ z \notin Dated /\ raw[z] <= 1 /\ store[z] <= 1
      BY SourceAssumption DEF Sources, Inv, StoreSound
    <3> QED
      BY <1>2, <1>3, <1>5, <3>1
  <2> QED
    BY <1>1, <2>1, <2>2 DEF StoreSound, NothingElseIsLeftOut, Inv
<1>9. ASSUME NEW u \in Updaters PROVE LocalSound(u)'
  <2> SUFFICES ASSUME NEW z \in Sources PROVE up[u].scan[z].raw <= raw'[z]
    BY <1>1 DEF Inv, LocalSound, Sound
  <2>1. up[u].scan[z].raw \in Int /\ raw[z] \in Int /\ raw'[z] \in Int
    BY DateTypes, <1>2, <1>4, BoundAssumption DEF Inv, Dates
  <2>2. up[u].scan[z].raw <= raw[z]
    BY DEF Inv, LocalSound
  <2> QED
    BY <1>6, <2>1, <2>2
<1> QED
  BY <1>1, <1>7, <1>8, <1>9 DEF Inv, RecordsAreTrue

-----------------------------------------------------------------------------
(* The theorems.                                                           *)

\* Every step keeps the invariant.
LEMMA NextInv == Inv /\ [Next]_vars => Inv'
<1> SUFFICES ASSUME Inv, [Next]_vars PROVE Inv'
  OBVIOUS
<1>1. CASE UNCHANGED vars
  BY <1>1 DEF vars, data, Inv, TypeOK, RecordsAreTrue, StoreSound, LocalSound, Sound,
     NothingElseIsLeftOut
<1>2. ASSUME NEW u \in Cron, StartCron(u) PROVE Inv'
  BY <1>2, StartInv DEF Updaters
<1>3. ASSUME NEW u \in Tab, StartTab(u) PROVE Inv'
  BY <1>3, StartInv DEF Updaters
<1>4. ASSUME NEW u \in Updaters, Step(u) PROVE Inv'
  BY <1>4, FetchInv, PlanInv, LoadInv, LockInv, ConvertInv, UnlockInv, OpenInv, WriteInv,
     LoadAgainInv DEF Step
<1>5. ASSUME NEW u \in Updaters, Crash(u) PROVE Inv'
  BY <1>5, CrashInv
<1>6. ASSUME NEW s \in Sources, NewRaw(s) PROVE Inv'
  BY <1>6, NewRawInv
<1> QED
  BY <1>1, <1>2, <1>3, <1>4, <1>5, <1>6 DEF Next

\* Types, records and data are right in every state, for every set of sources and
\* updaters and every number of days, updates and crashes.
THEOREM UpdatesInvariant == Spec => []Inv
<1>1. Init => Inv
  BY InitInv
<1>2. Inv /\ [Next]_vars => Inv'
  BY NextInv
<1> QED
  BY <1>1, <1>2, PTL DEF Spec

\* Every variable keeps its type.
THEOREM UpdatesTyped == Spec => []TypeOK
BY UpdatesInvariant, PTL DEF Inv

\* The manifest says more than is converted only where a run that ended well reported
\* it, whatever updates overlap, fail or die.
THEOREM ManifestIsTrue == Spec => []RecordsAreTrue
BY UpdatesInvariant, PTL DEF Inv

\* No conversion from the date of an old plan, nor one that fails, leaves a gap.
THEOREM OnlyTheseLeaveOut == Spec => []NothingElseIsLeftOut
<1>1. Inv => NothingElseIsLeftOut
  BY DEF Inv, StoreSound
<1> QED
  BY <1>1, UpdatesInvariant, PTL

-----------------------------------------------------------------------------
(* What was recorded last.                                                 *)

\* A copy that is not behind is what was recorded last, and the update's results.
CopyExact(u) ==
  /\ up[u].pc \in {"lock", "convert"} => up[u].copy = last
  /\ up[u].pc \in {"save", "write"} => up[u].copy = Recorded(last, up[u].result)

\* While nothing was lost, a whole file and every copy that is not behind are exact.
SurviveInv ==
  exact => /\ file.state = "whole" => file.entries = last
           /\ \A u \in Updaters \ behind : CopyExact(u)

\* A save by an updater that is not behind records exactly its copy.
LEMMA WriteSurvives ==
  ASSUME TypeOK, SurviveInv, NEW u \in Updaters, Write(u), Remember(u)
  PROVE  SurviveInv'
<1> SUFFICES ASSUME exact' PROVE SurviveInv'
  BY DEF SurviveInv
<1>1. up[u] \in Locals /\ up \in [Updaters -> Locals]
  BY DEF TypeOK
<1>2. exact /\ u \notin behind /\ up[u].pc = "write"
  BY DEF Write, Remember
<1>3. up[u].copy = Recorded(last, up[u].result)
  BY <1>2 DEF SurviveInv, CopyExact
<1>4. \A s \in Sources : up[u].result[s] = NoEntry => up[u].copy[s] = last[s]
  BY <1>3 DEF Recorded
<1>5. last' = [s \in Sources |-> IF up[u].result[s] = NoEntry THEN last[s] ELSE up[u].copy[s]]
  BY <1>2 DEF Remember
<1>6. up[u].copy = [s \in Sources |-> up[u].copy[s]]
  BY <1>1 DEF Locals, Entries
<1>7. last' = [s \in Sources |-> up[u].copy[s]]
  BY <1>4, <1>5
<1>8. last' = up[u].copy
  BY <1>6, <1>7
<1>9. behind' = {v \in Updaters \ {u} : HasCopy(v)}
  BY <1>2 DEF Remember
<1>10. file'.state = "whole" => file'.entries = up[u].copy
  BY DEF Write, Written
<1>11. up'[u].pc \in {"idle", "again"}
  <2>1. CASE up[u].fetched = {}
    BY <1>1, <2>1 DEF Write, Idle
  <2>2. CASE up[u].fetched # {}
    BY <1>1, <2>2 DEF Write, Idle
  <2> QED
    BY <2>1, <2>2
<1>12. \A v \in Updaters \ {u} : up'[v] = up[v]
  BY <1>1 DEF Write
<1>13. ASSUME NEW v \in Updaters \ behind' PROVE CopyExact(v)'
  <2>1. CASE v = u
    BY <1>11, <2>1 DEF CopyExact
  <2>2. CASE v # u
    <3>1. ~HasCopy(v)
      BY <1>9, <2>2
    <3>2. up'[v].pc \notin {"lock", "convert", "save", "write"}
      BY <1>12, <2>2, <3>1 DEF HasCopy
    <3> QED
      BY <3>2 DEF CopyExact
  <2> QED
    BY <2>1, <2>2
<1> QED
  BY <1>8, <1>10, <1>13 DEF SurviveInv

\* A step of u that saves nothing keeps the others' copies as exact as they were.
LEMMA OthersSurvive ==
  ASSUME TypeOK, SurviveInv, NEW u \in Updaters, exact' => UNCHANGED last,
         exact' => exact /\ behind' \in {behind, behind \ {u}},
         \A v \in Updaters \ {u} : up'[v] = up[v],
         exact' => (file'.state = "whole" => file' = file),
         exact' /\ u \notin behind' => CopyExact(u)'
  PROVE  SurviveInv'
<1> SUFFICES ASSUME exact' PROVE SurviveInv'
  BY DEF SurviveInv
<1>1. exact /\ last' = last
  OBVIOUS
<1>2. file'.state = "whole" => file'.entries = last'
  BY <1>1 DEF SurviveInv
<1>3. ASSUME NEW v \in Updaters \ behind', v # u PROVE CopyExact(v)'
  <2>1. v \in Updaters \ behind /\ up'[v] = up[v]
    BY <1>3
  <2>2. CopyExact(v)
    BY <1>1, <2>1 DEF SurviveInv
  <2> QED
    BY <1>1, <2>1, <2>2 DEF CopyExact, Recorded
<1> QED
  BY <1>2, <1>3 DEF SurviveInv

\* Whoever loads a whole file has what was recorded last.
LEMMA LoadSurvives ==
  ASSUME TypeOK, SurviveInv, NEW u \in Updaters, Load(u) \/ LoadAgain(u), Remember(u)
  PROVE  SurviveInv'
<1>1. up[u] \in Locals /\ up \in [Updaters -> Locals]
  BY DEF TypeOK
<1>2. up[u].pc \in {"load", "again"} /\ file' = file /\ \A v \in Updaters \ {u} : up'[v] = up[v]
  <2>1. CASE Load(u)
    BY <1>1, <2>1 DEF Load
  <2>2. CASE LoadAgain(u)
    BY <1>1, <2>2 DEF LoadAgain
  <2> QED
    BY <2>1, <2>2
<1>3. exact' => exact /\ behind' = behind \ {u} /\ last' = last /\ LoadedEntries = last
  BY <1>2 DEF Remember, SurviveInv, LoadedEntries
<1>4. SUFFICES ASSUME exact' PROVE SurviveInv'
  BY DEF SurviveInv
<1>5. CopyExact(u)'
  <2>1. CASE Load(u) /\ up[u].todo = {}
    <3>1. up'[u].pc = "save" /\ up'[u].copy = Recorded(LoadedEntries, up[u].result)
          /\ up'[u].result = up[u].result
      BY <1>1, <2>1 DEF Load, Locals
    <3> QED
      BY <1>3, <1>4, <3>1 DEF CopyExact, Recorded
  <2>2. CASE Load(u) /\ up[u].todo # {}
    <3>1. up'[u].pc = "lock" /\ up'[u].copy = LoadedEntries
      BY <1>1, <2>2 DEF Load, Locals
    <3> QED
      BY <1>3, <1>4, <3>1 DEF CopyExact
  <2>3. CASE LoadAgain(u)
    <3> DEFINE result == [s \in Sources |-> IF s \notin up[u].fetched THEN NoEntry
                                            ELSE Max({0, LoadedEntries[s]})]
    <3>1. up' = [up EXCEPT ![u].pc = "save", ![u].fetched = {}, ![u].result = result,
                           ![u].copy = Recorded(LoadedEntries, result)]
      BY <2>3 DEF LoadAgain
    <3> HIDE DEF result
    <3>2. up'[u].pc = "save" /\ up'[u].result = result
          /\ up'[u].copy = Recorded(LoadedEntries, result)
      BY <1>1, <3>1 DEF Locals
    <3> QED
      BY <1>3, <1>4, <3>2 DEF CopyExact, Recorded
  <2> QED
    BY <1>2, <2>1, <2>2, <2>3
<1> QED
  BY <1>2, <1>3, <1>4, <1>5, OthersSurvive

\* What a plan changes of its updater.
LEMMA PlanStep ==
  ASSUME NEW u \in Updaters, Plan(u)
  PROVE  \E todo, scan, result :
           up' = [up EXCEPT ![u].pc = "load", ![u].items = {}, ![u].todo = todo,
                            ![u].scan = scan, ![u].result = result]
<1>1. PICK force \in BOOLEAN : LET will == WillRun(up[u].items, force) IN
        up' = [up EXCEPT ![u].pc = "load", ![u].items = {}, ![u].todo = will,
           ![u].scan = [s \in Sources |-> IF s \in will THEN [raw |-> raw[s], store |-> store[s]]
                                                        ELSE NoScan[s]],
           ![u].result = [s \in Sources |->
                            IF s \in up[u].items \ will THEN store[s] ELSE NoEntry]]
  BY DEF Plan
<1> DEFINE will == WillRun(up[u].items, force)
           scan == [s \in Sources |-> IF s \in will THEN [raw |-> raw[s], store |-> store[s]]
                                                    ELSE NoScan[s]]
           result == [s \in Sources |-> IF s \in up[u].items \ will THEN store[s] ELSE NoEntry]
<1>2. up' = [up EXCEPT ![u].pc = "load", ![u].items = {}, ![u].todo = will,
                       ![u].scan = scan, ![u].result = result]
  BY <1>1
<1> HIDE DEF will, scan, result
<1> QED
  BY <1>2

\* A plan is followed by a load.
LEMMA PlanLoads ==
  ASSUME NEW u \in Updaters, up[u] \in Locals, up \in [Updaters -> Locals], Plan(u)
  PROVE  up'[u].pc = "load"
<1>1. PICK todo, scan, result :
        up' = [up EXCEPT ![u].pc = "load", ![u].items = {}, ![u].todo = todo,
                         ![u].scan = scan, ![u].result = result]
  BY PlanStep
<1>2. up'[u] = [up[u] EXCEPT !.pc = "load", !.items = {}, !.todo = todo,
                             !.scan = scan, !.result = result]
  BY <1>1
<1> QED
  BY <1>2 DEF Locals

\* A step that neither loads nor saves leaves the copies and the record alone, but
\* for the results that are put into the copy.
LEMMA WorkSurvives ==
  ASSUME TypeOK, SurviveInv, NEW u \in Updaters, Remember(u),
         \/ Fetch(u) \/ Plan(u) \/ Lock(u) \/ Unlock(u) \/ Open(u)
         \/ \E s \in Sources : ConvertOk(u, s) \/ ConvertSome(u, s) \/ ConvertError(u, s)
  PROVE  SurviveInv'
<1>1. up[u] \in Locals /\ up \in [Updaters -> Locals]
  BY DEF TypeOK
<1>2. up[u].pc \in {"fetch", "plan", "lock", "convert", "save"}
  BY DEF Fetch, Plan, Lock, Unlock, Open, ConvertOk, ConvertSome, ConvertError, Turn
<1>3. exact' => /\ exact /\ last' = last /\ behind' \in {behind, behind \ {u}}
                /\ up'[u].pc = "idle" \/ behind' = behind
  BY <1>2 DEF Remember
<1>4. file'.state = "whole" => file' = file
  <2>1. CASE Open(u)
    BY <2>1 DEF Open
  <2> QED
    BY <2>1 DEF Fetch, Plan, Lock, Unlock, ConvertOk, ConvertSome, ConvertError
<1>5. \A v \in Updaters \ {u} : up'[v] = up[v]
  BY <1>1 DEF Fetch, Plan, Lock, Unlock, Open, ConvertOk, ConvertSome, ConvertError, Ran
<1>6. ASSUME up'[u].pc = "idle" PROVE CopyExact(u)'
  BY <1>6 DEF CopyExact
<1>7. ASSUME exact', u \notin behind', up'[u].pc # "idle" PROVE CopyExact(u)'
  <2> USE <1>1
  <2>1. exact /\ last' = last /\ CopyExact(u)
    BY <1>3, <1>7 DEF SurviveInv
  <2>2. CASE Fetch(u)
    <3>1. up[u].pc = "fetch"
      BY <2>2 DEF Fetch
    <3>2. up' = [up EXCEPT ![u].pc = "plan"] => up'[u].pc = "plan"
      BY DEF Locals
    <3>3. ASSUME NEW s, up' = [up EXCEPT ![u].todo = @ \ {s}]
          PROVE  up'[u].pc = "fetch"
      BY <3>1, <3>3 DEF Locals
    <3>4. ASSUME NEW s, up' = [up EXCEPT ![u].todo = @ \ {s}, ![u].fetched = @ \cup {s}]
          PROVE  up'[u].pc = "fetch"
      BY <3>1, <3>4 DEF Locals
    <3>5. up'[u].pc \in {"fetch", "plan"}
      BY <2>2, <3>2, <3>3, <3>4 DEF Fetch
    <3> QED
      BY <3>5 DEF CopyExact
  <2>3. CASE Plan(u)
    <3>3. up'[u].pc = "load"
      BY <2>3, PlanLoads
    <3> QED
      BY <3>3 DEF CopyExact
  <2>4. CASE Lock(u)
    <3>1. up[u].pc = "lock" /\ (up' = [up EXCEPT ![u].pc = "convert"] \/ up' = [up EXCEPT ![u] = Idle])
      BY <2>4 DEF Lock
    <3>2. up' = [up EXCEPT ![u].pc = "convert"]
            => up'[u].pc = "convert" /\ up'[u].copy = up[u].copy
      BY DEF Locals
    <3>3. up' = [up EXCEPT ![u] = Idle] => up'[u].pc = "idle"
      BY DEF Idle
    <3>4. up'[u].pc = "idle" \/ (up[u].pc = "lock" /\ up'[u].pc = "convert" /\ up'[u].copy = up[u].copy)
      BY <3>1, <3>2, <3>3
    <3> QED
      BY <2>1, <3>4 DEF CopyExact
  <2>5. CASE Unlock(u)
    <3>1. up'[u].pc = "save" /\ up'[u].copy = Recorded(up[u].copy, up[u].result)
          /\ up'[u].result = up[u].result /\ up[u].pc = "convert"
      BY <2>5 DEF Unlock, Locals
    <3> QED
      BY <2>1, <3>1 DEF CopyExact, Recorded
  <2>6. CASE Open(u)
    <3>1. up[u].pc = "save" /\ up'[u] = [up[u] EXCEPT !.pc = "write"]
      BY <2>6 DEF Open
    <3>2. up'[u].copy = up[u].copy /\ up'[u].result = up[u].result /\ up'[u].pc = "write"
      BY <3>1 DEF Locals
    <3> QED
      BY <2>1, <3>1, <3>2 DEF CopyExact, Recorded
  <2>7. ASSUME NEW s \in Sources, ConvertOk(u, s) \/ ConvertSome(u, s) \/ ConvertError(u, s)
        PROVE  CopyExact(u)'
    <3>1. PICK r : /\ up' = [up EXCEPT ![u].todo = @ \ {s}, ![u].result[s] = r,
                                       ![u].scan[s] = NoScan[s]]
                   /\ up[u].pc = "convert"
      BY <2>7 DEF ConvertOk, ConvertSome, ConvertError, Ran, Turn
    <3>2. up'[u].pc = "convert" /\ up'[u].copy = up[u].copy
      BY <3>1 DEF Locals
    <3> QED
      BY <2>1, <3>1, <3>2 DEF CopyExact
  <2> QED
    BY <2>2, <2>3, <2>4, <2>5, <2>6, <2>7
<1> QED
  BY <1>3, <1>4, <1>5, <1>6, <1>7, OthersSurvive

\* Starting an update, new raw data and a crash record nothing.
LEMMA OutsideSurvives ==
  ASSUME TypeOK, SurviveInv, NEW u \in Updaters, StartCron(u) \/ StartTab(u) \/ Crash(u)
  PROVE  SurviveInv'
<1>1. up[u] \in Locals /\ up \in [Updaters -> Locals]
  BY DEF TypeOK
<1>2. UNCHANGED <<last, exact, file>> /\ behind' \in {behind, behind \ {u}}
  BY DEF StartCron, StartTab, Crash
<1>3. \A v \in Updaters \ {u} : up'[v] = up[v]
  BY <1>1 DEF StartCron, StartTab, Crash
<1>4. up'[u].pc \in {"plan", "fetch", "idle"}
  <2>1. CASE StartCron(u)
    BY <1>1, <2>1 DEF StartCron, Locals
  <2>2. CASE StartTab(u)
    <3>1. PICK items \in Selections, pc \in {"plan", "fetch"} :
            up' = [up EXCEPT ![u].pc = pc, ![u].items = items,
                             ![u].todo = IF pc = "fetch" THEN items \cap Dated ELSE {}]
      BY <2>2 DEF StartTab
    <3>2. up'[u].pc = pc
      BY <1>1, <3>1 DEF Locals
    <3> QED
      BY <3>2
  <2>3. CASE Crash(u)
    BY <1>1, <2>3 DEF Crash, Idle
  <2> QED
    BY <2>1, <2>2, <2>3
<1>5. CopyExact(u)'
  BY <1>4 DEF CopyExact
<1> QED
  BY <1>2, <1>3, <1>5, OthersSurvive

\* Every step keeps what was recorded.
LEMMA NextSurvives == TypeOK /\ SurviveInv /\ [Next]_vars => SurviveInv'
<1> SUFFICES ASSUME TypeOK, SurviveInv, [Next]_vars PROVE SurviveInv'
  OBVIOUS
<1>1. ASSUME UNCHANGED <<up, file, behind, last, exact>> PROVE SurviveInv'
  BY <1>1 DEF SurviveInv, CopyExact, Recorded
<1>2. CASE UNCHANGED vars
  BY <1>1, <1>2 DEF vars
<1>3. ASSUME NEW s \in Sources, NewRaw(s) PROVE SurviveInv'
  BY <1>1, <1>3 DEF NewRaw
<1>4. ASSUME NEW u \in Updaters, Step(u) PROVE SurviveInv'
  BY <1>4, WorkSurvives, LoadSurvives, WriteSurvives DEF Step
<1>5. ASSUME NEW u \in Updaters, StartCron(u) \/ StartTab(u) \/ Crash(u) PROVE SurviveInv'
  BY <1>5, OutsideSurvives
<1> QED
  BY <1>2, <1>3, <1>4, <1>5 DEF Next, Updaters

\* A record is lost only by updates that overlap, or by one that dies while it
\* writes the file.
THEOREM NothingElseIsLost == Spec => []RecordsSurvive
<1>1. Init => SurviveInv
  BY DEF Init, SurviveInv, CopyExact, Idle
<1>2. TypeOK /\ SurviveInv /\ [Next]_vars => SurviveInv'
  BY NextSurvives
<1>3. SurviveInv => RecordsSurvive
  BY DEF SurviveInv, RecordsSurvive
<1> QED
  BY <1>1, <1>2, <1>3, UpdatesTyped, PTL DEF Spec
=============================================================================
