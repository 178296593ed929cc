-------------------------- MODULE StreamClientProofs --------------------------
(***************************************************************************)
(* Proofs about StreamClient: a page of one run, opened at any point of    *)
(* the run, for any sections, any work on them, any number of report       *)
(* chunks and of lost connections.                                         *)
(***************************************************************************)
EXTENDS StreamClient, FiniteSetTheorems, SequenceTheorems, TLAPS

-----------------------------------------------------------------------------
(* The server's log *)

Chunk(n) == [type |-> "report_delta", of |-> n]

\* The chunks among the first n events of a log.
ChunksIn(q, n) == Cardinality({i \in 1..n : q[i].type = "report_delta"})

\* What the server may store next.
Emits(e) ==
    \/ log = << >> /\ e = Status("planning")
    \/ log # << >> /\ log[Len(log)] = Status("planning") /\ e = Plain("plan")
    \/ log # << >> /\ log[Len(log)].type = "plan" /\ e = Plain("awaiting_plan")
    \/ log # << >> /\ log[Len(log)].type \in {"plan", "awaiting_plan"} /\ e = Status("researching")
    \/ row = "researching" /\ \E t \in SectionTypes, s \in Sections : e = [type |-> t, of |-> s]
    \/ row = "researching" /\ e = Status("writing")
    \/ row = "writing" /\ Written < Chunks /\ e = Chunk(Written + 1)
    \/ row = "writing" /\ ~(Written < Chunks) /\ e = Plain("report")
    \/ row = "writing" /\ log # << >> /\ log[Len(log)].type = "report" /\ e = Plain("done")
    \/ row \notin Terminal /\ e \in {Plain("error"), Status("cancelled")}

\* The stored status is that of the last event.
RowTells ==
    /\ log = << >> => row = "queued"
    /\ log # << >> =>
          LET last == log[Len(log)]
          IN  /\ Marks(last) => row = StageOf(last)
              /\ last.type = "plan" => row = "planning"
              /\ last.type \in SectionTypes => row = "researching"
              /\ last.type \in {"report_delta", "report"} => row = "writing"

\* The statuses that are sent as such.
StagesSent ==
    \A i \in 1..Len(log) : log[i].type = "status" =>
        log[i].of \in {"planning", "researching", "writing", "cancelled"}

ServerTypeOK == log \in Seq(Event) /\ row \in Stages /\ approved \subseteq Sections

\* Work of a section, between its start and its end.
LEMMA CourseIs == Course \in Seq(SectionTypes) /\ Len(Course) \in Nat
<1> DEFINE W == {"search", "source", "claim", "verification"}
<1>1. Work \in Seq(W)
  BY ClientAssumption
<1>2. W \subseteq SectionTypes
  BY DEF SectionTypes
<1>3. Work \in Seq(SectionTypes)
  BY <1>1, <1>2
<1>4. <<"section_start">> \in Seq(SectionTypes) /\ <<"section_done">> \in Seq(SectionTypes)
  BY DEF SectionTypes
<1>5. \A q, r \in Seq(SectionTypes) : q \o r \in Seq(SectionTypes)
  OBVIOUS
<1>6. Course \in Seq(SectionTypes)
  BY <1>3, <1>4, <1>5 DEF Course
<1> QED
  BY <1>6

\* What is counted in the log is finite.
LEMMA CountsAreNat ==
    ASSUME ServerTypeOK
    PROVE  /\ \A s : Progress(s) \in Nat
           /\ Written \in Nat
           /\ \A n \in 0..Len(log) : IsFiniteSet({i \in 1..n : log[i].type = "report_delta"})
                                     /\ ChunksIn(log, n) \in Nat
<1> DEFINE l == Len(log)
<1>1. l \in Nat /\ DOMAIN log = 1..l
  BY DEF ServerTypeOK
<1> HIDE DEF l
<1>2. \A n \in Nat : IsFiniteSet(1..n)
  BY FS_Interval
<1>3. \A n \in Nat : \A S \in SUBSET (1..n) : IsFiniteSet(S) /\ Cardinality(S) \in Nat
  BY <1>2, FS_Subset, FS_CardinalityType
<1>4. \A s : Progress(s) \in Nat
  <2> TAKE s
  <2> DEFINE S == {i \in DOMAIN log : log[i].type \in SectionTypes /\ log[i].of = s}
  <2>1. S \in SUBSET (1..l)
    BY <1>1
  <2> HIDE DEF S
  <2>2. Cardinality(S) \in Nat
    BY <1>1, <1>3, <2>1
  <2> QED
    BY <2>2 DEF Progress, S
<1>5. Written \in Nat
  <2> DEFINE S == {i \in DOMAIN log : log[i].type = "report_delta"}
  <2>1. S \in SUBSET (1..l)
    BY <1>1
  <2> HIDE DEF S
  <2>2. Cardinality(S) \in Nat
    BY <1>1, <1>3, <2>1
  <2> QED
    BY <2>2 DEF Written, S
<1>6. ASSUME NEW n \in 0..l
      PROVE  IsFiniteSet({i \in 1..n : log[i].type = "report_delta"}) /\ ChunksIn(log, n) \in Nat
  <2> DEFINE S == {i \in 1..n : log[i].type = "report_delta"}
  <2>1. S \in SUBSET (1..n) /\ n \in Nat
    BY <1>1
  <2> HIDE DEF S
  <2>2. IsFiniteSet(S) /\ Cardinality(S) \in Nat
    BY <1>3, <2>1
  <2> QED
    BY <2>2 DEF ChunksIn, S
<1> QED
  BY <1>4, <1>5, <1>6 DEF l

\* What the engine emits is one of these.
LEMMA FollowingIs ==
    ASSUME ServerTypeOK, RowTells, StagesSent, NEW e \in Following
    PROVE  Emits(e)
<1> DEFINE last == log[Len(log)]
<1>1. CASE log = << >>
  BY <1>1 DEF Following, Emits
<1>2. CASE log # << >>
  <2>1. Len(log) \in 1..Len(log) /\ last \in Event
    BY <1>2 DEF ServerTypeOK
  <2>2. /\ last.type = "status" => last.of \in {"planning", "researching", "writing", "cancelled"}
                                   /\ row = last.of
        /\ last.type = "awaiting_plan" => row = "awaiting_plan"
        /\ last.type = "plan" => row = "planning"
        /\ last.type \in SectionTypes => row = "researching"
        /\ last.type \in {"report_delta", "report"} => row = "writing"
        /\ last.type \in {"done", "error"} => row = last.type
    BY <1>2, <2>1 DEF RowTells, StagesSent, Marks, StageOf
  <2>3. last.type \in {"status", "report_delta", "plan", "awaiting_plan", "report", "done", "error"}
                      \cup SectionTypes
    BY <2>1 DEF Event
  <2>4. last.type = "status" => last = Status(last.of)
    BY <2>1 DEF Event, Status, SectionTypes
  <2>5. Following =
          CASE last = Status("planning") -> {Plain("plan")}
            [] last.type = "plan" /\ RequirePlanApproval -> {Plain("awaiting_plan")}
            [] \/ last.type = "plan" /\ ~RequirePlanApproval
               \/ last.type = "awaiting_plan" /\ approved # {} -> {Status("researching")}
            [] last.type = "awaiting_plan" /\ approved = {} -> {}
            [] row = "researching" ->
                  {[type |-> Course[Progress(s) + 1], of |-> s] :
                      s \in {t \in approved : Progress(t) < Len(Course)}}
                  \cup IF Researched THEN {Status("writing")} ELSE {}
            [] row = "writing" ->
                  IF Written < Chunks THEN {[type |-> "report_delta", of |-> Written + 1]}
                  ELSE IF last.type = "report" THEN {Plain("done")} ELSE {Plain("report")}
            [] row \in Terminal -> {}
    BY <1>2 DEF Following
  <2>6. last = Status("planning") => last.type = "status" /\ row = "planning"
    BY <2>2 DEF Status
  <2> HIDE DEF last
  <2>7. CASE last = Status("planning")
    <3>1. Following = {Plain("plan")}
      BY <2>5, <2>6, <2>7 DEF Terminal
    <3> QED
      BY <1>2, <2>7, <3>1 DEF Emits, last
  <2>8. CASE last.type = "plan"
    <3>1. Following = IF RequirePlanApproval THEN {Plain("awaiting_plan")} ELSE {Status("researching")}
      BY <2>2, <2>5, <2>6, <2>8 DEF Terminal
    <3> QED
      BY <1>2, <2>8, <3>1 DEF Emits, last
  <2>9. CASE last.type = "awaiting_plan"
    <3>1. Following = IF approved = {} THEN {} ELSE {Status("researching")}
      BY <2>2, <2>5, <2>6, <2>9 DEF Terminal
    <3> QED
      BY <1>2, <2>9, <3>1 DEF Emits, last
  <2>10. CASE row = "researching"
    <3>1. last # Status("planning") /\ last.type \notin {"plan", "awaiting_plan"}
      BY <2>2, <2>6, <2>10
    <3>2. Following = {[type |-> Course[Progress(s) + 1], of |-> s] :
                      s \in {t \in approved : Progress(t) < Len(Course)}}
                  \cup IF Researched THEN {Status("writing")} ELSE {}
      BY <2>5, <2>10, <3>1 DEF Terminal
    <3>3. CASE e = Status("writing")
      BY <2>10, <3>3 DEF Emits
    <3>4. CASE e # Status("writing")
      <4>1. PICK s \in approved : Progress(s) < Len(Course) /\ e = [type |-> Course[Progress(s) + 1], of |-> s]
        BY <3>2, <3>4
      <4>2. Progress(s) \in Nat
        BY CountsAreNat
      <4>3. Course[Progress(s) + 1] \in SectionTypes /\ s \in Sections
        BY <4>1, <4>2, CourseIs DEF ServerTypeOK
      <4> QED
        BY <2>10, <4>1, <4>3 DEF Emits
    <3> QED
      BY <3>3, <3>4
  <2>11. CASE row = "writing"
    <3>1. last # Status("planning") /\ last.type \notin {"plan", "awaiting_plan"}
      BY <2>2, <2>6, <2>11
    <3>2. Following = IF Written < Chunks THEN {[type |-> "report_delta", of |-> Written + 1]}
                      ELSE IF last.type = "report" THEN {Plain("done")} ELSE {Plain("report")}
      BY <2>5, <2>11, <3>1 DEF Terminal
    <3> QED
      BY <1>2, <2>11, <3>2 DEF Emits, Chunk, last
  <2>12. CASE row \in Terminal
    <3>1. last # Status("planning") /\ last.type \notin {"plan", "awaiting_plan"}
          /\ row # "researching" /\ row # "writing"
      BY <2>2, <2>6, <2>12 DEF Terminal
    <3>2. Following = {}
      BY <2>5, <2>12, <3>1
    <3> QED
      BY <3>2
  <2> QED
    BY <2>2, <2>3, <2>4, <2>7, <2>8, <2>9, <2>10, <2>11, <2>12 DEF Terminal
<1> QED
  BY <1>1, <1>2

\* A verdict ends the run.
Verdicts ==
    \A i \in 1..Len(log) :
        log[i].type \in {"done", "error"} \/ log[i] = Status("cancelled") => row \in Terminal

\* The chunks are numbered, and precede the report, which precedes `done`.
ChunksNumbered == \A i \in 1..Len(log) : log[i].type = "report_delta" => log[i].of = ChunksIn(log, i)
ChunksFirst ==
    \A i, j \in 1..Len(log) : log[i].type = "report" /\ log[j].type = "report_delta" => j < i
AllChunks   == \A i \in 1..Len(log) : log[i].type = "report" => ~(Written < Chunks)
ReportFirst ==
    \A j \in 1..Len(log) : log[j].type = "done" =>
        \E i \in 1..Len(log) : i < j /\ log[i].type = "report"

LogInv ==
    /\ ServerTypeOK /\ RowTells /\ StagesSent /\ Verdicts
    /\ ChunksNumbered /\ ChunksFirst /\ AllChunks /\ ReportFirst

\* What is stored, by its type, and that nothing follows a verdict.
LEMMA EmitsIs ==
    ASSUME ServerTypeOK, RowTells, NEW e, Emits(e)
    PROVE  /\ e \in Event /\ row \notin Terminal
           /\ e.type = "status" => e.of \in {"planning", "researching", "writing", "cancelled"}
           /\ e.type = "report_delta" => row = "writing" /\ Written < Chunks /\ e.of = Written + 1
           /\ e.type = "report" => row = "writing" /\ ~(Written < Chunks)
           /\ e.type = "done" => log # << >> /\ log[Len(log)].type = "report"
           /\ e.type = "plan" => row = "planning"
           /\ e.type = "awaiting_plan" => row = "planning"
           /\ e.type \in SectionTypes => row = "researching"
<1> USE DEF Plain, Status, Chunk, Terminal
<1>1. CASE log = << >> /\ e = Status("planning")
  BY <1>1 DEF Event, Stages, RowTells, SectionTypes
<1>2. CASE log # << >> /\ log[Len(log)] = Status("planning") /\ e = Plain("plan")
  <2>1. row = "planning"
    BY <1>2 DEF RowTells, Marks, StageOf
  <2> QED
    BY <1>2, <2>1 DEF Event, SectionTypes
<1>3. CASE log # << >> /\ log[Len(log)].type = "plan" /\ e = Plain("awaiting_plan")
  <2>1. row = "planning"
    BY <1>3 DEF RowTells
  <2> QED
    BY <1>3, <2>1 DEF Event, SectionTypes
<1>4. CASE log # << >> /\ log[Len(log)].type \in {"plan", "awaiting_plan"} /\ e = Status("researching")
  <2>1. row \in {"planning", "awaiting_plan"}
    BY <1>4 DEF RowTells, Marks, StageOf
  <2> QED
    BY <1>4, <2>1 DEF Event, Stages, SectionTypes
<1>5. CASE row = "researching" /\ \E t \in SectionTypes, s \in Sections : e = [type |-> t, of |-> s]
  <2>1. e \in Event /\ e.type \in SectionTypes
    BY <1>5 DEF Event
  <2> QED
    BY <1>5, <2>1 DEF SectionTypes
<1>6. CASE row = "researching" /\ e = Status("writing")
  BY <1>6 DEF Event, Stages, SectionTypes
<1>7. CASE row = "writing" /\ Written < Chunks /\ e = Chunk(Written + 1)
  <2>1. Written + 1 \in 1..Chunks
    BY <1>7, CountsAreNat, ClientAssumption
  <2> QED
    BY <1>7, <2>1 DEF Event, SectionTypes
<1>8. CASE row = "writing" /\ ~(Written < Chunks) /\ e = Plain("report")
  BY <1>8 DEF Event, SectionTypes
<1>9. CASE row = "writing" /\ log # << >> /\ log[Len(log)].type = "report" /\ e = Plain("done")
  BY <1>9 DEF Event, SectionTypes
<1>10. CASE row \notin Terminal /\ e \in {Plain("error"), Status("cancelled")}
  BY <1>10 DEF Event, Stages, SectionTypes
<1> QED
  BY <1>1, <1>2, <1>3, <1>4, <1>5, <1>6, <1>7, <1>8, <1>9, <1>10 DEF Emits

\* The log grows at its end.
LEMMA LogGrows ==
    ASSUME ServerTypeOK, NEW e \in Event, Stores(e)
    PROVE  /\ log' \in Seq(Event) /\ Len(log') = Len(log) + 1 /\ Len(log) \in Nat
           /\ \A i \in 1..Len(log) : log'[i] = log[i]
           /\ log'[Len(log) + 1] = e
           /\ \A n \in 0..Len(log) : ChunksIn(log', n) = ChunksIn(log, n)
           /\ Written = ChunksIn(log, Len(log)) /\ Written' = ChunksIn(log', Len(log) + 1)
           /\ ChunksIn(log', Len(log) + 1) = IF e.type = "report_delta" THEN ChunksIn(log, Len(log)) + 1
                                        ELSE ChunksIn(log, Len(log))
<1> DEFINE l == Len(log)
           S(n) == {i \in 1..n : log[i].type = "report_delta"}
<1>1. /\ log' \in Seq(Event) /\ Len(log') = l + 1 /\ l \in Nat
      /\ \A i \in 1..l : log'[i] = log[i]
      /\ log'[l + 1] = e /\ DOMAIN log = 1..l /\ DOMAIN log' = 1..(l + 1)
  BY DEF Stores, ServerTypeOK
<1>2. l = Len(log)
  OBVIOUS
<1> HIDE DEF l
<1>3. ASSUME NEW n \in 0..l
      PROVE  ChunksIn(log', n) = ChunksIn(log, n)
  <2>1. {i \in 1..n : log'[i].type = "report_delta"} = S(n)
    BY <1>1
  <2> QED
    BY <2>1 DEF ChunksIn
<1>4. Written = ChunksIn(log, l) /\ Written' = ChunksIn(log', l + 1)
  BY <1>1 DEF Written, ChunksIn
<1>5. ChunksIn(log', l + 1) = IF e.type = "report_delta" THEN ChunksIn(log, l) + 1 ELSE ChunksIn(log, l)
  <2> DEFINE T == {i \in 1..(l + 1) : log'[i].type = "report_delta"}
  <2>1. IsFiniteSet(S(l)) /\ l + 1 \notin S(l)
    BY <1>1, <1>2, CountsAreNat
  <2>2. T = IF e.type = "report_delta" THEN S(l) \cup {l + 1} ELSE S(l)
    <3>1. \A i \in 1..(l + 1) : i = l + 1 \/ i \in 1..l
      BY <1>1
    <3>2. \A i \in 1..l : i \in 1..(l + 1)
      BY <1>1
    <3>3. l + 1 \in 1..(l + 1)
      BY <1>1
    <3> QED
      BY <1>1, <3>1, <3>2, <3>3
  <2>3. ChunksIn(log', l + 1) = Cardinality(T) /\ ChunksIn(log, l) = Cardinality(S(l))
    BY DEF ChunksIn
  <2> HIDE DEF T, S
  <2>4. CASE e.type = "report_delta"
    <3>1. Cardinality(S(l) \cup {l + 1}) = IF l + 1 \in S(l) THEN Cardinality(S(l)) ELSE Cardinality(S(l)) + 1
      BY <2>1, FS_AddElement
    <3> QED
      BY <2>1, <2>2, <2>3, <2>4, <3>1
  <2>5. CASE e.type # "report_delta"
    BY <2>2, <2>3, <2>5
  <2> QED
    BY <2>4, <2>5
<1> QED
  BY <1>1, <1>3, <1>4, <1>5 DEF l

\* Storing the next event keeps the order of the log.
LEMMA StoresKeeps ==
    ASSUME LogInv, approved' \subseteq Sections, NEW e, Emits(e), Stores(e)
    PROVE  LogInv' /\ (row \in Terminal => row' \in Terminal)
<1> DEFINE l == Len(log)
<1>1. /\ e \in Event /\ row \notin Terminal
      /\ e.type = "status" => e.of \in {"planning", "researching", "writing", "cancelled"}
      /\ e.type = "report_delta" => row = "writing" /\ Written < Chunks /\ e.of = Written + 1
      /\ e.type = "report" => row = "writing" /\ ~(Written < Chunks)
      /\ e.type = "done" => log # << >> /\ log[l].type = "report"
      /\ e.type = "plan" => row = "planning"
      /\ e.type \in SectionTypes => row = "researching"
  BY EmitsIs DEF LogInv
<1>2. /\ log' \in Seq(Event) /\ Len(log') = l + 1 /\ l \in Nat
      /\ \A i \in 1..l : log'[i] = log[i]
      /\ log'[l + 1] = e
      /\ \A n \in 0..l : ChunksIn(log', n) = ChunksIn(log, n)
      /\ Written = ChunksIn(log, l) /\ Written' = ChunksIn(log', l + 1)
      /\ ChunksIn(log', l + 1) = IF e.type = "report_delta" THEN ChunksIn(log, l) + 1 ELSE ChunksIn(log, l)
  BY <1>1, LogGrows DEF LogInv
<1>3. row' = IF Marks(e) THEN StageOf(e) ELSE row
  BY DEF Stores
<1>4. l = Len(log) /\ (log = << >> <=> l = 0)
  BY DEF LogInv, ServerTypeOK
<1> HIDE DEF l
<1>5. \A i \in 1..(l + 1) : i \in 1..l \/ i = l + 1
  BY <1>2
<1>6. ServerTypeOK'
  <2>1. Marks(e) => StageOf(e) \in Stages
    BY <1>1 DEF Marks, StageOf, Event, Stages, Terminal
  <2> QED
    BY <1>2, <1>3, <2>1 DEF ServerTypeOK, LogInv
<1>7. RowTells'
  <2>1. log' # << >> /\ log'[Len(log')] = e
    BY <1>2
  <2>2. e.type \in {"plan", "report_delta", "report"} \cup SectionTypes => ~Marks(e)
    BY DEF Marks, SectionTypes
  <2> QED
    BY <1>1, <1>3, <2>1, <2>2 DEF RowTells, Marks, StageOf
<1>8. StagesSent'
  BY <1>1, <1>2, <1>4, <1>5 DEF StagesSent, LogInv
<1>9. Verdicts'
  <2>1. \A i \in 1..l : ~(log'[i].type \in {"done", "error"} \/ log'[i] = Status("cancelled"))
    BY <1>1, <1>2, <1>4 DEF LogInv, Verdicts
  <2>2. e.type \in {"done", "error"} \/ e = Status("cancelled") => row' \in Terminal
    BY <1>3 DEF Marks, StageOf, Status, Terminal
  <2>3. \A i \in 1..(l + 1) : log'[i].type \in {"done", "error"} \/ log'[i] = Status("cancelled") => row' \in Terminal
    BY <1>2, <1>5, <2>1, <2>2
  <2> QED
    BY <1>2, <2>3 DEF Verdicts, Status
<1>10. ChunksNumbered'
  <2>1. \A i \in 1..l : i \in 0..l
    BY <1>2
  <2>2. \A i \in 1..l : log'[i].type = "report_delta" => log'[i].of = ChunksIn(log', i)
    BY <1>2, <1>4, <2>1 DEF LogInv, ChunksNumbered
  <2>3. e.type = "report_delta" => e.of = ChunksIn(log', l + 1)
    BY <1>1, <1>2
  <2>4. \A i \in 1..(l + 1) : log'[i].type = "report_delta" => log'[i].of = ChunksIn(log', i)
    BY <1>2, <1>5, <2>2, <2>3
  <2> QED
    BY <1>2, <2>4 DEF ChunksNumbered
<1>11. AllChunks'
  <2>1. (\E i \in 1..l : log[i].type = "report") => ~(Written < Chunks)
    BY <1>4 DEF LogInv, AllChunks
  <2>2. Written \in Nat /\ Chunks \in Nat
    BY CountsAreNat, ClientAssumption DEF LogInv
  <2>3. e.type = "report_delta" => Written < Chunks
    BY <1>1
  <2>4. \A i \in 1..(l + 1) : log'[i].type = "report" => ~(Written' < Chunks)
    <3> TAKE i \in 1..(l + 1)
    <3>1. CASE i \in 1..l /\ log'[i].type = "report"
      BY <1>2, <2>1, <2>3, <3>1
    <3>2. CASE i = l + 1 /\ log'[i].type = "report"
      BY <1>1, <1>2, <3>2
    <3> QED
      BY <1>5, <3>1, <3>2
  <2> QED
    BY <1>2, <2>4 DEF AllChunks
<1>12. ChunksFirst'
  <2>1. \A i, j \in 1..l : log'[i].type = "report" /\ log'[j].type = "report_delta" => j < i
    BY <1>2, <1>4 DEF LogInv, ChunksFirst
  <2>2. \A i \in 1..l : e.type = "report_delta" => log'[i].type # "report"
    BY <1>1, <1>2, <1>4 DEF LogInv, AllChunks
  <2>3. \A j \in 1..l : j < l + 1
    BY <1>2
  <2>4. \A i, j \in 1..(l + 1) : log'[i].type = "report" /\ log'[j].type = "report_delta" => j < i
    BY <1>2, <1>5, <2>1, <2>2, <2>3
  <2> QED
    BY <1>2, <2>4 DEF ChunksFirst
<1>13. ReportFirst'
  <2>1. \A j \in 1..l : log'[j].type = "done" => \E i \in 1..l : i < j /\ log'[i].type = "report"
    BY <1>2, <1>4 DEF LogInv, ReportFirst
  <2>2. e.type = "done" => l \in 1..l /\ log'[l].type = "report"
    BY <1>1, <1>2, <1>4
  <2>3. l < l + 1 /\ \A i \in 1..l : i \in 1..(l + 1)
    BY <1>2
  <2>4. \A j \in 1..(l + 1) : log'[j].type = "done" => \E i \in 1..(l + 1) : i < j /\ log'[i].type = "report"
    BY <1>2, <1>5, <2>1, <2>2, <2>3
  <2> QED
    BY <1>2, <2>4 DEF ReportFirst
<1> QED
  BY <1>1, <1>6, <1>7, <1>8, <1>9, <1>10, <1>11, <1>12, <1>13 DEF LogInv

\* Every step leaves the log as it is or stores the next event.
LEMMA ServerStep ==
    ASSUME LogInv, TypeOK, [Next]_vars
    PROVE  /\ UNCHANGED <<log, row>> \/ \E e : Emits(e) /\ Stores(e)
           /\ approved' \subseteq Sections /\ (approved # {} => approved' # {})
<1> USE DEF serverVars
<1>1. CASE ServerEmits
  BY <1>1, FollowingIs DEF ServerEmits, LogInv, ServerTypeOK
<1>2. CASE ServerFails \/ CancelledElsewhere
  BY <1>2 DEF ServerFails, CancelledElsewhere, Emits, LogInv, ServerTypeOK
<1>3. CASE ServerCancels
  BY <1>3 DEF ServerCancels, Emits, LogInv, ServerTypeOK
<1>4. CASE ApprovedElsewhere \/ ServerApproves
  BY <1>4, ClientAssumption DEF ApprovedElsewhere, ServerApproves, TypeOK
<1>5. CASE \/ ServerRefuses \/ ServerAnswers \/ Hydrates \/ HydrateFails \/ Opens
           \/ SkipsEvent \/ BuffersChunk \/ AppliesEvent \/ FlushTimer
           \/ StreamCloses \/ ConnectionLost \/ Retry
           \/ ClicksCancel \/ CancelConfirmed \/ CancelFails
           \/ EditsPlan \/ ClicksApprove \/ ApproveConfirmed \/ ApproveFails \/ UNCHANGED vars
  <2>1. UNCHANGED serverVars
    BY <1>5 DEF ServerRefuses, ServerAnswers, Hydrates, HydrateFails, Opens, SkipsEvent, BuffersChunk,
                AppliesEvent, FlushTimer, StreamCloses, ConnectionLost, Retry, ClicksCancel,
                CancelConfirmed, CancelFails, EditsPlan, ClicksApprove, ApproveConfirmed, ApproveFails, vars
  <2> QED
    BY <2>1 DEF LogInv, ServerTypeOK
<1> QED
  BY <1>1, <1>2, <1>3, <1>4, <1>5 DEF Next, ServerNext

\* The log keeps its order.
LEMMA LogStep ==
    ASSUME LogInv, TypeOK, [Next]_vars
    PROVE  LogInv' /\ (row \in Terminal => row' \in Terminal)
<1>1. CASE UNCHANGED <<log, row>>
  <2>1. ServerTypeOK'
    BY <1>1, ServerStep DEF LogInv, ServerTypeOK
  <2>2. Written' = Written /\ \A n : ChunksIn(log', n) = ChunksIn(log, n)
    BY <1>1 DEF Written, ChunksIn
  <2> QED
    BY <1>1, <2>1, <2>2
    DEF LogInv, RowTells, Marks, StageOf, StagesSent, Verdicts, Status, ChunksNumbered, ChunksFirst,
        AllChunks, ReportFirst
<1>2. CASE \E e : Emits(e) /\ Stores(e)
  BY <1>2, ServerStep, StoresKeeps
<1> QED
  BY <1>1, <1>2, ServerStep

-----------------------------------------------------------------------------
(* The state of the page *)

\* Of finitely many numbers one is the greatest.
LEMMA Greatest ==
    ASSUME NEW n \in Nat, NEW S \in SUBSET (1..n), S # {}
    PROVE  \E i \in S : \A j \in S : j <= i
<1> DEFINE upTo(i) == {j \in S : j <= i}
           size == [i \in S |-> Cardinality(upTo(i))]
           w == Cardinality(S)
<1>1. IsFiniteSet(S) /\ w \in Nat /\ w # 0
  <2>1. IsFiniteSet(1..n)
    BY FS_Interval
  <2>2. IsFiniteSet(S)
    BY <2>1, FS_Subset
  <2> QED
    BY <2>2, FS_CardinalityType, FS_EmptySet
<1>2. IsFiniteSet(1..w) /\ Cardinality(1..w) = w
  <2>1. IsFiniteSet(1..w) /\ Cardinality(1..w) = IF 1 > w THEN 0 ELSE w - 1 + 1
    BY <1>1, FS_Interval
  <2>2. (IF 1 > w THEN 0 ELSE w - 1 + 1) = w
    BY <1>1
  <2> QED
    BY <2>1, <2>2
<1>3. ASSUME NEW i \in S
      PROVE  IsFiniteSet(upTo(i)) /\ i \in upTo(i) /\ upTo(i) \in SUBSET S /\ Cardinality(upTo(i)) \in 1..w
  <2>1. upTo(i) \in SUBSET S /\ i \in upTo(i)
    OBVIOUS
  <2>2. IsFiniteSet(upTo(i)) /\ Cardinality(upTo(i)) <= w
    BY <1>1, <2>1, FS_Subset
  <2>3. Cardinality(upTo(i)) \in Nat
    BY <2>2, FS_CardinalityType
  <2>4. Cardinality(upTo(i)) # 0
    BY <2>1, <2>2, FS_EmptySet
  <2> HIDE DEF w, upTo
  <2>5. Cardinality(upTo(i)) \in 1..w
    BY <1>1, <2>2, <2>3, <2>4
  <2> QED
    BY <2>1, <2>2, <2>5
<1>4. ASSUME NEW i \in S, NEW j \in S, i < j
      PROVE  Cardinality(upTo(i)) # Cardinality(upTo(j))
  <2>1. \A x \in S : x <= i => x <= j
    BY <1>4
  <2>2. ~(j <= i)
    BY <1>4
  <2>3. j \in upTo(j) /\ j \notin upTo(i)
    BY <1>3, <2>2
  <2>4. upTo(i) \in SUBSET upTo(j) /\ upTo(i) # upTo(j)
    BY <2>1, <2>3
  <2> QED
    BY <1>3, <2>4, FS_Subset
<1>5. size \in Injection(S, 1..w)
  <2>1. size \in [S -> 1..w]
    BY <1>3
  <2>2. \A i, j \in S : size[i] = size[j] => i = j
    <3>1. \A i, j \in S : i = j \/ i < j \/ j < i
      OBVIOUS
    <3> HIDE DEF upTo
    <3> QED
      BY <1>4, <3>1
  <2>3. DOMAIN size = S
    OBVIOUS
  <2> HIDE DEF size
  <2> QED
    BY <2>1, <2>2, <2>3 DEF Injection, IsInjective
<1>6. size \in Surjection(S, 1..w)
  <2> HIDE DEF size
  <2> QED
    BY <1>2, <1>5, FS_Injection
<1>7. PICK i \in S : size[i] = w
  <2>1. w \in 1..w
    BY <1>1
  <2> HIDE DEF size
  <2> QED
    BY <1>6, <2>1 DEF Surjection
<1>8. Cardinality(upTo(i)) = Cardinality(S)
  BY <1>7
<1>9. upTo(i) = S
  BY <1>1, <1>3, <1>8, FS_Subset
<1> QED
  BY <1>9

\* What getRun says of the status is that of an event.
LEMMA RowAtIs ==
    ASSUME LogInv, NEW n \in 0..Len(log)
    PROVE  /\ RowAt(n) \in Stages
           /\ \/ RowAt(n) = "queued"
              \/ \E i \in 1..n : Marks(log[i]) /\ RowAt(n) = StageOf(log[i])
<1> DEFINE marks == {i \in 1..n : Marks(log[i])}
           i == CHOOSE i \in marks : \A j \in marks : j <= i
<1>1. n \in Nat /\ marks \in SUBSET (1..n) /\ \A k \in 1..n : k \in 1..Len(log)
  BY DEF LogInv, ServerTypeOK
<1>2. RowAt(n) = IF marks = {} THEN "queued" ELSE StageOf(log[i])
  BY DEF RowAt
<1>3. CASE marks = {}
  BY <1>2, <1>3 DEF Stages
<1>4. CASE marks # {}
  <2>1. i \in marks
    <3> HIDE DEF marks
    <3> QED
      BY <1>1, <1>4, Greatest
  <2>2. i \in 1..n /\ Marks(log[i]) /\ RowAt(n) = StageOf(log[i])
    BY <1>2, <1>4, <2>1
  <2> HIDE DEF i
  <2>3. log[i] \in Event
    BY <1>1, <2>2 DEF LogInv, ServerTypeOK
  <2>4. StageOf(log[i]) \in Stages
    <3> DEFINE x == log[i]
    <3>1. x \in Event /\ Marks(x)
      BY <2>2, <2>3
    <3> HIDE DEF x
    <3>2. x.type = "status" => x.of \in Stages
      BY <3>1 DEF Event, SectionTypes
    <3>3. x.type # "status" => x.type \in Stages
      BY <3>1 DEF Marks, Stages, Terminal
    <3>4. StageOf(x) \in Stages
      BY <3>2, <3>3 DEF StageOf
    <3> QED
      BY <3>4 DEF x
  <2> QED
    BY <2>2, <2>4
<1> QED
  BY <1>3, <1>4

\* What an event does to the state, but for sections and claims.
LEMMA ReduceIs ==
    ASSUME NEW v \in ViewType, NEW e \in Event, e.type # "report_delta"
    PROVE  LET r == Reduce(v, e)
           IN  /\ r \in ViewType
               /\ r.status = IF e.type = "status" THEN e.of
                             ELSE IF e.type \in {"awaiting_plan", "error", "done"} THEN e.type ELSE v.status
               /\ r.awaiting = IF e.type = "status" THEN e.of = "awaiting_plan"
                               ELSE IF e.type = "awaiting_plan" THEN TRUE
                               ELSE IF e.type = "done" THEN FALSE ELSE v.awaiting
               /\ r.report = IF e.type = "report" THEN Markdown ELSE v.report
               /\ r.final = IF e.type \in {"report", "done"} THEN TRUE ELSE v.final
               /\ r.failed = IF e.type = "error" THEN TRUE ELSE v.failed
<1> DEFINE r == Reduce(v, e)
           As == /\ r \in ViewType
                 /\ r.status = IF e.type = "status" THEN e.of
                               ELSE IF e.type \in {"awaiting_plan", "error", "done"} THEN e.type ELSE v.status
                 /\ r.awaiting = IF e.type = "status" THEN e.of = "awaiting_plan"
                                 ELSE IF e.type = "awaiting_plan" THEN TRUE
                                 ELSE IF e.type = "done" THEN FALSE ELSE v.awaiting
                 /\ r.report = IF e.type = "report" THEN Markdown ELSE v.report
                 /\ r.final = IF e.type \in {"report", "done"} THEN TRUE ELSE v.final
                 /\ r.failed = IF e.type = "error" THEN TRUE ELSE v.failed
<1> SUFFICES As
  OBVIOUS
<1>0. /\ Absent \in SectionState /\ Empty \in SectionState
      /\ \A s \in Sections : Upsert(v, s) \in SectionState
  <2>1. << >> \in Seq(Sections)
    OBVIOUS
  <2> QED
    BY <2>1 DEF Absent, Empty, SectionState, Upsert, ViewType
<1>9. {"awaiting_plan", "error", "done"} \subseteq Stages
  BY DEF Stages, Terminal
<1>1. CASE e.type = "status"
  <2>1. r = [v EXCEPT !.status = e.of, !.awaiting = (e.of = "awaiting_plan")]
    BY <1>1 DEF Reduce
  <2>2. e.of \in Stages /\ (e.of = "awaiting_plan") \in BOOLEAN
    BY <1>1 DEF Event, SectionTypes
  <2> HIDE DEF r
  <2>8. r \in ViewType
    BY <2>1, <2>2 DEF ViewType
  <2>9. r.status = e.of /\ r.awaiting = (e.of = "awaiting_plan") /\ r.report = v.report /\ r.final = v.final /\ r.failed = v.failed
    BY <2>1, <2>2 DEF ViewType
  <2> HIDE DEF r
  <2> QED
    BY <1>1, <2>8, <2>9
<1>2. CASE e.type = "plan"
  <2> DEFINE f == [s \in Sections |-> IF s \in Drafted THEN Upsert(v, s) ELSE v.sections[s]]
  <2>1. r = [v EXCEPT !.planned = TRUE, !.sections = f]
    BY <1>2 DEF Reduce
  <2>2. f \in [Sections -> SectionState]
    BY <1>0 DEF ViewType
  <2> HIDE DEF r, f
  <2>8. r \in ViewType
    BY <2>1, <2>2 DEF ViewType
  <2>9. r.status = v.status /\ r.awaiting = v.awaiting /\ r.report = v.report /\ r.final = v.final /\ r.failed = v.failed
    BY <2>1, <2>2 DEF ViewType
  <2> HIDE DEF r
  <2> QED
    BY <1>2, <2>8, <2>9
<1>3. CASE e.type = "awaiting_plan"
  <2>1. r = [v EXCEPT !.awaiting = TRUE, !.status = "awaiting_plan"]
    BY <1>3 DEF Reduce
  <2> HIDE DEF r
  <2>8. r \in ViewType
    BY <1>9, <2>1 DEF ViewType
  <2>9. r.status = "awaiting_plan" /\ r.awaiting = TRUE /\ r.report = v.report /\ r.final = v.final /\ r.failed = v.failed
    BY <1>9, <2>1 DEF ViewType
  <2> HIDE DEF r
  <2> QED
    BY <1>3, <2>8, <2>9
<1>4. CASE e.type \in {"section_start", "search", "source", "section_done"}
  <2> DEFINE s == e.of
             old == Upsert(v, s)
             new == CASE e.type = "section_start" -> [old EXCEPT !.status = "active"]
                      [] e.type = "search" ->
                            [old EXCEPT !.status = IF @ = "done" THEN @ ELSE "active",
                                        !.searches = @ + 1]
                      [] e.type = "source" -> [old EXCEPT !.sources = AddSource(@, s)]
                      [] e.type = "section_done" -> [old EXCEPT !.status = "done"]
  <2>1. s \in Sections /\ old \in SectionState
    BY <1>0, <1>4 DEF Event, SectionTypes
  <2>2. r = [v EXCEPT !.sections[s] = new]
    BY <1>4 DEF Reduce, ReduceSection
  <2>3. AddSource(old.sources, s) \in Seq(Sections)
    BY <2>1 DEF AddSource, SectionState
  <2> HIDE DEF r, s, old
  <2>4. new \in SectionState
    <3>1. CASE e.type = "section_start"
      BY <2>1, <3>1 DEF SectionState
    <3>2. CASE e.type = "search"
      <4> DEFINE st == IF old.status = "done" THEN old.status ELSE "active"
                 more == old.searches + 1
      <4>1. new = [old EXCEPT !.status = st, !.searches = more]
        BY <3>2
      <4>2. st \in {"absent", "pending", "active", "done"} /\ more \in Nat
        BY <2>1 DEF SectionState
      <4> HIDE DEF new, st, more
      <4> QED
        BY <2>1, <4>1, <4>2 DEF SectionState
    <3>3. CASE e.type = "source"
      BY <2>1, <2>3, <3>3 DEF SectionState
    <3>4. CASE e.type = "section_done"
      BY <2>1, <3>4 DEF SectionState
    <3> QED
      BY <1>4, <3>1, <3>2, <3>3, <3>4
  <2> HIDE DEF new
  <2>8. r \in ViewType
    BY <2>1, <2>2, <2>4 DEF ViewType
  <2>9. r.status = v.status /\ r.awaiting = v.awaiting /\ r.report = v.report /\ r.final = v.final /\ r.failed = v.failed
    BY <2>1, <2>2, <2>4 DEF ViewType
  <2> HIDE DEF r
  <2> QED
    BY <1>4, <2>8, <2>9
<1>5. CASE e.type \in {"claim", "verification"}
  <2> DEFINE s == e.of
             new == CASE e.type = "claim" -> IF v.claims[s] = "none" THEN "open" ELSE v.claims[s]
                      [] e.type = "verification" -> IF v.claims[s] = "none" THEN v.claims[s] ELSE "verified"
  <2>1. s \in Sections
    BY <1>5 DEF Event, SectionTypes
  <2>2. r = [v EXCEPT !.claims[s] = new]
    BY <1>5 DEF Reduce, ReduceClaim
  <2>3. new \in {"none", "open", "verified"}
    BY <1>5, <2>1 DEF ViewType
  <2> HIDE DEF r, s, new
  <2>8. r \in ViewType
    BY <2>1, <2>2, <2>3 DEF ViewType
  <2>9. r.status = v.status /\ r.awaiting = v.awaiting /\ r.report = v.report /\ r.final = v.final /\ r.failed = v.failed
    BY <2>1, <2>2, <2>3 DEF ViewType
  <2> HIDE DEF r
  <2> QED
    BY <1>5, <2>8, <2>9
<1>6. CASE e.type = "report"
  <2>1. r = [v EXCEPT !.report = Markdown, !.final = TRUE]
    BY <1>6 DEF Reduce
  <2>2. Markdown \in Seq(0..Chunks)
    <3>1. 0 \in 0..Chunks
      BY ClientAssumption
    <3> QED
      BY <3>1 DEF Markdown
  <2> HIDE DEF r
  <2>8. r \in ViewType
    BY <2>1, <2>2 DEF ViewType
  <2>9. r.status = v.status /\ r.awaiting = v.awaiting /\ r.report = Markdown /\ r.final = TRUE /\ r.failed = v.failed
    BY <2>1, <2>2 DEF ViewType
  <2> HIDE DEF r
  <2> QED
    BY <1>6, <2>8, <2>9
<1>7. CASE e.type = "error"
  <2>1. r = [v EXCEPT !.failed = TRUE, !.status = "error"]
    BY <1>7 DEF Reduce
  <2> HIDE DEF r
  <2>8. r \in ViewType
    BY <1>9, <2>1 DEF ViewType
  <2>9. r.status = "error" /\ r.awaiting = v.awaiting /\ r.report = v.report /\ r.final = v.final /\ r.failed = TRUE
    BY <1>9, <2>1 DEF ViewType
  <2> HIDE DEF r
  <2> QED
    BY <1>7, <2>8, <2>9
<1>8. CASE e.type = "done"
  <2>1. r = [v EXCEPT !.status = "done", !.awaiting = FALSE, !.final = TRUE]
    BY <1>8 DEF Reduce
  <2> HIDE DEF r
  <2>8. r \in ViewType
    BY <1>9, <2>1 DEF ViewType
  <2>9. r.status = "done" /\ r.awaiting = FALSE /\ r.report = v.report /\ r.final = TRUE /\ r.failed = v.failed
    BY <1>9, <2>1 DEF ViewType
  <2> HIDE DEF r
  <2> QED
    BY <1>8, <2>8, <2>9
<1> QED
  BY <1>1, <1>2, <1>3, <1>4, <1>5, <1>6, <1>7, <1>8 DEF Event, SectionTypes

\* What hydrating does to the state, but for the sections.
LEMMA HydratedIs ==
    ASSUME LogInv, NEW v \in ViewType, NEW n \in 0..Len(log)
    PROVE  LET h == Hydrated(v, n)
           IN  /\ h \in ViewType
               /\ h.status = RowAt(n) /\ h.awaiting = (RowAt(n) = "awaiting_plan")
               /\ h.report = IF HasType(n, "report") THEN Markdown ELSE v.report
               /\ h.final = IF HasType(n, "report") THEN RowAt(n) = "done" ELSE v.final
               /\ h.failed = v.failed
<1> DEFINE h == Hydrated(v, n)
           f == IF HasType(n, "plan") THEN HydratedSections(n) ELSE v.sections
           m == IF HasType(n, "report") THEN Markdown ELSE v.report
           b == IF HasType(n, "report") THEN RowAt(n) = "done" ELSE v.final
           p == v.planned \/ HasType(n, "plan")
           a == RowAt(n) = "awaiting_plan"
<1>1. RowAt(n) \in Stages /\ a \in BOOLEAN
  BY RowAtIs
<1>2. f \in [Sections -> SectionState]
  <2>1. \A s \in Sections : SourcesAt(n, s) \in Seq(Sections)
    BY DEF SourcesAt
  <2>2. Absent \in SectionState
    <3>1. << >> \in Seq(Sections)
      OBVIOUS
    <3> QED
      BY <3>1 DEF Absent, SectionState
  <2>3. \A s \in Sections : [Empty EXCEPT !.sources = SourcesAt(n, s),
                                          !.status = IF RowAt(n) = "done" THEN "done" ELSE "pending"]
                                \in SectionState
    BY <2>1 DEF Empty, SectionState
  <2>4. HydratedSections(n) \in [Sections -> SectionState]
    BY <2>2, <2>3 DEF HydratedSections
  <2> QED
    BY <2>4 DEF ViewType
<1>3. m \in Seq(0..Chunks)
  <2>1. Markdown \in Seq(0..Chunks)
    <3>1. 0 \in 0..Chunks
      BY ClientAssumption
    <3> QED
      BY <3>1 DEF Markdown
  <2>2. v.report \in Seq(0..Chunks)
    BY DEF ViewType
  <2> QED
    BY <2>1, <2>2
<1>4. b \in BOOLEAN
  BY DEF ViewType
<1>5. p \in BOOLEAN
  BY DEF ViewType, HasType
<1>6. h = [v EXCEPT !.status = RowAt(n), !.awaiting = a, !.planned = p, !.sections = f, !.report = m,
                    !.final = b]
  BY DEF Hydrated
<1> HIDE DEF h, f, m, b, p, a
<1>7. /\ h \in ViewType /\ h.status = RowAt(n) /\ h.awaiting = a /\ h.report = m /\ h.final = b
      /\ h.failed = v.failed
  BY <1>1, <1>2, <1>3, <1>4, <1>5, <1>6 DEF ViewType
<1> QED
  BY <1>7 DEF h, m, b, a

-----------------------------------------------------------------------------
(* Updates of the page *)

\* What flushing the buffer does to the state.
LEMMA FlushedIs ==
    ASSUME TypeOK
    PROVE  /\ Flushed \in ViewType /\ Flushed.report = view.report \o buffer
           /\ Flushed.status = view.status /\ Flushed.awaiting = view.awaiting
           /\ Flushed.final = view.final /\ Flushed.failed = view.failed
<1> DEFINE t == view.report \o buffer
<1>1. view \in ViewType /\ buffer \in Seq(0..Chunks)
  <2> DEFINE A == 1..Chunks
             B == 0..Chunks
  <2>1. buffer \in Seq(A) /\ A \subseteq B
    BY DEF TypeOK
  <2>2. view \in ViewType
    BY DEF TypeOK
  <2> HIDE DEF A, B
  <2>3. buffer \in Seq(B)
    BY <2>1
  <2> QED
    BY <2>2, <2>3 DEF B
<1>2. t \in Seq(0..Chunks)
  BY <1>1 DEF ViewType
<1>3. Flushed = [view EXCEPT !.report = t]
  BY DEF Flushed
<1> HIDE DEF t
<1>4. /\ Flushed \in ViewType /\ Flushed.report = t
      /\ Flushed.status = view.status /\ Flushed.awaiting = view.awaiting
      /\ Flushed.final = view.final /\ Flushed.failed = view.failed
  BY <1>1, <1>2, <1>3 DEF ViewType
<1> QED
  BY <1>4 DEF t

\* What the page does by itself when a request returns.
LEMMA ConfirmedIs ==
    ASSUME TypeOK
    PROVE  LET c == [view EXCEPT !.status = "cancelled", !.awaiting = FALSE]
               a == [view EXCEPT !.awaiting = FALSE]
           IN  /\ c \in ViewType /\ c.status = "cancelled" /\ c.report = view.report /\ c.final = view.final
               /\ a \in ViewType /\ a.status = view.status /\ a.report = view.report /\ a.final = view.final
<1>1. view \in ViewType
  BY DEF TypeOK
<1>2. "cancelled" \in Stages
  BY DEF Stages, Terminal
<1> QED
  BY <1>1, <1>2 DEF ViewType

\* No step takes an event out of the log.
LEMMA LogExtends ==
    ASSUME LogInv, TypeOK, [Next]_vars
    PROVE  /\ Len(log) \in Nat /\ Len(log') \in Nat /\ Len(log) <= Len(log')
           /\ \A i \in 1..Len(log) : i \in 1..Len(log') /\ log'[i] = log[i]
<1>1. CASE UNCHANGED <<log, row>>
  BY <1>1 DEF TypeOK
<1>2. CASE \E e : Emits(e) /\ Stores(e)
  <2>1. PICK e : Emits(e) /\ Stores(e)
    BY <1>2
  <2>2. e \in Event
    BY <2>1, EmitsIs DEF LogInv
  <2> DEFINE l == Len(log)
  <2>3. Len(log') = l + 1 /\ l \in Nat /\ \A i \in 1..l : log'[i] = log[i]
    BY <2>1, <2>2, LogGrows DEF LogInv
  <2>4. l = Len(log)
    OBVIOUS
  <2> HIDE DEF l
  <2> QED
    BY <2>3, <2>4
<1> QED
  BY <1>1, <1>2, ServerStep

\* How many chunks there are among one event more.
LEMMA NextChunk ==
    ASSUME LogInv, NEW k \in Nat, k + 1 \in 1..Len(log)
    PROVE  /\ ChunksIn(log, k) \in Nat
           /\ ChunksIn(log, k + 1) = IF log[k + 1].type = "report_delta" THEN ChunksIn(log, k) + 1
                                     ELSE ChunksIn(log, k)
<1> DEFINE S == {i \in 1..k : log[i].type = "report_delta"}
           T == {i \in 1..(k + 1) : log[i].type = "report_delta"}
           l == Len(log)
<1>1. l \in Nat
  BY DEF LogInv, ServerTypeOK
<1>2. k + 1 \in 1..l
  OBVIOUS
<1> HIDE DEF l
<1>3. k \in 0..l
  BY <1>1, <1>2
<1>4. IsFiniteSet(S) /\ ChunksIn(log, k) \in Nat
  BY <1>3, CountsAreNat DEF LogInv, l
<1>5. k + 1 \notin S
  OBVIOUS
<1>6. T = IF log[k + 1].type = "report_delta" THEN S \cup {k + 1} ELSE S
  <2>1. \A i \in 1..(k + 1) : i = k + 1 \/ i \in 1..k
    OBVIOUS
  <2>2. \A i \in 1..k : i \in 1..(k + 1)
    OBVIOUS
  <2>3. k + 1 \in 1..(k + 1)
    OBVIOUS
  <2> QED
    BY <2>1, <2>2, <2>3
<1>7. ChunksIn(log, k + 1) = Cardinality(T) /\ ChunksIn(log, k) = Cardinality(S)
  BY DEF ChunksIn
<1> HIDE DEF S, T
<1>8. Cardinality(S \cup {k + 1}) = IF k + 1 \in S THEN Cardinality(S) ELSE Cardinality(S) + 1
  BY <1>4, FS_AddElement
<1> QED
  BY <1>4, <1>5, <1>6, <1>7, <1>8

\* A chunk at the end of the buffer is one at the end of the text.
LEMMA AppendLast ==
    ASSUME NEW S, NEW r \in Seq(S), NEW b \in Seq(S), NEW x \in S
    PROVE  r \o b \in Seq(S) /\ r \o Append(b, x) = Append(r \o b, x)
<1>1. <<x>> \in Seq(S)
  OBVIOUS
<1>2. r \o b \in Seq(S)
  BY ConcatProperties
<1>3. Append(b, x) = b \o <<x>> /\ Append(r \o b, x) = (r \o b) \o <<x>>
  BY <1>2, AppendIsConcat
<1>4. (r \o b) \o <<x>> = r \o (b \o <<x>>)
  BY <1>1, ConcatAssociative
<1> QED
  BY <1>2, <1>3, <1>4

\* The first c chunks of a report.
FirstChunks(c) == [n \in 1..c |-> n]

\* One chunk more after those that are there.
LEMMA OneChunkMore ==
    ASSUME NEW S, NEW r \in Seq(S), NEW b \in Seq(S), NEW c \in Nat, c + 1 \in S
    PROVE  r \o b = FirstChunks(c) => r \o Append(b, c + 1) = FirstChunks(c + 1)
<1> DEFINE t == r \o b
           u == r \o Append(b, c + 1)
<1>1. t \in Seq(S) /\ u = Append(t, c + 1)
  <2> DEFINE x == c + 1
  <2>1. x \in S
    OBVIOUS
  <2> HIDE DEF x
  <2>2. r \o b \in Seq(S) /\ r \o Append(b, x) = Append(r \o b, x)
    BY <2>1, AppendLast
  <2> QED
    BY <2>2 DEF x
<1> SUFFICES ASSUME t = [n \in 1..c |-> n]
             PROVE  u = [n \in 1..(c + 1) |-> n]
  BY DEF FirstChunks
<1>2. Len(t) = c /\ \A n \in 1..c : t[n] = n
  <2>1. DOMAIN t = 1..c
    OBVIOUS
  <2> QED
    BY <1>1, <2>1
<1> HIDE DEF t, u
<1>3. u \in Seq(S) /\ Len(u) = c + 1 /\ \A n \in 1..c : u[n] = n
  BY <1>1, <1>2
<1>4. u[c + 1] = c + 1
  BY <1>1, <1>2
<1>5. DOMAIN u = 1..(c + 1) /\ \A n \in 1..(c + 1) : u[n] = n
  <2>1. \A n \in 1..(c + 1) : n \in 1..c \/ n = c + 1
    OBVIOUS
  <2> QED
    BY <1>3, <1>4, <2>1
<1> QED
  BY <1>3, <1>5

\* The chunks of the first c that follow the first k.
ChunksBetween(k, c) == [i \in 1..(c - k) |-> k + i]

\* A text that is the report with the last of c chunks behind it.
Trailed(t, c) == \E k \in 0..c : t = Markdown \o ChunksBetween(k, c)

LEMMA BetweenGrows ==
    ASSUME NEW c \in Nat, NEW k \in 0..c
    PROVE  /\ ChunksBetween(k, c) \in Seq(Nat)
           /\ ChunksBetween(k, c + 1) = Append(ChunksBetween(k, c), c + 1)
<1> DEFINE q == ChunksBetween(k, c)
<1>1. c - k \in Nat /\ q = [i \in 1..(c - k) |-> k + i]
  BY DEF ChunksBetween
<1>2. \A i \in 1..(c - k) : k + i \in Nat
  OBVIOUS
<1>3. q \in Seq(Nat) /\ Len(q) = c - k /\ \A i \in 1..(c - k) : q[i] = k + i
  BY <1>1, <1>2
<1> HIDE DEF q
<1>4. Append(q, c + 1) = [i \in 1..((c - k) + 1) |-> IF i = (c - k) + 1 THEN c + 1 ELSE q[i]]
  BY <1>1, <1>3
<1>5. \A i \in 1..((c - k) + 1) : (IF i = (c - k) + 1 THEN c + 1 ELSE q[i]) = k + i
  <2> SUFFICES ASSUME NEW i \in 1..((c - k) + 1), i # (c - k) + 1
               PROVE  q[i] = k + i
    OBVIOUS
  <2>1. i \in 1..(c - k)
    BY <1>1
  <2> QED
    BY <1>3, <2>1
<1>6. (c - k) + 1 = (c + 1) - k
  OBVIOUS
<1> QED
  BY <1>3, <1>4, <1>5, <1>6 DEF ChunksBetween, q

\* So it is with one chunk more.
LEMMA TrailGrows ==
    ASSUME NEW t, NEW c \in Nat, Trailed(t, c)
    PROVE  Trailed(Append(t, c + 1), c + 1)
<1>1. PICK k \in 0..c : t = Markdown \o ChunksBetween(k, c)
  BY DEF Trailed
<1> DEFINE m == Markdown
           b == ChunksBetween(k, c)
           x == c + 1
<1>2. m \in Seq(Nat) /\ b \in Seq(Nat) /\ x \in Nat
  BY BetweenGrows DEF Markdown
<1>3. b = ChunksBetween(k, c) /\ t = m \o b
  BY <1>1
<1> HIDE DEF m, b, x
<1>4. m \o Append(b, x) = Append(m \o b, x)
  BY <1>2, AppendLast
<1>5. ChunksBetween(k, c + 1) = Append(b, x)
  BY <1>3, BetweenGrows DEF x
<1>6. Append(t, x) = m \o ChunksBetween(k, c + 1)
  BY <1>3, <1>4, <1>5
<1>7. Append(t, c + 1) = Markdown \o ChunksBetween(k, c + 1) /\ k \in 0..(c + 1)
  BY <1>6 DEF m, x
<1> QED
  BY <1>7, Zenon DEF Trailed

\* A report alone is one, whatever was received before it.
LEMMA TrailBegins ==
    ASSUME NEW c \in Nat
    PROVE  Trailed(Markdown \o << >>, c)
<1>1. ChunksBetween(c, c) = << >>
  BY DEF ChunksBetween
<1>2. Markdown \o << >> = Markdown \o ChunksBetween(c, c) /\ c \in 0..c
  BY <1>1
<1> QED
  BY <1>2, Zenon DEF Trailed

-----------------------------------------------------------------------------
(* Types *)

PageTypeOK ==
    /\ seen \subseteq 1..Len(log)
    /\ buffer \in Seq(1..Chunks) /\ timer \in BOOLEAN
    /\ view \in ViewType
    /\ conn \in {"idle", "connecting", "open", "closed", "error"}
    /\ phase \in {"hydrate", "answered", "open", "reading", "over"} /\ again \in BOOLEAN
    /\ detail \in 0..Len(log) /\ pos \in 0..Len(log)
    /\ cancelling \in {"no", "posted", "answered"}
    /\ approving \in {"no", "posted", "answered", "refused"}
    /\ draft \subseteq Sections /\ sent \subseteq Sections
    /\ losses \in 0..MaxLosses

LEMMA TypesAre == TypeOK <=> ServerTypeOK /\ PageTypeOK
BY DEF TypeOK, ServerTypeOK, PageTypeOK

LEMMA InitTyped == Init => TypeOK
<1> SUFFICES ASSUME Init PROVE TypeOK
  OBVIOUS
<1>1. view \in ViewType
  <2> DEFINE ss == [s \in Sections |-> Absent]
             cs == [s \in Sections |-> "none"]
  <2>1. << >> \in Seq(Sections) /\ << >> \in Seq(0..Chunks)
    OBVIOUS
  <2>2. ss \in [Sections -> SectionState] /\ cs \in [Sections -> {"none", "open", "verified"}]
    BY <2>1 DEF Absent, SectionState
  <2>3. view = [status |-> "queued", awaiting |-> FALSE, planned |-> FALSE, sections |-> ss, claims |-> cs,
                report |-> << >>, final |-> FALSE, failed |-> FALSE]
    BY DEF Init, Initial
  <2>4. "queued" \in Stages
    BY DEF Stages
  <2> HIDE DEF ss, cs
  <2> QED
    BY <2>1, <2>2, <2>3, <2>4 DEF ViewType
<1>2. log \in Seq(Event) /\ row \in Stages /\ approved \subseteq Sections
  BY ClientAssumption DEF Init, Stages
<1>3. Len(log) = 0
  BY DEF Init
<1>4. detail \in 0..Len(log) /\ pos \in 0..Len(log) /\ losses \in 0..MaxLosses
  BY <1>3, ClientAssumption DEF Init
<1>5. buffer \in Seq(1..Chunks)
  BY DEF Init
<1> QED
  BY <1>1, <1>2, <1>4, <1>5, ClientAssumption DEF Init, TypeOK, FreshDraft

\* Showing a state keeps the types.
LEMMA ShowsTyped ==
    ASSUME TypeOK, NEW v \in ViewType, Shows(v)
    PROVE  view' \in ViewType /\ draft' \subseteq Sections
<1>1. draft' \in {draft, Drafted} /\ view' = v
  BY DEF Shows, FreshDraft
<1> QED
  BY <1>1, ClientAssumption DEF TypeOK

\* Every step keeps the types.
LEMMA TypeStep ==
    ASSUME LogInv, TypeOK, [Next]_vars
    PROVE  TypeOK'
<1>1. ServerTypeOK'
  BY LogStep DEF LogInv
<1> DEFINE l == Len(log)
<1>2. /\ l \in Nat /\ Len(log') \in Nat /\ l <= Len(log')
  BY LogExtends
<1>3. l = Len(log)
  OBVIOUS
<1> HIDE DEF l
<1> SUFFICES PageTypeOK'
  BY <1>1 DEF TypeOK, ServerTypeOK, PageTypeOK
<1>4. ASSUME UNCHANGED <<refVars, view, conn, effectVars, draft, losses>>, sent' \subseteq Sections,
             cancelling' \in {"no", "posted", "answered"}, approving' \in {"no", "posted", "answered", "refused"}
      PROVE  PageTypeOK'
  <2>1. 1..l \subseteq 1..Len(log') /\ 0..l \subseteq 0..Len(log')
    BY <1>2
  <2> QED
    BY <1>3, <1>4, <2>1 DEF TypeOK, PageTypeOK, refVars, effectVars
<1>5. CASE ServerNext
  <2>1. UNCHANGED <<refVars, view, conn, effectVars, draft, losses, sent>>
    BY <1>5 DEF ServerNext, ServerEmits, ServerFails, ApprovedElsewhere, CancelledElsewhere, ServerCancels,
                ServerApproves, ServerRefuses, postVars
  <2>2. cancelling' \in {cancelling, "answered"} /\ approving' \in {approving, "answered", "refused"}
    BY <1>5 DEF ServerNext, ServerEmits, ServerFails, ApprovedElsewhere, CancelledElsewhere, ServerCancels,
                ServerApproves, ServerRefuses, postVars
  <2>3. UNCHANGED <<refVars, view, conn, effectVars, draft, losses>>
    BY <2>1
  <2>4. sent' \subseteq Sections /\ cancelling' \in {"no", "posted", "answered"}
        /\ approving' \in {"no", "posted", "answered", "refused"}
    BY <2>1, <2>2 DEF TypeOK
  <2> QED
    BY <1>4, <2>3, <2>4
<1>6. CASE ClicksCancel \/ CancelFails \/ ClicksApprove \/ ApproveFails \/ UNCHANGED vars
  <2>1. UNCHANGED <<refVars, view, conn, effectVars, draft, losses>>
    BY <1>6 DEF ClicksCancel, CancelFails, ClicksApprove, ApproveFails, vars
  <2>2. cancelling' \in {cancelling, "no", "posted"} /\ approving' \in {approving, "no", "posted"}
        /\ sent' \in {sent, draft, Drafted}
    BY <1>6 DEF ClicksCancel, CancelFails, ClicksApprove, ApproveFails, vars, postVars
  <2>3. sent' \subseteq Sections /\ cancelling' \in {"no", "posted", "answered"}
        /\ approving' \in {"no", "posted", "answered", "refused"}
    BY <2>2, ClientAssumption DEF TypeOK
  <2> QED
    BY <1>4, <2>1, <2>3
<1>7. CASE EditsPlan
  BY <1>7 DEF EditsPlan, serverVars, refVars, effectVars, postVars, TypeOK, PageTypeOK
<1>8. CASE ServerAnswers \/ HydrateFails \/ Opens
  <2>1. UNCHANGED <<serverVars, refVars, view, pos, postVars, draft, losses>>
    BY <1>8 DEF ServerAnswers, HydrateFails, Opens
  <2>2. detail' \in {detail, Len(log)} /\ phase' \in {phase, "answered", "open", "reading"}
        /\ conn' \in {conn, "connecting", "open"} /\ again' \in BOOLEAN
    BY <1>8 DEF ServerAnswers, HydrateFails, Opens, TypeOK
  <2>3. Len(log) \in 0..Len(log)
    BY <1>2, <1>3
  <2> QED
    BY <2>1, <2>2, <2>3 DEF TypeOK, PageTypeOK, serverVars, refVars, postVars
<1>9. CASE Hydrates
  <2>1. Hydrated(view, detail) \in ViewType
    BY HydratedIs DEF TypeOK
  <2>2. view' \in ViewType /\ draft' \subseteq Sections
    BY <1>9, <2>1, ShowsTyped DEF Hydrates
  <2>3. UNCHANGED <<serverVars, refVars, pos, postVars, losses>> /\ detail' = 0 /\ again' = FALSE
        /\ phase' \in {"over", "open"} /\ conn' \in {"closed", "connecting"}
    BY <1>9 DEF Hydrates, HydrateEnds
  <2>4. 0 \in 0..Len(log)
    BY <1>2, <1>3
  <2> QED
    BY <2>2, <2>3, <2>4 DEF TypeOK, PageTypeOK, serverVars, refVars, postVars
<1>10. ASSUME Delivers
       PROVE  pos + 1 \in 1..Len(log) /\ pos' \in 0..Len(log) /\ seen \cup {pos + 1} \subseteq 1..Len(log)
  <2>1. pos \in 0..l /\ pos < l /\ pos' = pos + 1
    BY <1>3, <1>10 DEF Delivers, TypeOK
  <2>2. pos + 1 \in 1..l /\ pos' \in 0..l
    BY <1>2, <2>1
  <2> QED
    BY <1>3, <2>2 DEF TypeOK
<1>11. CASE SkipsEvent
  BY <1>10, <1>11 DEF SkipsEvent, serverVars, refVars, postVars, TypeOK, PageTypeOK
<1>12. CASE BuffersChunk
  <2> DEFINE x == log[pos + 1].of
  <2>1. log[pos + 1] \in Event /\ log[pos + 1].type = "report_delta"
    BY <1>10, <1>12 DEF BuffersChunk, TypeOK
  <2>2. x \in 1..Chunks
    BY <2>1 DEF Event, SectionTypes
  <2>3. buffer' = Append(buffer, x)
    BY <1>12 DEF BuffersChunk
  <2> HIDE DEF x
  <2>4. buffer' \in Seq(1..Chunks)
    BY <2>2, <2>3 DEF TypeOK
  <2>5. seen' \subseteq 1..Len(log) /\ pos' \in 0..Len(log) /\ timer' = TRUE
    BY <1>10, <1>12 DEF BuffersChunk
  <2>6. UNCHANGED <<serverVars, view, conn, phase, again, detail, postVars, draft, losses>>
    BY <1>12 DEF BuffersChunk
  <2> QED
    BY <2>4, <2>5, <2>6 DEF serverVars, postVars, TypeOK, PageTypeOK
<1>13. CASE AppliesEvent
  <2> DEFINE e == log[pos + 1]
  <2>1. e \in Event
    BY <1>10, <1>13 DEF AppliesEvent, TypeOK
  <2>2. /\ e.type # "report_delta" /\ seen' = seen \cup {pos + 1} /\ Delivers
        /\ \/ Shows(Reduce(Flushed, e)) /\ buffer' = << >> /\ timer' = FALSE
           \/ Shows(Reduce(view, e)) /\ UNCHANGED <<buffer, timer>>
        /\ UNCHANGED <<serverVars, conn, phase, again, detail, postVars, losses>>
    BY <1>13 DEF AppliesEvent
  <2> HIDE DEF e
  <2>3. Reduce(Flushed, e) \in ViewType /\ Reduce(view, e) \in ViewType
    BY <2>1, <2>2, FlushedIs, ReduceIs DEF TypeOK
  <2>4. view' \in ViewType /\ draft' \subseteq Sections
    <3>1. CASE Shows(Reduce(Flushed, e))
      BY <2>3, <3>1, ShowsTyped
    <3>2. CASE Shows(Reduce(view, e))
      BY <2>3, <3>2, ShowsTyped
    <3> QED
      BY <2>2, <3>1, <3>2
  <2>5. buffer' \in Seq(1..Chunks) /\ timer' \in BOOLEAN
    <3>1. << >> \in Seq(1..Chunks)
      OBVIOUS
    <3>2. buffer' \in {<< >>, buffer} /\ timer' \in {FALSE, timer}
      BY <2>2
    <3> QED
      BY <3>1, <3>2 DEF TypeOK
  <2> QED
    BY <1>10, <2>2, <2>4, <2>5 DEF serverVars, postVars, TypeOK, PageTypeOK
<1>14. CASE FlushTimer \/ StreamCloses \/ ConnectionLost
  <2>1. Shows(Flushed) /\ buffer' = << >> /\ timer' = FALSE /\ UNCHANGED <<serverVars, seen, again, detail, postVars>>
        /\ pos' \in {pos, 0} /\ phase' \in {phase, "over"} /\ conn' \in {conn, "closed", "error"}
    BY <1>14 DEF FlushTimer, StreamCloses, ConnectionLost, effectVars
  <2>2. losses' \in 0..MaxLosses
    <3>1. CASE ConnectionLost
      BY <3>1, ClientAssumption DEF ConnectionLost, TypeOK
    <3>2. CASE FlushTimer \/ StreamCloses
      BY <3>2 DEF FlushTimer, StreamCloses, TypeOK
    <3> QED
      BY <1>14, <3>1, <3>2
  <2>3. view' \in ViewType /\ draft' \subseteq Sections
    BY <2>1, FlushedIs, ShowsTyped
  <2>4. 0 \in 0..Len(log)
    BY <1>2, <1>3
  <2>5. buffer' \in Seq(1..Chunks)
    BY <2>1
  <2> QED
    BY <2>1, <2>2, <2>3, <2>4, <2>5 DEF serverVars, postVars, TypeOK, PageTypeOK
<1>15. CASE Retry
  <2>1. 0 \in 0..Len(log) /\ << >> \in Seq(1..Chunks)
    BY <1>2, <1>3
  <2> QED
    BY <1>15, <2>1 DEF Retry, KeptSeqs, serverVars, postVars, TypeOK, PageTypeOK
<1>16. CASE CancelConfirmed
  <2>1. view' \in ViewType /\ draft' \subseteq Sections
    BY <1>16, ConfirmedIs, ShowsTyped DEF CancelConfirmed
  <2> QED
    BY <1>16, <2>1 DEF CancelConfirmed, serverVars, refVars, effectVars, TypeOK, PageTypeOK
<1>17. CASE ApproveConfirmed
  <2>1. view' \in ViewType /\ draft' \subseteq Sections
    BY <1>17, ConfirmedIs, ShowsTyped DEF ApproveConfirmed
  <2> QED
    BY <1>17, <2>1, ClientAssumption DEF ApproveConfirmed, serverVars, refVars, effectVars, TypeOK, PageTypeOK
<1> QED
  BY <1>5, <1>6, <1>7, <1>8, <1>9, <1>11, <1>12, <1>13, <1>14, <1>15, <1>16, <1>17 DEF Next

-----------------------------------------------------------------------------
(* What the page shows *)

\* Whether the report is stored.
ReportStored == \E i \in 1..Len(log) : log[i].type = "report"

\* awaiting_plan is stored once, and the run leaves the state for good.
AskedLast ==
    \A i \in 1..Len(log) : log[i].type = "awaiting_plan" =>
        i = Len(log) \/ row \notin {"queued", "planning", "awaiting_plan"}

\* What was taken in is a beginning of the log, and what this connection has
\* delivered a part of it.
TakenInOrder == \E k \in 0..Len(log) : seen = 1..k /\ pos <= k

\* Chunks wait, and events are delivered, on an open connection alone.
ReadsOpen ==
    /\ buffer # << >> \/ pos # 0 => phase = "reading"
    /\ phase = "reading" => conn = "open"

\* A request that was answered has had its effect.
AnswersMeant ==
    /\ cancelling = "answered" => row \in Terminal
    /\ approving = "answered" => approved # {}

\* The report replaces what was streamed of it.
ReportReplaces == SeenReport => view.report = Markdown /\ buffer = << >>

\* A report said to be final is the whole, and will not be streamed again.
FinalIsWhole ==
    view.final => /\ view.report = Markdown /\ buffer = << >>
                  /\ SeenReport \/ (phase = "over" /\ conn = "closed")

DoneIsFinal == view.status = "done" => view.final

\* Until the report is received the page and the buffer hold the chunks so far,
\* or the stored report with chunks behind it.
ChunksShown ==
    \/ SeenReport
    \/ view.report \o buffer = FirstChunks(SeenChunks)
    \/ ReportStored /\ Trailed(view.report \o buffer, SeenChunks)

\* Whoever has read that the plan waits is shown it.
PlanShown ==
    row = "awaiting_plan" /\ approved = {} /\ Len(log) \in seen =>
        view.awaiting /\ view.status = "awaiting_plan" /\ phase \in {"reading", "over"}

PageInv ==
    /\ AskedLast /\ TakenInOrder /\ ReadsOpen /\ AnswersMeant
    /\ CancelledHasEnded /\ ReportReplaces /\ FinalIsWhole /\ DoneIsFinal
    /\ ChunksShown /\ PlanShown

ClientInv == LogInv /\ TypeOK /\ PageInv

-----------------------------------------------------------------------------
(* Every step keeps it *)

\* The invariant of the page but for the two parts that are not about what it
\* holds.
PageShows ==
    /\ TakenInOrder /\ ReadsOpen /\ CancelledHasEnded /\ ReportReplaces
    /\ FinalIsWhole /\ DoneIsFinal /\ ChunksShown /\ PlanShown

\* What storing an event does to a row that has gone past the question.
LEMMA AskedStep ==
    ASSUME ClientInv, [Next]_vars
    PROVE  AskedLast'
<1> DEFINE l == Len(log)
           Early == {"queued", "planning", "awaiting_plan"}
<1>0. LogInv /\ TypeOK /\ AskedLast
  BY DEF ClientInv, PageInv
<1>1. CASE UNCHANGED <<log, row>>
  BY <1>0, <1>1 DEF AskedLast
<1>2. CASE \E e : Emits(e) /\ Stores(e)
  <2>1. PICK e : Emits(e) /\ Stores(e)
    BY <1>2
  <2>2. /\ e \in Event /\ row \notin Terminal
        /\ e.type = "status" => e.of \in {"planning", "researching", "writing", "cancelled"}
        /\ e.type = "plan" => row = "planning"
        /\ e.type = "awaiting_plan" => row = "planning"
    BY <1>0, <2>1, EmitsIs DEF LogInv
  <2>3. e = Status("planning") => log = << >>
    <3> SUFFICES ASSUME e = Status("planning") PROVE log = << >>
      OBVIOUS
    <3>1. e.type = "status" /\ e.of = "planning"
      BY DEF Status
    <3>2. \A t \in SectionTypes, s \in Sections : e # [type |-> t, of |-> s]
      BY <3>1 DEF SectionTypes
    <3>3. /\ e # Plain("plan") /\ e # Plain("awaiting_plan") /\ e # Plain("report") /\ e # Plain("done")
          /\ e # Plain("error") /\ e # Status("researching") /\ e # Status("writing")
          /\ e # Status("cancelled") /\ e # Chunk(Written + 1)
      BY <3>1 DEF Plain, Status, Chunk
    <3> QED
      BY <2>1, <3>2, <3>3 DEF Emits
  <2>4. Len(log') = l + 1 /\ l \in Nat /\ (\A i \in 1..l : log'[i] = log[i]) /\ log'[l + 1] = e
    BY <1>0, <2>2, <2>1, LogGrows DEF LogInv
  <2>5. log # << >> => l \in 1..l
    BY <1>0 DEF TypeOK
  <2>6. row' = IF Marks(e) THEN StageOf(e) ELSE row
    BY <2>1 DEF Stores
  <2>7. ASSUME NEW i \in 1..l, log[i].type = "awaiting_plan"
        PROVE  row' \notin Early
    <3>1. log # << >>
      BY <2>4
    <3>2. CASE i = l
      <4>1. row = "awaiting_plan"
        BY <1>0, <2>7, <3>1, <3>2 DEF LogInv, RowTells, Marks, StageOf
      <4>2. e.type \notin {"plan", "awaiting_plan"} /\ e # Status("planning")
        BY <2>2, <2>3, <3>1, <4>1
      <4>3. Marks(e)
        <5>1. e = Status("researching") \/ e \in {Plain("error"), Status("cancelled")}
          BY <2>1, <3>1, <3>2, <2>7, <4>1, <4>2 DEF Emits, Status, Plain
        <5> QED
          BY <5>1 DEF Marks, Status, Plain
      <4>4. e.type = "status" => e.of # "planning"
        BY <2>2, <4>2 DEF Event, Status, SectionTypes
      <4> QED
        BY <2>2, <2>6, <4>2, <4>3, <4>4 DEF Marks, StageOf
    <3>3. CASE i # l
      <4>1. row \notin Early
        BY <1>0, <2>7, <3>3 DEF AskedLast
      <4>2. e.type \notin {"plan", "awaiting_plan"} /\ e # Status("planning")
        BY <2>2, <2>3, <3>1, <4>1
      <4>3. e.type = "status" => e.of # "planning"
        BY <2>2, <4>2 DEF Event, Status, SectionTypes
      <4> QED
        BY <2>2, <2>6, <4>1, <4>2, <4>3 DEF Marks, StageOf
    <3> QED
      BY <3>2, <3>3
  <2> HIDE DEF l, Early
  <2>8. \A i \in 1..(l + 1) : i \in 1..l \/ i = l + 1
    BY <2>4
  <2> QED
    BY <2>4, <2>7, <2>8 DEF AskedLast, Early
<1> QED
  BY <1>0, <1>1, <1>2, ServerStep

\* An answer is about what has happened.
LEMMA AnswersStep ==
    ASSUME ClientInv, [Next]_vars
    PROVE  AnswersMeant'
<1>0. LogInv /\ TypeOK /\ AnswersMeant
  BY DEF ClientInv, PageInv
<1>1. (row \in Terminal => row' \in Terminal) /\ (approved # {} => approved' # {})
  BY <1>0, LogStep, ServerStep
<1>2. CASE ServerCancels
  <2>1. row' \in Terminal
    BY <1>1, <1>2 DEF ServerCancels, Stores, Status, Marks, StageOf, Terminal
  <2> QED
    BY <1>0, <1>1, <1>2, <2>1 DEF ServerCancels, AnswersMeant
<1>3. CASE ServerApproves
  BY <1>0, <1>1, <1>3, ClientAssumption DEF ServerApproves, AnswersMeant
<1>4. CASE ~ServerCancels /\ ~ServerApproves
  <2>1. cancelling' \in {cancelling, "no", "posted"} /\ approving' \in {approving, "no", "posted", "refused"}
    <3>1. CASE ServerNext
      BY <1>4, <3>1 DEF ServerNext, ServerEmits, ServerFails, ApprovedElsewhere, CancelledElsewhere, ServerRefuses,
                        postVars
    <3>2. CASE ServerAnswers \/ Hydrates \/ HydrateFails \/ Opens \/ SkipsEvent \/ BuffersChunk \/ AppliesEvent
               \/ FlushTimer \/ StreamCloses \/ ConnectionLost \/ Retry \/ EditsPlan \/ UNCHANGED vars
      BY <3>2 DEF ServerAnswers, Hydrates, HydrateFails, Opens, SkipsEvent, BuffersChunk, AppliesEvent, FlushTimer,
                  StreamCloses, ConnectionLost, Retry, EditsPlan, vars, postVars
    <3>3. CASE ClicksCancel \/ CancelConfirmed \/ CancelFails \/ ClicksApprove \/ ApproveConfirmed \/ ApproveFails
      BY <3>3 DEF ClicksCancel, CancelConfirmed, CancelFails, ClicksApprove, ApproveConfirmed, ApproveFails
    <3> QED
      BY <3>1, <3>2, <3>3 DEF Next
  <2> QED
    BY <1>0, <1>1, <2>1 DEF AnswersMeant
<1> QED
  BY <1>2, <1>3, <1>4

\* What an answer to getRun says of the end of the run.
LEMMA RowAtTells ==
    ASSUME LogInv, NEW n \in 0..Len(log)
    PROVE  /\ RowAt(n) = "cancelled" => row \in Terminal
           /\ RowAt(n) = "done" => HasType(n, "report")
           /\ HasType(n, "report") => ReportStored
<1> DEFINE l == Len(log)
<1>1. l \in Nat /\ n \in 0..l
  BY DEF LogInv, ServerTypeOK
<1>2. \A i \in 1..n : i \in 1..Len(log)
  <2> HIDE DEF l
  <2>1. \A i \in 1..n : i \in 1..l
    BY <1>1
  <2> QED
    BY <2>1 DEF l
<1>3. ASSUME NEW st \in {"cancelled", "done"}, RowAt(n) = st
      PROVE  \E i \in 1..n : log[i] = Status("cancelled") \/ log[i].type = "done"
  <2>1. PICK i \in 1..n : Marks(log[i]) /\ StageOf(log[i]) = st
    BY <1>3, RowAtIs
  <2>2. log[i] \in Event /\ (log[i].type = "status" => log[i].of \in {"planning", "researching", "writing", "cancelled"})
    BY <1>2 DEF LogInv, ServerTypeOK, StagesSent
  <2>3. CASE log[i].type = "status"
    <3>1. log[i].of = "cancelled"
      BY <2>1, <2>2, <2>3 DEF StageOf
    <3>2. log[i] = Status("cancelled")
      BY <2>2, <2>3, <3>1 DEF Event, Status, SectionTypes
    <3> QED
      BY <3>2
  <2>4. CASE log[i].type # "status"
    BY <2>1, <2>4 DEF Marks, StageOf
  <2> QED
    BY <2>3, <2>4
<1>4. RowAt(n) = "cancelled" => row \in Terminal
  BY <1>2, <1>3 DEF LogInv, Verdicts
<1>5. ASSUME RowAt(n) = "done"
      PROVE  HasType(n, "report")
  <2>1. PICK i \in 1..n : Marks(log[i]) /\ StageOf(log[i]) = "done"
    BY <1>5, RowAtIs
  <2>2. log[i].type = "status" => log[i].of \in {"planning", "researching", "writing", "cancelled"}
    BY <1>2 DEF LogInv, StagesSent
  <2>3. log[i].type = "done"
    BY <2>1, <2>2 DEF Marks, StageOf
  <2>4. PICK j \in 1..Len(log) : j < i /\ log[j].type = "report"
    BY <1>2, <2>3 DEF LogInv, ReportFirst
  <2>5. i \in 1..n /\ j \in 1..l /\ j < i
    BY <2>4
  <2> HIDE DEF l
  <2>6. j \in 1..n
    BY <1>1, <2>5
  <2> QED
    BY <2>4, <2>6 DEF HasType
<1> QED
  BY <1>2, <1>4, <1>5 DEF HasType, ReportStored

\* A run that waits has asked last.
LEMMA LastAsks ==
    ASSUME LogInv, row = "awaiting_plan"
    PROVE  log # << >> /\ Len(log) \in 1..Len(log) /\ log[Len(log)].type = "awaiting_plan"
<1>1. log # << >>
  BY DEF LogInv, RowTells
<1>2. Len(log) \in 1..Len(log) /\ log[Len(log)] \in Event
  BY <1>1 DEF LogInv, ServerTypeOK
<1> DEFINE last == log[Len(log)]
<1>3. /\ Marks(last) => row = StageOf(last)
      /\ last.type = "plan" => row = "planning"
      /\ last.type \in SectionTypes => row = "researching"
      /\ last.type \in {"report_delta", "report"} => row = "writing"
      /\ last.type = "status" => last.of \in {"planning", "researching", "writing", "cancelled"}
  BY <1>1, <1>2 DEF LogInv, RowTells, StagesSent
<1>4. last \in Event
  BY <1>2
<1> HIDE DEF last
<1>5. last.type = "awaiting_plan"
  <2>1. last.type \in {"status", "report_delta", "plan", "awaiting_plan", "report", "done", "error"} \cup SectionTypes
    BY <1>4 DEF Event
  <2> QED
    BY <1>3, <2>1 DEF Marks, StageOf
<1> QED
  BY <1>1, <1>2, <1>5 DEF last

\* What was taken in of a log that has grown.
LEMMA SeenKept ==
    ASSUME LogInv, TypeOK, [Next]_vars, seen' = seen
    PROVE  (SeenReport' <=> SeenReport) /\ SeenChunks' = SeenChunks /\ (ReportStored => ReportStored')
<1>1. \A i \in 1..Len(log) : i \in 1..Len(log') /\ log'[i] = log[i]
  BY LogExtends
<1>2. \A i \in seen : log'[i] = log[i]
  BY <1>1 DEF TypeOK
<1>3. {n \in seen : log'[n].type = "report_delta"} = {n \in seen : log[n].type = "report_delta"}
  BY <1>2
<1>4. SeenChunks' = SeenChunks
  BY <1>3 DEF SeenChunks
<1>5. SeenReport' <=> SeenReport
  BY <1>2 DEF SeenReport
<1> QED
  BY <1>1, <1>4, <1>5 DEF ReportStored

\* The chunks taken in are counted.
LEMMA SeenCounted ==
    ASSUME LogInv, PageInv
    PROVE  SeenChunks \in Nat
<1>1. PICK k \in 0..Len(log) : seen = 1..k /\ pos <= k
  BY DEF PageInv, TakenInOrder
<1>2. ChunksIn(log, k) \in Nat
  BY <1>1, CountsAreNat DEF LogInv
<1> QED
  BY <1>1, <1>2 DEF SeenChunks, ChunksIn

\* A step that is not the page's.
LEMMA OthersStep ==
    ASSUME ClientInv, [Next]_vars, UNCHANGED <<seen, buffer, view, conn, phase, pos>>
    PROVE  PageShows'
<1>0. LogInv /\ TypeOK /\ PageInv
  BY DEF ClientInv
<1>1. (SeenReport' <=> SeenReport) /\ SeenChunks' = SeenChunks /\ (ReportStored => ReportStored')
  BY <1>0, SeenKept
<1>2. (row \in Terminal => row' \in Terminal) /\ (approved # {} => approved' # {})
  BY <1>0, LogStep, ServerStep
<1> DEFINE l == Len(log)
           m == Len(log')
<1>3. l \in Nat /\ m \in Nat /\ l <= m
  BY <1>0, LogExtends
<1>4. TakenInOrder'
  <2>1. PICK k \in 0..l : seen = 1..k /\ pos <= k
    BY <1>0 DEF PageInv, TakenInOrder
  <2>2. m = Len(log')
    OBVIOUS
  <2> HIDE DEF l, m
  <2>3. k \in 0..m
    BY <1>3, <2>1
  <2> QED
    BY <2>1, <2>2, <2>3 DEF TakenInOrder
<1>5. PlanShown'
  <2>1. CASE UNCHANGED <<log, row>>
    BY <1>0, <1>2, <2>1 DEF PageInv, PlanShown
  <2>2. CASE \E e : Emits(e) /\ Stores(e)
    <3>1. PICK e : Emits(e) /\ Stores(e)
      BY <2>2
    <3>2. e \in Event
      BY <1>0, <3>1, EmitsIs DEF LogInv
    <3>3. m = l + 1
      BY <1>0, <3>1, <3>2, LogGrows DEF LogInv
    <3>4. seen \subseteq 1..l /\ m = Len(log')
      BY <1>0 DEF TypeOK
    <3> HIDE DEF l, m
    <3>5. m \notin seen
      BY <1>3, <3>3, <3>4
    <3> QED
      BY <3>4, <3>5 DEF PlanShown
  <2> QED
    BY <1>0, <2>1, <2>2, ServerStep
<1>6. ReadsOpen' /\ CancelledHasEnded' /\ ReportReplaces' /\ FinalIsWhole' /\ DoneIsFinal' /\ ChunksShown'
  BY <1>0, <1>1, <1>2 DEF PageInv, ReadsOpen, CancelledHasEnded, ReportReplaces, FinalIsWhole, DoneIsFinal,
                          ChunksShown
<1> QED
  BY <1>4, <1>5, <1>6 DEF PageShows

\* A step of the effect that shows nothing.
LEMMA EffectStep ==
    ASSUME ClientInv, UNCHANGED <<serverVars, seen, view>>, buffer' \in {buffer, << >>}, pos' \in {pos, 0},
           \/ phase \in {"hydrate", "answered", "open"}
           \/ phase = "over" /\ conn = "error" /\ ~view.awaiting,
           phase' = "reading" => conn' = "open"
    PROVE  PageShows'
<1>0. LogInv /\ TypeOK /\ PageInv
  BY DEF ClientInv
<1>1. buffer = << >> /\ pos = 0
  BY <1>0 DEF PageInv, ReadsOpen
<1>2. buffer' = << >> /\ pos' = 0 /\ buffer' = buffer
  BY <1>1
<1>3. (SeenReport' <=> SeenReport) /\ SeenChunks' = SeenChunks /\ (ReportStored <=> ReportStored')
  BY DEF serverVars, SeenReport, SeenChunks, ReportStored
<1>4. TakenInOrder'
  BY <1>0, <1>1, <1>2 DEF PageInv, TakenInOrder, serverVars
<1>5. ReadsOpen' /\ CancelledHasEnded' /\ ReportReplaces' /\ DoneIsFinal' /\ ChunksShown'
  BY <1>0, <1>2, <1>3 DEF PageInv, ReadsOpen, CancelledHasEnded, ReportReplaces, DoneIsFinal, ChunksShown, serverVars
<1>6. FinalIsWhole'
  BY <1>0, <1>2, <1>3 DEF PageInv, FinalIsWhole
<1>7. PlanShown'
  BY <1>0 DEF PageInv, PlanShown, serverVars
<1> QED
  BY <1>4, <1>5, <1>6, <1>7 DEF PageShows

\* The buffer is flushed, and the connection may end with it.
LEMMA FlushStep ==
    ASSUME ClientInv, UNCHANGED <<serverVars, seen>>, view' = Flushed, buffer' = << >>,
           \/ UNCHANGED <<phase, conn, pos>>
           \/ phase \in {"open", "reading"} /\ phase' = "over" /\ pos' = 0
    PROVE  PageShows'
<1>0. LogInv /\ TypeOK /\ PageInv
  BY DEF ClientInv
<1>1. /\ view'.report = view.report \o buffer
      /\ view'.status = view.status /\ view'.awaiting = view.awaiting /\ view'.final = view.final
  BY <1>0, FlushedIs
<1>2. (SeenReport' <=> SeenReport) /\ SeenChunks' = SeenChunks /\ (ReportStored <=> ReportStored')
  BY DEF serverVars, SeenReport, SeenChunks, ReportStored
<1>3. Markdown \o << >> = Markdown
  BY DEF Markdown
<1>4. view'.report \o buffer' = view.report \o buffer
  <2> DEFINE A == 1..Chunks
             B == 0..Chunks
             t == view.report \o buffer
  <2>1. buffer \in Seq(A) /\ A \subseteq B
    BY <1>0 DEF TypeOK
  <2>2. view.report \in Seq(B)
    BY <1>0 DEF TypeOK, ViewType
  <2> HIDE DEF A, B
  <2>3. buffer \in Seq(B)
    BY <2>1
  <2>4. t \in Seq(B)
    BY <2>2, <2>3, ConcatProperties
  <2> HIDE DEF t
  <2>5. t \o << >> = t
    BY <2>4, ConcatEmptySeq
  <2> QED
    BY <1>1, <2>5 DEF t
<1>5. TakenInOrder'
  <2>1. PICK k \in 0..Len(log) : seen = 1..k /\ pos <= k
    BY <1>0 DEF PageInv, TakenInOrder
  <2>2. 0 <= k /\ pos' <= k
    BY <1>0, <2>1 DEF TypeOK
  <2> QED
    BY <2>1, <2>2 DEF TakenInOrder, serverVars
<1>6. ReadsOpen' /\ CancelledHasEnded' /\ DoneIsFinal' /\ PlanShown'
  BY <1>0, <1>1 DEF PageInv, ReadsOpen, CancelledHasEnded, DoneIsFinal, PlanShown, serverVars
<1>7. ReportReplaces' /\ FinalIsWhole'
  BY <1>0, <1>1, <1>2, <1>3 DEF PageInv, ReportReplaces, FinalIsWhole
<1>8. ChunksShown'
  BY <1>0, <1>2, <1>4 DEF PageInv, ChunksShown
<1> QED
  BY <1>5, <1>6, <1>7, <1>8 DEF PageShows

\* The page says by itself what a request that returned has done.
LEMMA ConfirmStep ==
    ASSUME ClientInv, UNCHANGED <<serverVars, refVars, conn, effectVars>>,
           \/ CancelReturned /\ view' = [view EXCEPT !.status = "cancelled", !.awaiting = FALSE]
           \/ ApproveReturned /\ view' = [view EXCEPT !.awaiting = FALSE]
    PROVE  PageShows'
<1>0. LogInv /\ TypeOK /\ PageInv
  BY DEF ClientInv
<1>1. /\ view'.report = view.report /\ view'.final = view.final
      /\ view'.status = view.status \/ (view'.status = "cancelled" /\ row \in Terminal)
      /\ row \in Terminal \/ approved # {}
  BY <1>0, ConfirmedIs DEF PageInv, AnswersMeant, CancelReturned, ApproveReturned
<1>2. (SeenReport' <=> SeenReport) /\ SeenChunks' = SeenChunks /\ (ReportStored <=> ReportStored')
  BY DEF serverVars, refVars, SeenReport, SeenChunks, ReportStored
<1>3. TakenInOrder' /\ ReadsOpen' /\ CancelledHasEnded' /\ DoneIsFinal'
  BY <1>0, <1>1 DEF PageInv, TakenInOrder, ReadsOpen, CancelledHasEnded, DoneIsFinal, serverVars, refVars, effectVars
<1>4. ReportReplaces' /\ FinalIsWhole' /\ ChunksShown'
  BY <1>0, <1>1, <1>2 DEF PageInv, ReportReplaces, FinalIsWhole, ChunksShown, refVars, effectVars
<1>5. PlanShown'
  BY <1>1 DEF PlanShown, serverVars, Terminal
<1> QED
  BY <1>3, <1>4, <1>5 DEF PageShows

\* The page is rebuilt from the answer to getRun.
LEMMA HydrateStep ==
    ASSUME ClientInv, Hydrates
    PROVE  PageShows'
<1> DEFINE h == Hydrated(view, detail)
<1>0. LogInv /\ TypeOK /\ PageInv /\ detail \in 0..Len(log) /\ view \in ViewType
  BY DEF ClientInv, TypeOK
<1>1. /\ h.status = RowAt(detail)
      /\ h.report = IF HasType(detail, "report") THEN Markdown ELSE view.report
      /\ h.final = IF HasType(detail, "report") THEN RowAt(detail) = "done" ELSE view.final
  BY <1>0, HydratedIs
<1>2. /\ RowAt(detail) = "cancelled" => row \in Terminal
      /\ RowAt(detail) = "done" => HasType(detail, "report")
      /\ HasType(detail, "report") => ReportStored
  BY <1>0, RowAtTells
<1>3. /\ phase = "answered" /\ view' = h /\ UNCHANGED <<serverVars, refVars, pos>>
      /\ phase' = IF Finished(detail) THEN "over" ELSE "open"
      /\ conn' = IF Finished(detail) THEN "closed" ELSE "connecting"
  BY DEF Hydrates, Shows, HydrateEnds
<1>4. buffer = << >> /\ pos = 0 /\ buffer' = buffer /\ pos' = pos
  BY <1>0, <1>3 DEF PageInv, ReadsOpen, refVars
<1>5. (SeenReport' <=> SeenReport) /\ SeenChunks' = SeenChunks /\ (ReportStored <=> ReportStored')
  BY <1>3 DEF serverVars, refVars, SeenReport, SeenChunks, ReportStored
<1> HIDE DEF h
<1>6. TakenInOrder' /\ ReadsOpen'
  BY <1>0, <1>3, <1>4 DEF PageInv, TakenInOrder, ReadsOpen, serverVars, refVars
<1>7. CancelledHasEnded' /\ DoneIsFinal'
  BY <1>1, <1>2, <1>3 DEF CancelledHasEnded, DoneIsFinal, serverVars
<1>8. ReportReplaces'
  BY <1>0, <1>1, <1>3, <1>4, <1>5 DEF PageInv, ReportReplaces
<1>9. FinalIsWhole'
  <2>1. CASE HasType(detail, "report")
    <3>1. view'.final => Finished(detail)
      BY <1>1, <1>3, <2>1 DEF Finished
    <3> QED
      BY <1>1, <1>3, <1>4, <2>1, <3>1 DEF FinalIsWhole
  <2>2. CASE ~HasType(detail, "report")
    <3>1. ~Finished(detail) /\ view'.final = view.final /\ view'.report = view.report
      BY <1>1, <1>3, <2>2 DEF Finished
    <3>2. view.final => view.report = Markdown /\ SeenReport
      BY <1>0, <1>3 DEF PageInv, FinalIsWhole
    <3> QED
      BY <1>4, <1>5, <3>1, <3>2 DEF FinalIsWhole
  <2> QED
    BY <2>1, <2>2
<1>10. ChunksShown'
  <2>1. CASE HasType(detail, "report")
    <3>1. SeenChunks \in Nat
      BY <1>0, SeenCounted
    <3>2. view'.report = Markdown /\ buffer' = << >> /\ ReportStored'
      BY <1>1, <1>2, <1>3, <1>4, <1>5, <2>1
    <3>3. Trailed(view'.report \o buffer', SeenChunks)
      BY <3>1, <3>2, TrailBegins
    <3> QED
      BY <1>5, <3>2, <3>3 DEF ChunksShown
  <2>2. CASE ~HasType(detail, "report")
    <3>1. view'.report = view.report
      BY <1>1, <1>3, <2>2
    <3> QED
      BY <1>0, <1>4, <1>5, <3>1 DEF PageInv, ChunksShown
  <2> QED
    BY <2>1, <2>2
<1>11. PlanShown'
  BY <1>0, <1>3 DEF PageInv, PlanShown, serverVars, refVars
<1> QED
  BY <1>6, <1>7, <1>8, <1>9, <1>10, <1>11 DEF PageShows

\* An event that was taken in before is dropped.
LEMMA SkipStep ==
    ASSUME ClientInv, SkipsEvent
    PROVE  PageShows'
<1>0. LogInv /\ TypeOK /\ PageInv
  BY DEF ClientInv
<1>1. UNCHANGED <<serverVars, refVars, view, conn, phase>> /\ phase = "reading" /\ pos' = pos + 1 /\ pos + 1 \in seen
  BY DEF SkipsEvent, Delivers, AlreadySeen
<1>2. (SeenReport' <=> SeenReport) /\ SeenChunks' = SeenChunks /\ (ReportStored <=> ReportStored')
  BY <1>1 DEF serverVars, refVars, SeenReport, SeenChunks, ReportStored
<1>3. TakenInOrder'
  BY <1>0, <1>1 DEF PageInv, TakenInOrder, serverVars, refVars
<1>4. ReadsOpen' /\ CancelledHasEnded' /\ DoneIsFinal' /\ PlanShown'
  BY <1>0, <1>1 DEF PageInv, ReadsOpen, CancelledHasEnded, DoneIsFinal, PlanShown, serverVars, refVars
<1>5. ReportReplaces' /\ FinalIsWhole' /\ ChunksShown'
  BY <1>0, <1>1, <1>2 DEF PageInv, ReportReplaces, FinalIsWhole, ChunksShown, refVars
<1> QED
  BY <1>3, <1>4, <1>5 DEF PageShows

\* A new event is the one after those that were taken in.
LEMMA NewEvent ==
    ASSUME ClientInv, Delivers, ~AlreadySeen(pos + 1), seen' = seen \cup {pos + 1}, UNCHANGED serverVars
    PROVE  \E k \in Nat :
              /\ seen = 1..k /\ pos = k /\ seen' = 1..(k + 1) /\ pos' = k + 1 /\ phase = "reading"
              /\ k + 1 \in 1..Len(log) /\ Len(log) \in Nat
              /\ SeenChunks = ChunksIn(log, k) /\ SeenChunks' = ChunksIn(log, k + 1)
              /\ SeenReport' <=> (SeenReport \/ log[k + 1].type = "report")
<1>0. LogInv /\ TypeOK /\ PageInv
  BY DEF ClientInv
<1> DEFINE l == Len(log)
<1>1. l \in Nat /\ pos \in 0..l
  BY <1>0 DEF TypeOK
<1>2. PICK k \in 0..l : seen = 1..k /\ pos <= k
  BY <1>0 DEF PageInv, TakenInOrder
<1>3. pos < l /\ pos' = pos + 1 /\ pos + 1 \notin seen /\ phase = "reading"
  BY DEF Delivers, AlreadySeen
<1>4. l = Len(log)
  OBVIOUS
<1> HIDE DEF l
<1>5. pos = k /\ k \in Nat /\ k + 1 \in 1..l
  BY <1>1, <1>2, <1>3
<1>6. seen' = 1..(k + 1)
  <2>1. 1..(k + 1) = (1..k) \cup {k + 1}
    BY <1>5
  <2> QED
    BY <1>2, <1>5, <2>1
<1>7. SeenChunks = ChunksIn(log, k)
  BY <1>2 DEF SeenChunks, ChunksIn
<1>8. SeenChunks' = ChunksIn(log, k + 1)
  BY <1>6 DEF SeenChunks, ChunksIn, serverVars
<1>9. SeenReport' <=> (SeenReport \/ log[k + 1].type = "report")
  BY <1>5 DEF SeenReport, serverVars
<1> QED
  BY <1>1, <1>2, <1>3, <1>4, <1>5, <1>6, <1>7, <1>8, <1>9

\* A chunk is put into the buffer.
LEMMA ChunkStep ==
    ASSUME ClientInv, BuffersChunk
    PROVE  PageShows'
<1>0. LogInv /\ TypeOK /\ PageInv
  BY DEF ClientInv
<1>1. /\ Delivers /\ ~AlreadySeen(pos + 1) /\ log[pos + 1].type = "report_delta"
      /\ seen' = seen \cup {pos + 1} /\ buffer' = Append(buffer, log[pos + 1].of)
      /\ UNCHANGED <<serverVars, view, conn, phase>>
  BY DEF BuffersChunk
<1>2. UNCHANGED serverVars
  BY <1>1
<1>3. PICK k \in Nat :
          /\ seen = 1..k /\ pos = k /\ seen' = 1..(k + 1) /\ pos' = k + 1 /\ phase = "reading"
          /\ k + 1 \in 1..Len(log) /\ Len(log) \in Nat
          /\ SeenChunks = ChunksIn(log, k) /\ SeenChunks' = ChunksIn(log, k + 1)
          /\ SeenReport' <=> (SeenReport \/ log[k + 1].type = "report")
  BY <1>1, <1>2, NewEvent
<1>4. ReportStored <=> ReportStored'
  BY <1>2 DEF serverVars, ReportStored
<1>5. ~SeenReport /\ ~SeenReport'
  <2>1. ASSUME NEW i \in seen, log[i].type = "report"
        PROVE  FALSE
    <3>1. k + 1 < i
      BY <1>0, <1>1, <1>3, <2>1 DEF LogInv, ChunksFirst, TypeOK
    <3>2. i \in 1..k
      BY <1>3
    <3> QED
      BY <3>1, <3>2
  <2>2. ~SeenReport
    BY <2>1 DEF SeenReport
  <2> QED
    BY <1>1, <1>3, <2>2
<1>6. TakenInOrder'
  <2> DEFINE l == Len(log)
  <2>1. k + 1 \in 1..l /\ l \in Nat /\ l = Len(log)
    BY <1>3
  <2> HIDE DEF l
  <2>2. k + 1 \in 0..l /\ k + 1 <= k + 1
    BY <2>1
  <2> QED
    BY <1>2, <1>3, <2>1, <2>2 DEF TakenInOrder, serverVars
<1>7. ReadsOpen' /\ CancelledHasEnded' /\ DoneIsFinal'
  BY <1>0, <1>1, <1>3 DEF PageInv, ReadsOpen, CancelledHasEnded, DoneIsFinal, serverVars
<1>8. ReportReplaces' /\ FinalIsWhole'
  <2>1. ~view.final
    BY <1>0, <1>3, <1>5 DEF PageInv, FinalIsWhole
  <2> QED
    BY <1>1, <1>5, <2>1 DEF ReportReplaces, FinalIsWhole
<1>9. ChunksShown'
  <2> DEFINE c == ChunksIn(log, k)
             A == 1..Chunks
             B == 0..Chunks
  <2>1. c \in Nat /\ ChunksIn(log, k + 1) = c + 1
    BY <1>0, <1>1, <1>3, NextChunk
  <2>2. log[k + 1].of = c + 1 /\ log[k + 1] \in Event
    BY <1>0, <1>1, <1>3, <2>1 DEF LogInv, ChunksNumbered, ServerTypeOK
  <2>3. log[k + 1].of \in A
    BY <1>1, <1>3, <2>2 DEF Event, SectionTypes
  <2>4. buffer \in Seq(A) /\ A \subseteq B /\ view.report \in Seq(B)
    BY <1>0 DEF TypeOK, ViewType
  <2>5. view.report \o buffer = FirstChunks(c) \/ (ReportStored /\ Trailed(view.report \o buffer, c))
    BY <1>0, <1>3, <1>5 DEF PageInv, ChunksShown
  <2>6. buffer' = Append(buffer, c + 1)
    BY <1>1, <1>3, <2>2
  <2>7. c + 1 \in A
    BY <2>2, <2>3
  <2> HIDE DEF c, A, B
  <2>8. buffer \in Seq(B) /\ c + 1 \in B
    BY <2>4, <2>7
  <2>9. \/ view.report \o Append(buffer, c + 1) = FirstChunks(c + 1)
        \/ ReportStored /\ Trailed(view.report \o Append(buffer, c + 1), c + 1)
    <3> DEFINE r == view.report
    <3>1. r \in Seq(B)
      BY <2>4
    <3> HIDE DEF r
    <3>2. r \o buffer = FirstChunks(c) => r \o Append(buffer, c + 1) = FirstChunks(c + 1)
      BY <2>1, <2>8, <3>1, OneChunkMore
    <3> DEFINE x == c + 1
    <3>3. x \in B
      BY <2>8
    <3> HIDE DEF x
    <3>4. r \o Append(buffer, x) = Append(r \o buffer, x)
      BY <2>8, <3>1, <3>3, AppendLast
    <3>5. Trailed(r \o buffer, c) => Trailed(r \o Append(buffer, c + 1), c + 1)
      BY <2>1, <3>4, TrailGrows DEF x
    <3> QED
      BY <2>5, <3>2, <3>5 DEF r
  <2>10. SeenChunks' = c + 1
    BY <1>3, <2>1
  <2> QED
    BY <1>1, <1>4, <2>6, <2>9, <2>10 DEF ChunksShown
<1>10. PlanShown'
  <2> SUFFICES ASSUME row' = "awaiting_plan", Len(log') \in seen', approved' = {}
               PROVE  view'.awaiting /\ view'.status = "awaiting_plan" /\ phase' \in {"reading", "over"}
    BY DEF PlanShown
  <2>1. row = "awaiting_plan" /\ log' = log
    BY <1>2 DEF serverVars
  <2>2. log[Len(log)].type = "awaiting_plan"
    BY <1>0, <2>1, LastAsks
  <2>3. Len(log) # k + 1
    BY <1>1, <1>3, <2>2
  <2>4. Len(log) \in seen
    BY <1>1, <1>3, <2>1, <2>3
  <2> QED
    BY <1>0, <1>1, <1>2, <2>1, <2>4 DEF PageInv, PlanShown, serverVars
<1> QED
  BY <1>6, <1>7, <1>8, <1>9, <1>10 DEF PageShows

\* An event other than a chunk is reduced into the state.
LEMMA ApplyStep ==
    ASSUME ClientInv, AppliesEvent
    PROVE  PageShows'
<1>0. LogInv /\ TypeOK /\ PageInv
  BY DEF ClientInv
<1>1. /\ Delivers /\ ~AlreadySeen(pos + 1) /\ log[pos + 1].type # "report_delta"
      /\ seen' = seen \cup {pos + 1} /\ UNCHANGED serverVars /\ UNCHANGED <<conn, phase>>
      /\ IF FlushesFirst(log[pos + 1])
         THEN view' = Reduce(Flushed, log[pos + 1]) /\ buffer' = << >>
         ELSE view' = Reduce(view, log[pos + 1]) /\ UNCHANGED buffer
  BY DEF AppliesEvent, Shows
<1>2. PICK k \in Nat :
          /\ seen = 1..k /\ pos = k /\ seen' = 1..(k + 1) /\ pos' = k + 1 /\ phase = "reading"
          /\ k + 1 \in 1..Len(log) /\ Len(log) \in Nat
          /\ SeenChunks = ChunksIn(log, k) /\ SeenChunks' = ChunksIn(log, k + 1)
          /\ SeenReport' <=> (SeenReport \/ log[k + 1].type = "report")
  BY <1>1, NewEvent
<1> DEFINE e == log[k + 1]
           w == IF FlushesFirst(e) THEN Flushed ELSE view
<1>3. ReportStored <=> ReportStored'
  BY <1>1 DEF serverVars, ReportStored
<1>4. /\ e \in Event /\ e.type # "report_delta"
      /\ e.type = "status" => e.of \in {"planning", "researching", "writing", "cancelled"}
      /\ e = Status("cancelled") => row \in Terminal
      /\ e.type = "report" => ReportStored
  BY <1>0, <1>1, <1>2 DEF LogInv, ServerTypeOK, StagesSent, Verdicts, ReportStored
<1>5. e.type = "done" => SeenReport
  <2> SUFFICES ASSUME e.type = "done" PROVE SeenReport
    OBVIOUS
  <2>1. PICK i \in 1..Len(log) : i < k + 1 /\ log[i].type = "report"
    BY <1>0, <1>2 DEF LogInv, ReportFirst
  <2>2. i \in 1..k
    BY <1>2, <2>1
  <2> QED
    BY <1>2, <2>1, <2>2 DEF SeenReport
<1>6. view' = Reduce(w, e) /\ buffer' = IF FlushesFirst(e) THEN << >> ELSE buffer
  BY <1>1, <1>2
<1>7. /\ w \in ViewType /\ w.status = view.status /\ w.awaiting = view.awaiting /\ w.final = view.final
      /\ w.report \o buffer' = view.report \o buffer
      /\ buffer = << >> => w.report = view.report
      /\ buffer = << >> => buffer' = << >>
  <2>1. CASE FlushesFirst(e)
    <3> DEFINE A == 1..Chunks
               B == 0..Chunks
               r == view.report
    <3>1. buffer \in Seq(A) /\ A \subseteq B
      BY <1>0 DEF TypeOK
    <3>2. r \in Seq(B)
      BY <1>0 DEF TypeOK, ViewType
    <3> HIDE DEF A, B, r
    <3>3. buffer \in Seq(B)
      BY <3>1
    <3>4. r \o buffer \in Seq(B)
      BY <3>2, <3>3, ConcatProperties
    <3>5. (r \o buffer) \o << >> = r \o buffer /\ r \o << >> = r
      BY <3>2, <3>4, ConcatEmptySeq
    <3>6. w = Flushed /\ buffer' = << >>
      BY <1>6, <2>1
    <3>7. /\ Flushed \in ViewType /\ Flushed.report = r \o buffer
          /\ Flushed.status = view.status /\ Flushed.awaiting = view.awaiting /\ Flushed.final = view.final
      BY <1>0, FlushedIs DEF r
    <3> HIDE DEF w
    <3> QED
      BY <3>5, <3>6, <3>7 DEF r
  <2>2. CASE ~FlushesFirst(e)
    BY <1>0, <1>6, <2>2 DEF TypeOK
  <2> QED
    BY <2>1, <2>2
<1> HIDE DEF w, e
<1>8. /\ view'.status = IF e.type = "status" THEN e.of
                        ELSE IF e.type \in {"awaiting_plan", "error", "done"} THEN e.type ELSE view.status
      /\ e.type = "awaiting_plan" => view'.awaiting
      /\ view'.report = IF e.type = "report" THEN Markdown ELSE w.report
      /\ view'.final = IF e.type \in {"report", "done"} THEN TRUE ELSE view.final
  BY <1>4, <1>6, <1>7, ReduceIs
<1>9. TakenInOrder'
  <2> DEFINE l == Len(log)
  <2>1. k + 1 \in 1..l /\ l \in Nat /\ l = Len(log)
    BY <1>2
  <2> HIDE DEF l
  <2>2. k + 1 \in 0..l /\ k + 1 <= k + 1
    BY <2>1
  <2> QED
    BY <1>1, <1>2, <2>1, <2>2 DEF TakenInOrder, serverVars
<1>10. ReadsOpen'
  BY <1>0, <1>1, <1>2 DEF PageInv, ReadsOpen
<1>11. CancelledHasEnded'
  <2>1. e.type = "status" /\ e.of = "cancelled" => e = Status("cancelled")
    BY <1>4 DEF Event, Status, SectionTypes
  <2>2. view'.status = "cancelled" => view.status = "cancelled" \/ (e.type = "status" /\ e.of = "cancelled")
    BY <1>8
  <2> QED
    BY <1>0, <1>1, <1>4, <2>1, <2>2 DEF PageInv, CancelledHasEnded, serverVars
<1>12. DoneIsFinal'
  <2>1. view'.status = "done" => e.type = "done" \/ view.status = "done"
    BY <1>4, <1>8
  <2> QED
    BY <1>0, <1>8, <2>1 DEF PageInv, DoneIsFinal
<1>13. SeenReport' <=> (SeenReport \/ e.type = "report")
  BY <1>2 DEF e
<1>14. ReportReplaces'
  <2>1. CASE e.type = "report"
    <3>1. buffer' = << >>
      BY <1>6, <2>1 DEF FlushesFirst
    <3> QED
      BY <1>8, <2>1, <3>1 DEF ReportReplaces
  <2>2. CASE e.type # "report"
    BY <1>0, <1>7, <1>8, <1>13, <2>2 DEF PageInv, ReportReplaces
  <2> QED
    BY <2>1, <2>2
<1>15. FinalIsWhole'
  <2>1. view'.final => SeenReport'
    BY <1>0, <1>2, <1>5, <1>8, <1>13 DEF PageInv, FinalIsWhole
  <2> QED
    BY <1>14, <2>1 DEF FinalIsWhole, ReportReplaces
<1>16. ChunksShown'
  <2>1. ChunksIn(log, k + 1) = ChunksIn(log, k)
    BY <1>0, <1>2, <1>4, NextChunk DEF e
  <2>2. SeenChunks' = SeenChunks
    BY <1>2, <2>1
  <2>3. e.type # "report" => view'.report = w.report
    BY <1>8
  <2>4. e.type # "report" => view'.report \o buffer' = view.report \o buffer
    BY <1>7, <2>3
  <2> QED
    BY <1>0, <1>3, <1>13, <2>2, <2>4 DEF PageInv, ChunksShown
<1>17. PlanShown'
  <2> SUFFICES ASSUME row' = "awaiting_plan", Len(log') \in seen', approved' = {}
               PROVE  view'.awaiting /\ view'.status = "awaiting_plan" /\ phase' \in {"reading", "over"}
    BY DEF PlanShown
  <2>1. row = "awaiting_plan" /\ log' = log /\ phase' = "reading"
    BY <1>1, <1>2 DEF serverVars
  <2>2. log[Len(log)].type = "awaiting_plan"
    BY <1>0, <2>1, LastAsks
  <2> DEFINE l == Len(log)
  <2>3. l \in Nat /\ k + 1 \in 1..l /\ l \in 1..(k + 1)
    BY <1>2, <2>1
  <2>4. l = Len(log)
    OBVIOUS
  <2> HIDE DEF l
  <2>5. l = k + 1
    BY <2>3
  <2>6. e.type = "awaiting_plan"
    BY <2>2, <2>4, <2>5 DEF e
  <2> QED
    BY <1>8, <2>1, <2>6
<1> QED
  BY <1>9, <1>10, <1>11, <1>12, <1>14, <1>15, <1>16, <1>17 DEF PageShows

-----------------------------------------------------------------------------
(* The page *)

LEMMA InitKept == Init => ClientInv
<1> SUFFICES ASSUME Init PROVE ClientInv
  OBVIOUS
<1>1. TypeOK
  BY InitTyped
<1>2. log = << >> /\ row = "queued" /\ Len(log) = 0 /\ seen = {} /\ buffer = << >> /\ pos = 0
      /\ view = Initial /\ phase = "hydrate" /\ cancelling = "no" /\ approving = "no"
  BY DEF Init
<1>3. \A i \in 1..Len(log) : FALSE
  BY <1>2
<1>4. LogInv
  BY <1>1, <1>2, <1>3
  DEF LogInv, ServerTypeOK, TypeOK, RowTells, StagesSent, Verdicts, ChunksNumbered, ChunksFirst, AllChunks, ReportFirst
<1>5. view.status = "queued" /\ view.final = FALSE /\ view.report = << >>
  BY <1>2 DEF Initial
<1>6. TakenInOrder
  <2>1. 0 \in 0..0 /\ {} = 1..0 /\ 0 <= 0
    OBVIOUS
  <2> QED
    BY <1>2, <2>1 DEF TakenInOrder
<1>7. ChunksShown
  <2>1. {n \in seen : log[n].type = "report_delta"} = {}
    BY <1>2
  <2>2. SeenChunks = 0
    BY <2>1, FS_EmptySet DEF SeenChunks
  <2>3. << >> \o << >> = << >>
    OBVIOUS
  <2>4. [n \in 1..0 |-> n] = << >>
    OBVIOUS
  <2> QED
    BY <1>2, <1>5, <2>2, <2>3, <2>4 DEF ChunksShown, FirstChunks
<1>8. AskedLast /\ ReadsOpen /\ AnswersMeant /\ CancelledHasEnded /\ ReportReplaces /\ FinalIsWhole
      /\ DoneIsFinal /\ PlanShown
  BY <1>2, <1>3, <1>5 DEF AskedLast, ReadsOpen, AnswersMeant, CancelledHasEnded, ReportReplaces, SeenReport,
                          FinalIsWhole, DoneIsFinal, PlanShown
<1> QED
  BY <1>1, <1>4, <1>6, <1>7, <1>8 DEF ClientInv, PageInv

LEMMA NextKeeps ==
    ASSUME ClientInv, [Next]_vars
    PROVE  ClientInv'
<1>0. LogInv /\ TypeOK /\ PageInv
  BY DEF ClientInv
<1>1. LogInv' /\ TypeOK' /\ AskedLast' /\ AnswersMeant'
  BY <1>0, LogStep, TypeStep, AskedStep, AnswersStep
<1> SUFFICES PageShows'
  BY <1>1 DEF ClientInv, PageInv, PageShows
<1>2. CASE \/ ServerNext \/ ClicksCancel \/ CancelFails \/ EditsPlan \/ ClicksApprove \/ ApproveFails
           \/ UNCHANGED vars
  <2>1. UNCHANGED <<seen, buffer, view, conn, phase, pos>>
    <3>1. CASE ServerNext
      BY <3>1 DEF ServerNext, ServerEmits, ServerFails, ApprovedElsewhere, CancelledElsewhere, ServerCancels,
                  ServerApproves, ServerRefuses, refVars, effectVars
    <3>2. CASE ClicksCancel \/ CancelFails \/ EditsPlan \/ ClicksApprove \/ ApproveFails \/ UNCHANGED vars
      BY <3>2 DEF ClicksCancel, CancelFails, EditsPlan, ClicksApprove, ApproveFails, vars, refVars, effectVars
    <3> QED
      BY <1>2, <3>1, <3>2
  <2> QED
    BY <2>1, OthersStep
<1>3. CASE ServerAnswers \/ HydrateFails \/ Opens
  <2>1. UNCHANGED <<serverVars, seen, view>> /\ buffer' = buffer /\ pos' = pos
        /\ phase \in {"hydrate", "open"} /\ (phase' = "reading" => conn' = "open")
    BY <1>3 DEF ServerAnswers, HydrateFails, Opens, refVars
  <2>2. UNCHANGED <<serverVars, seen, view>> /\ buffer' \in {buffer, << >>} /\ pos' \in {pos, 0}
        /\ phase \in {"hydrate", "answered", "open"}
    BY <2>1
  <2> QED
    BY <2>1, <2>2, EffectStep
<1>4. CASE Retry
  <2>1. UNCHANGED <<serverVars, seen, view>> /\ buffer' = << >> /\ pos' = 0 /\ phase' = "hydrate"
        /\ conn = "error" /\ ~view.awaiting
    BY <1>4 DEF Retry, KeptSeqs, StreamDropped
  <2>2. phase \in {"hydrate", "answered", "open"} \/ (phase = "over" /\ conn = "error" /\ ~view.awaiting)
    BY <1>0, <2>1 DEF TypeOK, PageInv, ReadsOpen
  <2>3. UNCHANGED <<serverVars, seen, view>> /\ buffer' \in {buffer, << >>} /\ pos' \in {pos, 0}
        /\ (phase' = "reading" => conn' = "open")
    BY <2>1
  <2> QED
    BY <2>2, <2>3, EffectStep
<1>5. CASE FlushTimer \/ StreamCloses \/ ConnectionLost
  <2>1. /\ UNCHANGED <<serverVars, seen>> /\ view' = Flushed /\ buffer' = << >>
        /\ \/ UNCHANGED <<phase, conn, pos>>
           \/ phase \in {"open", "reading"} /\ phase' = "over" /\ pos' = 0
    BY <1>5 DEF FlushTimer, StreamCloses, ConnectionLost, Shows, effectVars
  <2> QED
    BY <2>1, FlushStep
<1>6. CASE CancelConfirmed \/ ApproveConfirmed
  <2>1. /\ UNCHANGED <<serverVars, refVars, conn, effectVars>>
        /\ \/ CancelReturned /\ view' = [view EXCEPT !.status = "cancelled", !.awaiting = FALSE]
           \/ ApproveReturned /\ view' = [view EXCEPT !.awaiting = FALSE]
    BY <1>6 DEF CancelConfirmed, ApproveConfirmed, Shows
  <2> QED
    BY <2>1, ConfirmStep
<1> QED
  BY <1>2, <1>3, <1>4, <1>5, <1>6, HydrateStep, SkipStep, ChunkStep, ApplyStep DEF Next

\* The log, the types and what the page shows keep in step, however often the
\* page loses its connection and whatever is done to the run elsewhere.
THEOREM ClientInvariance == Spec => []ClientInv
<1>1. Init => ClientInv
  BY InitKept
<1>2. ClientInv /\ [Next]_vars => ClientInv'
  BY NextKeeps
<1> QED
  BY <1>1, <1>2, PTL DEF Spec

\* Every variable of the page and of its server keeps its type.
THEOREM ClientTyped == Spec => []TypeOK
<1>1. ClientInv => TypeOK
  BY DEF ClientInv
<1> QED
  BY <1>1, ClientInvariance, PTL

\* The text of the page and its buffer is the report as far as it was received,
\* or the report that getRun gave it with the chunks received since behind it,
\* and the report alone once its event was received: reduceEvent, the flush
\* timer, hydrating and reconnecting lose, repeat and reorder no chunk.
THEOREM TextIsWhatWasSeen == Spec => []ReportIsWhatWasSeen
<1>1. ASSUME ClientInv
      PROVE  ReportIsWhatWasSeen
  <2> DEFINE text == view.report \o buffer
  <2>1. ReportReplaces /\ ChunksShown /\ SeenChunks \in Nat
    BY <1>1, SeenCounted DEF ClientInv, PageInv
  <2>2. Markdown \o << >> = Markdown
    BY DEF Markdown
  <2>3. SeenReport => text = Markdown
    BY <2>1, <2>2 DEF ReportReplaces
  <2>4. FirstChunks(SeenChunks) = ReceivedSince(0)
    <3> DEFINE c == SeenChunks
    <3>1. c \in Nat
      BY <2>1
    <3> HIDE DEF c
    <3>2. c - 0 = c /\ \A i \in 1..c : 0 + i = i
      BY <3>1
    <3>3. [i \in 1..c |-> i] = [i \in 1..(c - 0) |-> 0 + i]
      BY <3>2
    <3> QED
      BY <3>3 DEF c, FirstChunks, ReceivedSince
  <2>5. \A k : ChunksBetween(k, SeenChunks) = ReceivedSince(k)
    BY DEF ChunksBetween, ReceivedSince
  <2>6. ReportStored => HasType(Len(log), "report")
    BY DEF ReportStored, HasType
  <2> HIDE DEF text
  <2>7. Trailed(text, SeenChunks) => \E k \in 0..SeenChunks : text = Markdown \o ReceivedSince(k)
    BY <2>5 DEF Trailed
  <2>8. ~SeenReport => text = ReceivedSince(0) \/ (ReportStored /\ Trailed(text, SeenChunks))
    BY <2>1, <2>4 DEF ChunksShown, text
  <2> QED
    BY <2>3, <2>6, <2>7, <2>8 DEF ReportIsWhatWasSeen, text
<1> QED
  BY <1>1, ClientInvariance, PTL

\* The download buttons of report-view give the whole report of a run that is
\* done or said to be final, never a part of it.
THEOREM DownloadIsWhole == Spec => []DownloadsWholeReport
<1>1. ASSUME ClientInv
      PROVE  DownloadsWholeReport
  <2>1. FinalIsWhole /\ DoneIsFinal
    BY <1>1 DEF ClientInv, PageInv
  <2>2. ASSUME DownloadOffered, view.status # "error"
        PROVE  view.final
    <3>1. MainOf(view) = "report" /\ ~Streaming(view)
      BY <2>2 DEF DownloadOffered
    <3>2. view.status # "cancelled" /\ HasReport(view)
      BY <3>1 DEF MainOf
    <3>3. view.final \/ view.status \in Terminal
      BY <3>1, <3>2 DEF Streaming
    <3> QED
      BY <2>1, <2>2, <3>2, <3>3 DEF Terminal, DoneIsFinal
  <2> QED
    BY <2>1, <2>2 DEF DownloadsWholeReport, FinalIsWhole
<1> QED
  BY <1>1, ClientInvariance, PTL

\* The page says cancelled, by an event, by an answer or by itself, only of a
\* run whose row has come to an end.
THEOREM CancelledIsOver == Spec => []CancelledHasEnded
<1>1. ClientInv => CancelledHasEnded
  BY DEF ClientInv, PageInv
<1> QED
  BY <1>1, ClientInvariance, PTL

\* A plan that the page was told to show stays shown while the run waits: no
\* update of the state takes the user's edits of it away.
THEOREM DraftIsKept == Spec => DraftOutlivesCard
<1> DEFINE Lost == draft # Drafted /\ draft' = Drafted /\ ~EditsPlan
           Excuse == \/ row # "awaiting_plan" \/ approved # {}
                     \/ view.status = "cancelled"
                     \/ ~\E n \in 1..pos : log[n].type = "awaiting_plan"
<1>1. ASSUME ClientInv, [Next]_vars
      PROVE  [Lost => Excuse]_vars
  <2> SUFFICES ASSUME Lost, ~Excuse PROVE FALSE
    OBVIOUS
  <2>0. LogInv /\ TypeOK /\ PageInv
    BY <1>1 DEF ClientInv
  <2>1. PICK n \in 1..pos : log[n].type = "awaiting_plan"
    OBVIOUS
  <2>2. row = "awaiting_plan" /\ approved = {} /\ row \notin Terminal
    BY DEF Terminal
  <2> DEFINE l == Len(log)
  <2>3. l \in Nat /\ pos \in 0..l /\ (n = l \/ n \notin 1..l)
    <3>1. n \in 1..Len(log) => n = Len(log)
      BY <2>0, <2>1, <2>2 DEF PageInv, AskedLast
    <3> QED
      BY <2>0, <3>1 DEF TypeOK
  <2>4. PICK k \in 0..l : seen = 1..k /\ pos <= k
    BY <2>0 DEF PageInv, TakenInOrder
  <2>5. l = Len(log)
    OBVIOUS
  <2> HIDE DEF l
  <2>6. pos = l /\ l \in 1..k /\ pos # 0
    BY <2>1, <2>3, <2>4
  <2>7. view.awaiting /\ view.status = "awaiting_plan" /\ phase = "reading"
    BY <2>0, <2>2, <2>4, <2>5, <2>6 DEF PageInv, PlanShown, ReadsOpen
  <2>8. ~(pos < Len(log))
    BY <2>3, <2>5, <2>6
  <2>9. MainOf(Flushed) = "plan"
    <3>1. Flushed.status = "awaiting_plan" /\ Flushed.awaiting
      BY <2>0, <2>7, FlushedIs
    <3> QED
      BY <3>1 DEF MainOf
  <2>10. CASE FlushTimer \/ StreamCloses \/ ConnectionLost
    <3>1. Shows(Flushed)
      BY <2>10 DEF FlushTimer, StreamCloses, ConnectionLost
    <3>2. draft' = draft
      BY <2>9, <3>1 DEF Shows
    <3> QED
      BY <3>2
  <2>11. CASE Hydrates \/ SkipsEvent \/ BuffersChunk \/ AppliesEvent
    BY <2>7, <2>8, <2>11 DEF Hydrates, SkipsEvent, BuffersChunk, AppliesEvent, Delivers
  <2>12. CASE CancelConfirmed \/ ApproveConfirmed
    BY <2>0, <2>2, <2>12 DEF CancelConfirmed, ApproveConfirmed, CancelReturned, ApproveReturned, PageInv, AnswersMeant
  <2>13. CASE ServerNext
    <3>1. draft' = draft
      BY <2>13 DEF ServerNext, ServerEmits, ServerFails, ApprovedElsewhere, CancelledElsewhere, ServerCancels,
                   ServerApproves, ServerRefuses
    <3> QED
      BY <3>1
  <2>14. CASE \/ ServerAnswers \/ HydrateFails \/ Opens \/ Retry \/ ClicksCancel \/ CancelFails
              \/ ClicksApprove \/ ApproveFails \/ UNCHANGED vars
    <3>1. draft' = draft
      BY <2>14 DEF ServerAnswers, HydrateFails, Opens, Retry, ClicksCancel, CancelFails, ClicksApprove,
                   ApproveFails, vars
    <3> QED
      BY <3>1
  <2>15. CASE EditsPlan
    BY <2>15
  <2> QED
    BY <1>1, <2>10, <2>11, <2>12, <2>13, <2>14, <2>15 DEF Next
<1>2. [][Lost => Excuse]_vars => DraftOutlivesCard
  BY DEF DraftOutlivesCard
<1> HIDE DEF Lost, Excuse
<1> QED
  BY <1>1, <1>2, ClientInvariance, PTL DEF Spec

-----------------------------------------------------------------------------
(* A page that was open from the start *)

\* One event more.
After(v, e) ==
    IF e.type = "report_delta" THEN [v EXCEPT !.report = Append(@, e.of)] ELSE Reduce(v, e)

\* The states of that page, by the number of events it was sent of a log.
Replays(q) ==
    LET after[n \in 0..Len(q)] ==
            IF n = 0 THEN Initial
            ELSE IF q[n].type = "report_delta"
                 THEN [after[n - 1] EXCEPT !.report = Append(@, q[n].of)]
                 ELSE Reduce(after[n - 1], q[n])
    IN  after

LEMMA ReplayedIs == Replayed = Replays(log)[Len(log)]
BY DEF Replayed, Replays

\* Of finitely many numbers one is the least.
LEMMA Least ==
    ASSUME NEW n \in Nat, NEW S \in SUBSET (0..n), S # {}
    PROVE  \E i \in S : \A j \in S : i <= j
<1> DEFINE T == {n + 1 - j : j \in S}
<1>1. T \in SUBSET (1..(n + 1)) /\ T # {}
  <2>1. \A j \in S : n + 1 - j \in 1..(n + 1)
    OBVIOUS
  <2>2. PICK j \in S : TRUE
    OBVIOUS
  <2>3. n + 1 - j \in T
    OBVIOUS
  <2> QED
    BY <2>1, <2>3
<1>2. PICK t \in T : \A u \in T : u <= t
  <2> DEFINE m == n + 1
  <2>1. m \in Nat /\ T \in SUBSET (1..m) /\ T # {}
    BY <1>1
  <2> HIDE DEF m, T
  <2> QED
    BY <2>1, Greatest
<1>3. PICK i \in S : t = n + 1 - i
  OBVIOUS
<1>4. \A j \in S : n + 1 - j <= n + 1 - i
  BY <1>2, <1>3
<1>5. \A j \in S : i <= j
  BY <1>4
<1> QED
  BY <1>5

\* What holds at first, and after every step from where it holds, holds up to n.
LEMMA StepByStep ==
    ASSUME NEW n \in Nat, NEW S, 0 \in S, \A i \in 0..n : i \in S /\ i < n => i + 1 \in S
    PROVE  \A i \in 0..n : i \in S
<1> DEFINE R == (0..n) \ S
<1> SUFFICES ASSUME R # {} PROVE FALSE
  OBVIOUS
<1>1. R \in SUBSET (0..n)
  OBVIOUS
<1>2. PICK i \in R : \A j \in R : i <= j
  <2> HIDE DEF R
  <2> QED
    BY <1>1, Least
<1>3. i \in 0..n /\ i \notin S /\ i # 0
  OBVIOUS
<1>4. i - 1 \in 0..n /\ i - 1 < n /\ i - 1 \notin R
  BY <1>2, <1>3
<1>5. i - 1 \in S
  BY <1>4
<1>6. (i - 1) + 1 \in S
  BY <1>4, <1>5
<1> QED
  BY <1>3, <1>6

\* The states are what they are defined to be.
LEMMA ReplayIs ==
    ASSUME NEW q, Len(q) \in Nat
    PROVE  /\ Replays(q)[0] = Initial
           /\ \A n \in 1..Len(q) : Replays(q)[n] = After(Replays(q)[n - 1], q[n])
<1> DEFINE l == Len(q)
           F(m, f) == f = [n \in 0..m |-> IF n = 0 THEN Initial ELSE After(f[n - 1], q[n])]
           S == {m \in 0..l : \E f : F(m, f)}
<1>1. 0 \in S
  <2> DEFINE f == [n \in 0..0 |-> Initial]
  <2>1. \A n \in 0..0 : n = 0
    OBVIOUS
  <2>2. f = [n \in 0..0 |-> Initial]
    OBVIOUS
  <2> HIDE DEF f
  <2>3. f = [n \in 0..0 |-> IF n = 0 THEN Initial ELSE After(f[n - 1], q[n])]
    BY <2>1, <2>2
  <2> QED
    BY <2>3
<1>2. ASSUME NEW m \in 0..l, m \in S, m < l
      PROVE  m + 1 \in S
  <2>1. PICK f : F(m, f)
    BY <1>2
  <2> DEFINE g == [n \in 0..(m + 1) |-> IF n = m + 1 THEN After(f[m], q[m + 1]) ELSE f[n]]
             h == [n \in 0..(m + 1) |-> IF n = 0 THEN Initial ELSE After(g[n - 1], q[n])]
  <2>2. \A n \in 0..m : f[n] = IF n = 0 THEN Initial ELSE After(f[n - 1], q[n])
    BY <2>1
  <2>3. ASSUME NEW n \in 0..(m + 1)
        PROVE  g[n] = h[n]
    <3>1. CASE n = m + 1
      <4>1. n - 1 = m /\ m \in 0..(m + 1) /\ m # m + 1 /\ n # 0
        BY <3>1
      <4>2. g[m] = f[m]
        BY <4>1
      <4>3. h[n] = After(g[m], q[n])
        BY <4>1
      <4> QED
        BY <3>1, <4>2, <4>3
    <3>2. CASE n # m + 1
      <4>1. n \in 0..m
        BY <3>2
      <4>2. g[n] = f[n]
        BY <3>2
      <4>3. CASE n = 0
        BY <2>2, <4>1, <4>2, <4>3
      <4>4. CASE n # 0
        <5>1. n - 1 \in 0..(m + 1) /\ n - 1 # m + 1
          BY <4>1, <4>4
        <5>2. g[n - 1] = f[n - 1]
          BY <5>1
        <5>3. h[n] = After(g[n - 1], q[n])
          BY <4>4
        <5> QED
          BY <2>2, <4>1, <4>2, <4>4, <5>2, <5>3
      <4> QED
        BY <4>3, <4>4
    <3> QED
      BY <3>1, <3>2
  <2>4. g = h
    BY <2>3
  <2> HIDE DEF g
  <2>5. F(m + 1, g)
    BY <2>4
  <2> QED
    BY <1>2, <2>5
<1>3. l \in S
  <2>1. l \in Nat /\ l \in 0..l
    OBVIOUS
  <2> HIDE DEF S, l
  <2>2. \A i \in 0..l : i \in S
    BY <1>1, <1>2, <2>1, StepByStep
  <2> QED
    BY <2>1, <2>2
<1>4. Replays(q) = CHOOSE f : F(l, f)
  BY DEF Replays, After
<1>5. F(l, Replays(q))
  BY <1>3, <1>4
<1> DEFINE r == Replays(q)
<1>6. r = [n \in 0..l |-> IF n = 0 THEN Initial ELSE After(r[n - 1], q[n])]
  BY <1>5
<1> HIDE DEF r
<1>7. 0 \in 0..l /\ \A n \in 1..l : n \in 0..l /\ n # 0
  OBVIOUS
<1>8. r[0] = Initial /\ \A n \in 1..l : r[n] = After(r[n - 1], q[n])
  BY <1>6, <1>7
<1> QED
  BY <1>8 DEF r

\* What an event does to the claims.
ClaimsAfter(c, e) ==
    IF e.type \in {"claim", "verification"}
    THEN [c EXCEPT ![e.of] = CASE e.type = "claim" -> IF @ = "none" THEN "open" ELSE @
                               [] e.type = "verification" -> IF @ = "none" THEN @ ELSE "verified"]
    ELSE c

\* What an event does to the sources of a section.
SourcesAfter(q, s, e) == IF e.type = "source" /\ e.of = s THEN AddSource(q, s) ELSE q

\* What an event does to claims and sources.
LEMMA ReduceFills ==
    ASSUME NEW v \in ViewType, NEW e \in Event, e.type # "report_delta"
    PROVE  /\ Reduce(v, e).claims = ClaimsAfter(v.claims, e)
           /\ \A s \in Sections :
                 Reduce(v, e).sections[s].sources = SourcesAfter(v.sections[s].sources, s, e)
<1> DEFINE r == Reduce(v, e)
           As == /\ r.claims = ClaimsAfter(v.claims, e)
                 /\ \A s \in Sections : r.sections[s].sources = SourcesAfter(v.sections[s].sources, s, e)
<1> SUFFICES As
  OBVIOUS
<1>0. \A s \in Sections : /\ v.sections[s] \in SectionState
                          /\ Upsert(v, s) \in SectionState /\ Upsert(v, s).sources = v.sections[s].sources
  <2>1. << >> \in Seq(Sections)
    OBVIOUS
  <2> QED
    BY <2>1 DEF Absent, Empty, SectionState, Upsert, ViewType
<1>1. CASE e.type \in {"status", "awaiting_plan", "report", "error", "done"}
  <2>1. r \in {[v EXCEPT !.status = e.of, !.awaiting = (e.of = "awaiting_plan")],
               [v EXCEPT !.awaiting = TRUE, !.status = "awaiting_plan"],
               [v EXCEPT !.report = Markdown, !.final = TRUE],
               [v EXCEPT !.failed = TRUE, !.status = "error"],
               [v EXCEPT !.status = "done", !.awaiting = FALSE, !.final = TRUE]}
    BY <1>1 DEF Reduce
  <2> HIDE DEF r
  <2>2. r.claims = v.claims /\ r.sections = v.sections
    BY <2>1 DEF ViewType
  <2> QED
    BY <1>1, <2>2 DEF ClaimsAfter, SourcesAfter
<1>2. CASE e.type = "plan"
  <2> DEFINE f == [s \in Sections |-> IF s \in Drafted THEN Upsert(v, s) ELSE v.sections[s]]
  <2>1. r = [v EXCEPT !.planned = TRUE, !.sections = f]
    BY <1>2 DEF Reduce
  <2>2. \A s \in Sections : f[s].sources = v.sections[s].sources
    BY <1>0
  <2> HIDE DEF r, f
  <2>3. r.claims = v.claims /\ r.sections = f
    BY <2>1 DEF ViewType
  <2> QED
    BY <1>2, <2>2, <2>3 DEF ClaimsAfter, SourcesAfter
<1>3. CASE e.type \in {"section_start", "search", "source", "section_done"}
  <2> DEFINE s == e.of
             old == Upsert(v, s)
             new == CASE e.type = "section_start" -> [old EXCEPT !.status = "active"]
                      [] e.type = "search" ->
                            [old EXCEPT !.status = IF @ = "done" THEN @ ELSE "active",
                                        !.searches = @ + 1]
                      [] e.type = "source" -> [old EXCEPT !.sources = AddSource(@, s)]
                      [] e.type = "section_done" -> [old EXCEPT !.status = "done"]
  <2>1. s \in Sections /\ old \in SectionState /\ old.sources = v.sections[s].sources
    BY <1>0, <1>3 DEF Event, SectionTypes
  <2>2. r = [v EXCEPT !.sections[s] = new]
    BY <1>3 DEF Reduce, ReduceSection
  <2>3. new.sources = IF e.type = "source" THEN AddSource(old.sources, s) ELSE old.sources
    <3> HIDE DEF old, s
    <3>1. CASE e.type = "section_start"
      BY <2>1, <3>1 DEF SectionState
    <3>2. CASE e.type = "search"
      <4>1. new = [old EXCEPT !.status = IF @ = "done" THEN @ ELSE "active", !.searches = @ + 1]
        BY <3>2
      <4> HIDE DEF new
      <4> QED
        BY <2>1, <3>2, <4>1 DEF SectionState
    <3>3. CASE e.type = "source"
      <4>1. new = [old EXCEPT !.sources = AddSource(@, s)]
        BY <3>3
      <4> HIDE DEF new
      <4> QED
        BY <2>1, <3>3, <4>1 DEF SectionState
    <3>4. CASE e.type = "section_done"
      BY <2>1, <3>4 DEF SectionState
    <3> QED
      BY <1>3, <3>1, <3>2, <3>3, <3>4
  <2>4. s = e.of
    OBVIOUS
  <2> HIDE DEF r, s, old, new
  <2>5. r.claims = v.claims /\ r.sections = [v.sections EXCEPT ![s] = new]
    BY <2>1, <2>2 DEF ViewType
  <2>6. \A t \in Sections : r.sections[t] = IF t = s THEN new ELSE v.sections[t]
    BY <2>1, <2>5 DEF ViewType
  <2>7. \A t \in Sections : r.sections[t].sources = SourcesAfter(v.sections[t].sources, t, e)
    BY <2>1, <2>3, <2>4, <2>6 DEF SourcesAfter
  <2> QED
    BY <1>3, <2>5, <2>7 DEF ClaimsAfter
<1>4. CASE e.type \in {"claim", "verification"}
  <2> DEFINE x == CASE e.type = "claim" -> IF v.claims[e.of] = "none" THEN "open" ELSE v.claims[e.of]
                    [] e.type = "verification" ->
                          IF v.claims[e.of] = "none" THEN v.claims[e.of] ELSE "verified"
  <2>1. r = [v EXCEPT !.claims[e.of] = x]
    BY <1>4 DEF Reduce, ReduceClaim
  <2>2. ClaimsAfter(v.claims, e) = [v.claims EXCEPT ![e.of] = x]
    BY <1>4 DEF ClaimsAfter
  <2> HIDE DEF r, x
  <2>3. r.claims = [v.claims EXCEPT ![e.of] = x] /\ r.sections = v.sections
    BY <2>1 DEF ViewType
  <2> QED
    BY <1>4, <2>2, <2>3 DEF SourcesAfter
<1> QED
  BY <1>1, <1>2, <1>3, <1>4 DEF Event, SectionTypes

\* What an event does to a state of the page that was open from the start.
LEMMA AfterIs ==
    ASSUME NEW v \in ViewType, NEW e \in Event
    PROVE  LET r == After(v, e)
           IN  /\ r \in ViewType
               /\ r.status = IF e.type = "status" THEN e.of
                             ELSE IF e.type \in {"awaiting_plan", "error", "done"} THEN e.type ELSE v.status
               /\ r.awaiting = IF e.type = "status" THEN e.of = "awaiting_plan"
                               ELSE IF e.type = "awaiting_plan" THEN TRUE
                               ELSE IF e.type = "done" THEN FALSE ELSE v.awaiting
               /\ r.report = IF e.type = "report" THEN Markdown
                             ELSE IF e.type = "report_delta" THEN Append(v.report, e.of) ELSE v.report
               /\ r.final = IF e.type \in {"report", "done"} THEN TRUE ELSE v.final
               /\ r.failed = IF e.type = "error" THEN TRUE ELSE v.failed
               /\ r.claims = ClaimsAfter(v.claims, e)
               /\ \A s \in Sections : r.sections[s].sources = SourcesAfter(v.sections[s].sources, s, e)
<1>1. CASE e.type # "report_delta"
  <2>1. After(v, e) = Reduce(v, e)
    BY <1>1 DEF After
  <2> DEFINE r == Reduce(v, e)
  <2>2. /\ r \in ViewType
        /\ r.status = IF e.type = "status" THEN e.of
                      ELSE IF e.type \in {"awaiting_plan", "error", "done"} THEN e.type ELSE v.status
        /\ r.awaiting = IF e.type = "status" THEN e.of = "awaiting_plan"
                        ELSE IF e.type = "awaiting_plan" THEN TRUE
                        ELSE IF e.type = "done" THEN FALSE ELSE v.awaiting
        /\ r.report = IF e.type = "report" THEN Markdown ELSE v.report
        /\ r.final = IF e.type \in {"report", "done"} THEN TRUE ELSE v.final
        /\ r.failed = IF e.type = "error" THEN TRUE ELSE v.failed
    BY <1>1, ReduceIs
  <2>3. /\ r.claims = ClaimsAfter(v.claims, e)
        /\ \A s \in Sections : r.sections[s].sources = SourcesAfter(v.sections[s].sources, s, e)
    BY <1>1, ReduceFills
  <2>4. After(v, e) = r
    BY <2>1
  <2> HIDE DEF r
  <2> QED
    BY <1>1, <2>2, <2>3, <2>4
<1>2. CASE e.type = "report_delta"
  <2> DEFINE q == Append(v.report, e.of)
             r == After(v, e)
  <2>1. r = [v EXCEPT !.report = q]
    BY <1>2 DEF After
  <2>2. q \in Seq(0..Chunks)
    <3> DEFINE x == e.of
    <3>1. x \in 1..Chunks
      BY <1>2 DEF Event, SectionTypes
    <3>2. x \in 0..Chunks
      BY <3>1, ClientAssumption
    <3>3. v.report \in Seq(0..Chunks)
      BY DEF ViewType
    <3> HIDE DEF x
    <3> QED
      BY <3>2, <3>3 DEF x
  <2>3. ClaimsAfter(v.claims, e) = v.claims /\ \A s, p : SourcesAfter(p, s, e) = p
    BY <1>2 DEF ClaimsAfter, SourcesAfter
  <2>4. q = Append(v.report, e.of)
    OBVIOUS
  <2> HIDE DEF q, r
  <2>5. /\ r \in ViewType /\ r.status = v.status /\ r.awaiting = v.awaiting /\ r.report = q
        /\ r.final = v.final /\ r.failed = v.failed /\ r.claims = v.claims /\ r.sections = v.sections
    BY <2>1, <2>2 DEF ViewType
  <2> QED
    BY <1>2, <2>3, <2>4, <2>5 DEF r
<1> QED
  BY <1>1, <1>2

\* The status after one event more.
LEMMA NextRowAt ==
    ASSUME NEW n \in Nat
    PROVE  /\ RowAt(0) = "queued"
           /\ RowAt(n + 1) = IF Marks(log[n + 1]) THEN StageOf(log[n + 1]) ELSE RowAt(n)
<1> DEFINE marks(m) == {i \in 1..m : Marks(log[i])}
           last(m) == CHOOSE i \in marks(m) : \A j \in marks(m) : j <= i
<1>1. \A m : RowAt(m) = IF marks(m) = {} THEN "queued" ELSE StageOf(log[last(m)])
  BY DEF RowAt
<1>2. marks(0) = {}
  OBVIOUS
<1>3. \A i \in 1..(n + 1) : i = n + 1 \/ i \in 1..n
  OBVIOUS
<1>4. \A i \in 1..n : i \in 1..(n + 1)
  OBVIOUS
<1>5. CASE Marks(log[n + 1])
  <2>1. n + 1 \in marks(n + 1) /\ \A j \in marks(n + 1) : j <= n + 1
    BY <1>5
  <2>2. \A i \in marks(n + 1) : n + 1 <= i => i = n + 1
    OBVIOUS
  <2>3. last(n + 1) \in marks(n + 1) /\ \A j \in marks(n + 1) : j <= last(n + 1)
    <3> HIDE DEF marks
    <3> QED
      BY <2>1
  <2>4. last(n + 1) = n + 1
    <3> HIDE DEF marks, last
    <3> QED
      BY <2>1, <2>2, <2>3
  <2> HIDE DEF last, marks
  <2> QED
    BY <1>1, <1>2, <1>5, <2>1, <2>4
<1>6. CASE ~Marks(log[n + 1])
  <2>1. marks(n + 1) = marks(n)
    BY <1>3, <1>4, <1>6
  <2>2. last(n + 1) = last(n)
    BY <2>1
  <2> HIDE DEF last, marks
  <2> QED
    BY <1>1, <1>2, <1>6, <2>1, <2>2
<1> QED
  BY <1>5, <1>6

\* The types of one event more.
LEMMA NextHasType ==
    ASSUME NEW n \in Nat, NEW type
    PROVE  /\ ~HasType(0, type)
           /\ HasType(n + 1, type) <=> (HasType(n, type) \/ log[n + 1].type = type)
<1>1. \A i \in 1..(n + 1) : i = n + 1 \/ i \in 1..n
  OBVIOUS
<1>2. n + 1 \in 1..(n + 1) /\ \A i \in 1..n : i \in 1..(n + 1)
  OBVIOUS
<1> QED
  BY <1>1, <1>2 DEF HasType

\* The sources of a section after one event more.
LEMMA NextSources ==
    ASSUME LogInv, NEW n \in Nat, n + 1 \in 1..Len(log), NEW s
    PROVE  /\ SourcesAt(0, s) = << >>
           /\ SourcesAt(n + 1, s) = SourcesAfter(SourcesAt(n, s), s, log[n + 1])
<1> DEFINE e == log[n + 1]
           x == [type |-> "source", of |-> s]
<1>1. \A i \in 1..(n + 1) : i = n + 1 \/ i \in 1..n
  OBVIOUS
<1>2. n + 1 \in 1..(n + 1) /\ \A i \in 1..n : i \in 1..(n + 1)
  OBVIOUS
<1>3. Has(n + 1, x) <=> Has(n, x) \/ e = x
  <2> HIDE DEF x
  <2> QED
    BY <1>1, <1>2 DEF Has
<1>4. ~Has(0, x)
  BY DEF Has
<1>5. e \in Event
  BY DEF LogInv, ServerTypeOK
<1> HIDE DEF e
<1>6. e = x <=> e.type = "source" /\ e.of = s
  <2>1. e.type = "source" => e = [type |-> e.type, of |-> e.of]
    BY <1>5 DEF Event, SectionTypes
  <2> QED
    BY <2>1
<1>7. \A m : SourcesAt(m, s) = IF Has(m, x) THEN <<s>> ELSE << >>
  BY DEF SourcesAt
<1> HIDE DEF x
<1>8. AddSource(<< >>, s) = <<s>> /\ AddSource(<<s>>, s) = <<s>>
  <2>1. ~InSequence(s, << >>)
    BY DEF InSequence
  <2>2. InSequence(s, <<s>>)
    BY DEF InSequence
  <2>3. Append(<< >>, s) = <<s>>
    OBVIOUS
  <2> QED
    BY <2>1, <2>2, <2>3 DEF AddSource
<1>9. SourcesAfter(SourcesAt(n, s), s, e) = IF e = x THEN <<s>> ELSE SourcesAt(n, s)
  BY <1>6, <1>7, <1>8 DEF SourcesAfter
<1>10. SourcesAt(n + 1, s) = SourcesAfter(SourcesAt(n, s), s, e)
  BY <1>3, <1>7, <1>9
<1> QED
  BY <1>4, <1>7, <1>10 DEF e

\* No chunk follows the report.
LEMMA ChunkBeforeReport ==
    ASSUME LogInv, NEW n \in Nat, n + 1 \in 1..Len(log), log[n + 1].type = "report_delta"
    PROVE  ~HasType(n, "report") /\ log[n + 1].of = ChunksIn(log, n) + 1 /\ ChunksIn(log, n) + 1 \in 0..Chunks
<1>1. \A i \in 1..n : i \in 1..Len(log) /\ ~(n + 1 < i)
  <2> DEFINE l == Len(log)
  <2>1. l \in Nat /\ n + 1 \in 1..l /\ l = Len(log)
    BY DEF LogInv, ServerTypeOK
  <2> HIDE DEF l
  <2>2. \A i \in 1..n : i \in 1..l /\ ~(n + 1 < i)
    BY <2>1
  <2> QED
    BY <2>1, <2>2
<1>2. ~HasType(n, "report")
  BY <1>1 DEF LogInv, ChunksFirst, HasType
<1>3. log[n + 1].of = ChunksIn(log, n) + 1
  BY NextChunk DEF LogInv, ChunksNumbered
<1>4. log[n + 1].of \in 0..Chunks
  <2> DEFINE x == log[n + 1].of
  <2>1. log[n + 1] \in Event
    BY DEF LogInv, ServerTypeOK
  <2>2. x \in 1..Chunks
    BY <2>1 DEF Event, SectionTypes
  <2> HIDE DEF x
  <2>3. x \in 0..Chunks
    BY <2>2, ClientAssumption
  <2> QED
    BY <2>3 DEF x
<1> QED
  BY <1>2, <1>3, <1>4

\* What a page that was sent the first n events of the log, from the start, holds.
Tells(n) ==
    LET w == Replays(log)[n]
    IN  /\ w \in ViewType
        /\ w.status = RowAt(n)
        /\ w.status = "awaiting_plan" => w.awaiting
        /\ w.report = IF HasType(n, "report") THEN Markdown ELSE FirstChunks(ChunksIn(log, n))
        /\ HasType(n, "report") => w.final
        /\ \A s \in Sections : w.sections[s].sources = SourcesAt(n, s)

LEMMA ReplayTells ==
    ASSUME LogInv
    PROVE  \A n \in 0..Len(log) : Tells(n)
<1> DEFINE l == Len(log)
           S == {n \in 0..l : Tells(n)}
<1>0. l \in Nat /\ l = Len(log) /\ \A n \in 1..l : log[n] \in Event
  BY DEF LogInv, ServerTypeOK
<1>1. Tells(0)
  <2> DEFINE w == Replays(log)[0]
  <2>1. w = Initial
    BY <1>0, ReplayIs
  <2>2. Initial \in ViewType
    <3> DEFINE ss == [s \in Sections |-> Absent]
               cs == [s \in Sections |-> "none"]
    <3>1. << >> \in Seq(Sections) /\ << >> \in Seq(0..Chunks)
      OBVIOUS
    <3>2. ss \in [Sections -> SectionState] /\ cs \in [Sections -> {"none", "open", "verified"}]
      BY <3>1 DEF Absent, SectionState
    <3>3. Initial = [status |-> "queued", awaiting |-> FALSE, planned |-> FALSE, sections |-> ss, claims |-> cs,
                     report |-> << >>, final |-> FALSE, failed |-> FALSE]
      BY DEF Initial
    <3>4. "queued" \in Stages
      BY DEF Stages
    <3> HIDE DEF ss, cs
    <3> QED
      BY <3>1, <3>2, <3>3, <3>4 DEF ViewType
  <2>3. RowAt(0) = "queued"
    BY NextRowAt
  <2>4. FirstChunks(ChunksIn(log, 0)) = << >> /\ ~HasType(0, "report")
    <3>1. {i \in 1..0 : log[i].type = "report_delta"} = {}
      OBVIOUS
    <3>2. ChunksIn(log, 0) = 0
      BY <3>1, FS_EmptySet DEF ChunksIn
    <3>3. [n \in 1..0 |-> n] = << >>
      OBVIOUS
    <3> QED
      BY <3>2, <3>3 DEF FirstChunks, HasType
  <2>5. \A s \in Sections : SourcesAt(0, s) = << >>
    BY DEF SourcesAt, Has
  <2>6. /\ Initial.status = "queued" /\ Initial.report = << >>
        /\ \A s \in Sections : Initial.sections[s].sources = << >>
    BY DEF Initial, Absent
  <2> HIDE DEF w
  <2>7. /\ w \in ViewType /\ w.status = "queued" /\ w.report = << >>
        /\ \A s \in Sections : w.sections[s].sources = << >>
    BY <2>1, <2>2, <2>6
  <2> QED
    BY <2>3, <2>4, <2>5, <2>7 DEF Tells, w
<1>2. ASSUME NEW n \in 0..l, Tells(n), n < l
      PROVE  Tells(n + 1)
  <2> DEFINE v == Replays(log)[n]
             w == Replays(log)[n + 1]
             e == log[n + 1]
             c == ChunksIn(log, n)
  <2>0. n \in Nat /\ n + 1 \in 1..l /\ (n + 1) - 1 = n
    BY <1>0, <1>2
  <2>1. e \in Event /\ w = After(v, e)
    <3>1. Replays(log)[n + 1] = After(Replays(log)[(n + 1) - 1], log[n + 1])
      BY <1>0, <2>0, ReplayIs
    <3> QED
      BY <1>0, <2>0, <3>1
  <2>2. /\ v \in ViewType /\ v.status = RowAt(n) /\ (v.status = "awaiting_plan" => v.awaiting)
        /\ v.report = IF HasType(n, "report") THEN Markdown ELSE FirstChunks(c)
        /\ HasType(n, "report") => v.final
        /\ \A s \in Sections : v.sections[s].sources = SourcesAt(n, s)
    BY <1>2 DEF Tells
  <2>3. RowAt(n + 1) = IF Marks(e) THEN StageOf(e) ELSE RowAt(n)
    BY <2>0, NextRowAt
  <2>4. HasType(n + 1, "report") <=> (HasType(n, "report") \/ e.type = "report")
    BY <2>0, NextHasType
  <2>5. \A s \in Sections : SourcesAt(n + 1, s) = SourcesAfter(SourcesAt(n, s), s, e)
    BY <1>0, <2>0, NextSources
  <2>6. c \in Nat /\ ChunksIn(log, n + 1) = IF e.type = "report_delta" THEN c + 1 ELSE c
    BY <1>0, <2>0, NextChunk
  <2>7. e.type = "report_delta" => ~HasType(n, "report") /\ e.of = c + 1 /\ c + 1 \in 0..Chunks
    BY <1>0, <2>0, ChunkBeforeReport
  <2>8. e.type = "report_delta" => Append(FirstChunks(c), c + 1) = FirstChunks(c + 1)
    <3> SUFFICES ASSUME e.type = "report_delta" PROVE Append(FirstChunks(c), c + 1) = FirstChunks(c + 1)
      OBVIOUS
    <3> DEFINE A == 0..Chunks
               b == FirstChunks(c)
               r == << >>
    <3>1. r \in Seq(A) /\ b \in Seq(A)
      <4>1. b \in Seq(A)
        <5>1. v.report \in Seq(A)
          BY <2>2 DEF ViewType
        <5> QED
          BY <2>2, <2>7, <5>1
      <4> QED
        BY <4>1
    <3>2. c + 1 \in A
      BY <2>7
    <3> HIDE DEF b, c, A, r
    <3>3. r \o b = b
      BY <3>1, ConcatEmptySeq DEF r
    <3>4. r \o Append(b, c + 1) = FirstChunks(c + 1)
      <4>1. r \o b = FirstChunks(c) => r \o Append(b, c + 1) = FirstChunks(c + 1)
        BY <2>6, <3>1, <3>2, OneChunkMore
      <4> QED
        BY <3>3, <4>1 DEF b
    <3>5. r \o Append(b, c + 1) = Append(b, c + 1)
      <4>1. Append(b, c + 1) \in Seq(A)
        BY <3>1, <3>2
      <4> QED
        BY <4>1, ConcatEmptySeq DEF r
    <3> QED
      BY <3>4, <3>5 DEF b
  <2>9. Marks(e) => StageOf(e) = IF e.type = "status" THEN e.of ELSE e.type
    BY DEF StageOf
  <2> HIDE DEF c, e, v, w
  <2>10. /\ w \in ViewType
         /\ w.status = IF e.type = "status" THEN e.of
                       ELSE IF e.type \in {"awaiting_plan", "error", "done"} THEN e.type ELSE v.status
         /\ w.awaiting = IF e.type = "status" THEN e.of = "awaiting_plan"
                         ELSE IF e.type = "awaiting_plan" THEN TRUE
                         ELSE IF e.type = "done" THEN FALSE ELSE v.awaiting
         /\ w.report = IF e.type = "report" THEN Markdown
                       ELSE IF e.type = "report_delta" THEN Append(v.report, e.of) ELSE v.report
         /\ w.final = IF e.type \in {"report", "done"} THEN TRUE ELSE v.final
         /\ \A s \in Sections : w.sections[s].sources = SourcesAfter(v.sections[s].sources, s, e)
    <3> DEFINE r == After(v, e)
    <3>1. /\ r \in ViewType
          /\ r.status = IF e.type = "status" THEN e.of
                        ELSE IF e.type \in {"awaiting_plan", "error", "done"} THEN e.type ELSE v.status
          /\ r.awaiting = IF e.type = "status" THEN e.of = "awaiting_plan"
                          ELSE IF e.type = "awaiting_plan" THEN TRUE
                          ELSE IF e.type = "done" THEN FALSE ELSE v.awaiting
          /\ r.report = IF e.type = "report" THEN Markdown
                        ELSE IF e.type = "report_delta" THEN Append(v.report, e.of) ELSE v.report
          /\ r.final = IF e.type \in {"report", "done"} THEN TRUE ELSE v.final
          /\ \A s \in Sections : r.sections[s].sources = SourcesAfter(v.sections[s].sources, s, e)
      BY <2>1, <2>2, AfterIs
    <3>2. w = r
      BY <2>1
    <3> HIDE DEF r
    <3> QED
      BY <3>1, <3>2
  <2>11. w.status = RowAt(n + 1)
    BY <2>2, <2>3, <2>9, <2>10 DEF Marks
  <2>12. w.status = "awaiting_plan" => w.awaiting
    BY <2>2, <2>10
  <2>13. w.report = IF HasType(n + 1, "report") THEN Markdown ELSE FirstChunks(ChunksIn(log, n + 1))
    <3>1. CASE e.type = "report"
      BY <2>4, <2>10, <3>1
    <3>2. CASE e.type = "report_delta"
      BY <2>2, <2>4, <2>6, <2>7, <2>8, <2>10, <3>2
    <3>3. CASE e.type \notin {"report", "report_delta"}
      BY <2>2, <2>4, <2>6, <2>10, <3>3
    <3> QED
      BY <3>1, <3>2, <3>3
  <2>14. HasType(n + 1, "report") => w.final
    BY <2>2, <2>4, <2>10
  <2>15. \A s \in Sections : w.sections[s].sources = SourcesAt(n + 1, s)
    BY <2>2, <2>5, <2>10
  <2> QED
    BY <2>10, <2>11, <2>12, <2>13, <2>14, <2>15 DEF Tells, w
<1>3. \A n \in 0..l : n \in S
  <2>1. 0 \in S
    BY <1>0, <1>1
  <2>2. \A n \in 0..l : n \in S /\ n < l => n + 1 \in S
    BY <1>0, <1>2
  <2> HIDE DEF S, l
  <2> QED
    BY <1>0, <2>1, <2>2, StepByStep
<1> QED
  BY <1>3

\* What was replayed of a log stays as it is when the log grows.
LEMMA ReplayGrows ==
    ASSUME NEW q, NEW p, Len(q) \in Nat, Len(p) \in Nat, Len(q) <= Len(p),
           \A i \in 1..Len(q) : p[i] = q[i]
    PROVE  \A n \in 0..Len(q) : Replays(p)[n] = Replays(q)[n]
<1> DEFINE l == Len(q)
           m == Len(p)
           S == {n \in 0..l : Replays(p)[n] = Replays(q)[n]}
<1>1. /\ Replays(q)[0] = Initial /\ \A n \in 1..l : Replays(q)[n] = After(Replays(q)[n - 1], q[n])
      /\ Replays(p)[0] = Initial /\ \A n \in 1..m : Replays(p)[n] = After(Replays(p)[n - 1], p[n])
  BY ReplayIs
<1>2. l \in Nat /\ m \in Nat /\ l <= m /\ \A i \in 1..l : p[i] = q[i]
  OBVIOUS
<1>3. 0 \in S
  BY <1>1, <1>2
<1> HIDE DEF l, m
<1>4. ASSUME NEW n \in 0..l, n \in S, n < l
      PROVE  n + 1 \in S
  <2>1. n + 1 \in 1..l /\ n + 1 \in 1..m /\ (n + 1) - 1 = n /\ n + 1 \in 0..l
    BY <1>2, <1>4
  <2>2. Replays(q)[n + 1] = After(Replays(q)[n], q[n + 1]) /\ Replays(p)[n + 1] = After(Replays(p)[n], p[n + 1])
    BY <1>1, <2>1
  <2>3. Replays(p)[n] = Replays(q)[n]
    BY <1>4
  <2> QED
    BY <1>2, <2>1, <2>2, <2>3
<1> HIDE DEF S
<1>5. \A n \in 0..l : n \in S
  BY <1>2, <1>3, <1>4, StepByStep
<1> QED
  BY <1>5 DEF S, l

-----------------------------------------------------------------------------
(* Hydrating and replaying agree *)

SourceIn(q, n, s) == \E i \in 1..n : q[i] = [type |-> "source", of |-> s]

\* The state v of a page that has taken in the first k events of q: its claims
\* are theirs, its status and its question may be of some later moment, and it
\* lists no source that is not stored and every source it was sent.
Matches(v, q, k) ==
    /\ v.claims = Replays(q)[k].claims /\ v.failed = Replays(q)[k].failed
    /\ v.status = "cancelled" \/ \E d \in k..Len(q) : v.status = Replays(q)[d].status
    /\ v.awaiting => \E d \in k..Len(q) : Replays(q)[d].awaiting
    /\ \A s \in Drafted :
          /\ v.sections[s].sources \in {<< >>, <<s>>}
          /\ SourceIn(q, k, s) => v.sections[s].sources = <<s>>
          /\ v.sections[s].sources = <<s>> => SourceIn(q, Len(q), s)

\* The answer to getRun is not older than what the page has.
Follows(k) == Matches(view, log, k) /\ (phase = "answered" => k <= detail)

FollowInv == \E k \in 0..Len(log) : seen = 1..k /\ Follows(k)

\* It still matches when the log has grown.
LEMMA MatchGrows ==
    ASSUME NEW v, NEW q, NEW p, Len(q) \in Nat, Len(p) \in Nat, Len(q) <= Len(p),
           \A i \in 1..Len(q) : p[i] = q[i], NEW k \in 0..Len(q), Matches(v, q, k)
    PROVE  k \in 0..Len(p) /\ Matches(v, p, k)
<1> DEFINE l == Len(q)
           m == Len(p)
<1>1. \A n \in 0..l : Replays(p)[n] = Replays(q)[n]
  BY ReplayGrows
<1>2. l \in Nat /\ m \in Nat /\ l <= m /\ k \in 0..l /\ \A i \in 1..l : p[i] = q[i]
  OBVIOUS
<1>3. l = Len(q) /\ m = Len(p)
  OBVIOUS
<1> HIDE DEF l, m
<1>4. k \in 0..m /\ \A d \in k..l : d \in k..m /\ d \in 0..l
  BY <1>2
<1>5. \A i \in 1..k : i \in 1..l
  BY <1>2
<1>6. \A i \in 1..l : i \in 1..m
  BY <1>2
<1>7. \A s : (SourceIn(p, k, s) => SourceIn(q, k, s)) /\ (SourceIn(q, l, s) => SourceIn(p, m, s))
  BY <1>2, <1>5, <1>6 DEF SourceIn
<1>8. v.claims = Replays(p)[k].claims /\ v.failed = Replays(p)[k].failed
  BY <1>1, <1>2 DEF Matches
<1>9. v.status = "cancelled" \/ \E d \in k..m : v.status = Replays(p)[d].status
  BY <1>1, <1>3, <1>4 DEF Matches
<1>10. v.awaiting => \E d \in k..m : Replays(p)[d].awaiting
  BY <1>1, <1>3, <1>4 DEF Matches
<1>11. \A s \in Drafted : /\ v.sections[s].sources \in {<< >>, <<s>>}
                          /\ SourceIn(p, k, s) => v.sections[s].sources = <<s>>
                          /\ v.sections[s].sources = <<s>> => SourceIn(p, m, s)
  BY <1>3, <1>7 DEF Matches
<1> QED
  BY <1>3, <1>4, <1>8, <1>9, <1>10, <1>11 DEF Matches

\* It still matches after what the page does without an event.
LEMMA MatchKept ==
    ASSUME NEW v, NEW w, NEW q, NEW k, Matches(v, q, k),
           w.claims = v.claims, w.failed = v.failed, w.sections = v.sections,
           w.status \in {v.status, "cancelled"}, w.awaiting => v.awaiting
    PROVE  Matches(w, q, k)
BY Zenon DEF Matches

\* One event more.
LEMMA MatchNext ==
    ASSUME LogInv, NEW v, NEW w, NEW k \in Nat, k + 1 \in 1..Len(log), Matches(v, log, k),
           w.status = IF log[k + 1].type = "status" THEN log[k + 1].of
                      ELSE IF log[k + 1].type \in {"awaiting_plan", "error", "done"} THEN log[k + 1].type
                      ELSE v.status,
           w.awaiting = IF log[k + 1].type = "status" THEN log[k + 1].of = "awaiting_plan"
                        ELSE IF log[k + 1].type = "awaiting_plan" THEN TRUE
                        ELSE IF log[k + 1].type = "done" THEN FALSE ELSE v.awaiting,
           w.failed = IF log[k + 1].type = "error" THEN TRUE ELSE v.failed,
           w.claims = ClaimsAfter(v.claims, log[k + 1]),
           \A s \in Sections : w.sections[s].sources = SourcesAfter(v.sections[s].sources, s, log[k + 1])
    PROVE  Matches(w, log, k + 1)
<1> DEFINE l == Len(log)
           e == log[k + 1]
           a == Replays(log)[k]
           b == Replays(log)[k + 1]
           n == k + 1
<1>1. l \in Nat /\ k + 1 \in 1..l /\ k \in 0..l /\ l = Len(log) /\ n = k + 1 /\ n \in 1..l
  <2>1. l \in Nat /\ k + 1 \in 1..l /\ l = Len(log) /\ n = k + 1
    BY DEF LogInv, ServerTypeOK
  <2> HIDE DEF l
  <2> QED
    BY <2>1
<1>2. e \in Event /\ b = After(a, e) /\ a \in ViewType
  <2>1. Replays(log)[n] = After(Replays(log)[n - 1], log[n])
    BY <1>1, ReplayIs
  <2>2. n - 1 = k
    OBVIOUS
  <2>3. a \in ViewType
    BY <1>1, ReplayTells DEF Tells
  <2>4. log[n] \in Event
    BY <1>1 DEF LogInv, ServerTypeOK
  <2> QED
    BY <2>1, <2>2, <2>3, <2>4
<1>3. /\ w.status = IF e.type = "status" THEN e.of
                    ELSE IF e.type \in {"awaiting_plan", "error", "done"} THEN e.type ELSE v.status
      /\ w.awaiting = IF e.type = "status" THEN e.of = "awaiting_plan"
                      ELSE IF e.type = "awaiting_plan" THEN TRUE
                      ELSE IF e.type = "done" THEN FALSE ELSE v.awaiting
      /\ w.failed = IF e.type = "error" THEN TRUE ELSE v.failed
      /\ w.claims = ClaimsAfter(v.claims, e)
      /\ \A s \in Sections : w.sections[s].sources = SourcesAfter(v.sections[s].sources, s, e)
  OBVIOUS
<1>4. /\ v.claims = a.claims /\ v.failed = a.failed
      /\ v.status = "cancelled" \/ \E d \in k..l : v.status = Replays(log)[d].status
      /\ v.awaiting => \E d \in k..l : Replays(log)[d].awaiting
      /\ \A s \in Drafted :
            /\ v.sections[s].sources \in {<< >>, <<s>>}
            /\ SourceIn(log, k, s) => v.sections[s].sources = <<s>>
            /\ v.sections[s].sources = <<s>> => SourceIn(log, l, s)
  BY DEF Matches
<1>5. b = Replays(log)[n] /\ a = Replays(log)[k] /\ e = log[n]
  OBVIOUS
<1> HIDE DEF a, b, e, l, n
<1>6. /\ b.status = IF e.type = "status" THEN e.of
                    ELSE IF e.type \in {"awaiting_plan", "error", "done"} THEN e.type ELSE a.status
      /\ b.awaiting = IF e.type = "status" THEN e.of = "awaiting_plan"
                      ELSE IF e.type = "awaiting_plan" THEN TRUE
                      ELSE IF e.type = "done" THEN FALSE ELSE a.awaiting
      /\ b.failed = IF e.type = "error" THEN TRUE ELSE a.failed
      /\ b.claims = ClaimsAfter(a.claims, e)
  <2> DEFINE r == After(a, e)
  <2>1. /\ r.status = IF e.type = "status" THEN e.of
                      ELSE IF e.type \in {"awaiting_plan", "error", "done"} THEN e.type ELSE a.status
        /\ r.awaiting = IF e.type = "status" THEN e.of = "awaiting_plan"
                        ELSE IF e.type = "awaiting_plan" THEN TRUE
                        ELSE IF e.type = "done" THEN FALSE ELSE a.awaiting
        /\ r.failed = IF e.type = "error" THEN TRUE ELSE a.failed
        /\ r.claims = ClaimsAfter(a.claims, e)
    BY <1>2, AfterIs
  <2>2. b = r
    BY <1>2
  <2> HIDE DEF r
  <2> QED
    BY <2>1, <2>2
<1>7. n \in n..l /\ \A d \in k..l : d = k \/ d \in n..l
  BY <1>1
<1>8. w.claims = b.claims /\ w.failed = b.failed
  BY <1>3, <1>4, <1>6
<1>9. w.status = "cancelled" \/ \E d \in n..l : w.status = Replays(log)[d].status
  <2>1. CASE e.type \in {"status", "awaiting_plan", "error", "done"}
    <3>1. w.status = b.status
      BY <1>3, <1>6, <2>1
    <3> QED
      BY <1>5, <1>7, <3>1
  <2>2. CASE e.type \notin {"status", "awaiting_plan", "error", "done"}
    <3>1. w.status = v.status /\ b.status = a.status
      BY <1>3, <1>6, <2>2
    <3>2. CASE v.status = "cancelled"
      BY <3>1, <3>2
    <3>3. CASE v.status # "cancelled"
      <4>1. PICK d \in k..l : v.status = Replays(log)[d].status
        BY <1>4, <3>3
      <4>2. CASE d = k
        BY <1>5, <1>7, <3>1, <4>1, <4>2
      <4>3. CASE d # k
        BY <1>7, <3>1, <4>1, <4>3
      <4> QED
        BY <4>2, <4>3
    <3> QED
      BY <3>2, <3>3
  <2> QED
    BY <2>1, <2>2
<1>10. w.awaiting => \E d \in n..l : Replays(log)[d].awaiting
  <2>1. CASE e.type \in {"status", "awaiting_plan", "done"}
    <3>1. w.awaiting = b.awaiting
      BY <1>3, <1>6, <2>1
    <3> QED
      BY <1>5, <1>7, <3>1
  <2>2. CASE e.type \notin {"status", "awaiting_plan", "done"}
    <3>1. w.awaiting = v.awaiting /\ b.awaiting = a.awaiting
      BY <1>3, <1>6, <2>2
    <3> SUFFICES ASSUME w.awaiting PROVE \E d \in n..l : Replays(log)[d].awaiting
      OBVIOUS
    <3>2. PICK d \in k..l : Replays(log)[d].awaiting
      BY <1>4, <3>1
    <3>3. CASE d = k
      BY <1>5, <1>7, <3>1, <3>2, <3>3
    <3>4. CASE d # k
      BY <1>7, <3>2, <3>4
    <3> QED
      BY <3>3, <3>4
  <2> QED
    BY <2>1, <2>2
<1>11. ASSUME NEW s \in Drafted
       PROVE  /\ w.sections[s].sources \in {<< >>, <<s>>}
              /\ SourceIn(log, n, s) => w.sections[s].sources = <<s>>
              /\ w.sections[s].sources = <<s>> => SourceIn(log, l, s)
  <2> DEFINE x == [type |-> "source", of |-> s]
             old == v.sections[s].sources
             new == w.sections[s].sources
  <2>0. s \in Sections
    BY ClientAssumption
  <2>1. new = SourcesAfter(old, s, e)
    BY <1>3, <2>0
  <2>2. /\ old \in {<< >>, <<s>>} /\ (SourceIn(log, k, s) => old = <<s>>)
        /\ old = <<s>> => SourceIn(log, l, s)
    BY <1>4
  <2>3. e = x <=> e.type = "source" /\ e.of = s
    <3>1. e.type = "source" => e = [type |-> e.type, of |-> e.of]
      BY <1>2 DEF Event, SectionTypes
    <3> QED
      BY <3>1
  <2>4. AddSource(<< >>, s) = <<s>> /\ AddSource(<<s>>, s) = <<s>>
    <3>1. ~InSequence(s, << >>)
      BY DEF InSequence
    <3>2. InSequence(s, <<s>>)
      BY DEF InSequence
    <3>3. Append(<< >>, s) = <<s>>
      OBVIOUS
    <3> QED
      BY <3>1, <3>2, <3>3 DEF AddSource
  <2>5. \A i \in 1..n : i = n \/ i \in 1..k
    BY <1>1
  <2>6. x = [type |-> "source", of |-> s]
    OBVIOUS
  <2> HIDE DEF old, new, x
  <2>7. new = IF e = x THEN <<s>> ELSE old
    BY <2>1, <2>2, <2>3, <2>4 DEF SourcesAfter
  <2>8. SourceIn(log, n, s) => SourceIn(log, k, s) \/ e = x
    BY <1>5, <2>5, <2>6 DEF SourceIn
  <2>9. e = x => SourceIn(log, l, s)
    BY <1>1, <1>5, <2>6 DEF SourceIn
  <2>10. new \in {<< >>, <<s>>} /\ (SourceIn(log, n, s) => new = <<s>>) /\ (new = <<s>> => SourceIn(log, l, s))
    BY <2>2, <2>7, <2>8, <2>9
  <2> QED
    BY <2>10 DEF new
<1> QED
  BY <1>1, <1>5, <1>8, <1>9, <1>10, <1>11 DEF Matches

\* What hydrating does to claims and sections.
LEMMA HydratedFills ==
    ASSUME NEW v \in ViewType, NEW n
    PROVE  /\ Hydrated(v, n).claims = v.claims
           /\ Hydrated(v, n).sections = IF HasType(n, "plan") THEN HydratedSections(n) ELSE v.sections
<1> DEFINE f == IF HasType(n, "plan") THEN HydratedSections(n) ELSE v.sections
           m == IF HasType(n, "report") THEN Markdown ELSE v.report
           b == IF HasType(n, "report") THEN RowAt(n) = "done" ELSE v.final
           p == v.planned \/ HasType(n, "plan")
           a == RowAt(n) = "awaiting_plan"
           h == Hydrated(v, n)
<1>1. h = [v EXCEPT !.status = RowAt(n), !.awaiting = a, !.planned = p, !.sections = f, !.report = m, !.final = b]
  BY DEF Hydrated
<1> HIDE DEF h, f, m, b, p, a
<1>2. h.claims = v.claims /\ h.sections = f
  BY <1>1 DEF ViewType
<1> QED
  BY <1>2 DEF h, f

\* Flushing the buffer touches neither.
LEMMA FlushedFills ==
    ASSUME TypeOK
    PROVE  Flushed.claims = view.claims /\ Flushed.sections = view.sections
<1> DEFINE t == view.report \o buffer
<1>1. view \in ViewType /\ Flushed = [view EXCEPT !.report = t]
  BY DEF TypeOK, Flushed
<1> HIDE DEF t
<1> QED
  BY <1>1 DEF ViewType

\* Nor does what the page does by itself.
LEMMA ConfirmedFills ==
    ASSUME TypeOK, NEW w, w \in {[view EXCEPT !.status = "cancelled", !.awaiting = FALSE],
                                 [view EXCEPT !.awaiting = FALSE]}
    PROVE  /\ w.claims = view.claims /\ w.sections = view.sections /\ w.failed = view.failed
           /\ w.status \in {view.status, "cancelled"} /\ (w.awaiting => view.awaiting)
<1>1. view \in ViewType
  BY DEF TypeOK
<1> QED
  BY <1>1 DEF ViewType

\* A page that is rebuilt from an answer which is not older than what it has.
LEMMA MatchHydrated ==
    ASSUME LogInv, view \in ViewType, detail \in 0..Len(log),
           NEW k \in 0..Len(log), k <= detail, Matches(view, log, k)
    PROVE  Matches(Hydrated(view, detail), log, k)
<1> DEFINE h == Hydrated(view, detail)
           l == Len(log)
           d == detail
           w == Replays(log)[d]
<1>1. l \in Nat /\ d \in 0..l /\ k \in 0..l /\ k <= d /\ l = Len(log)
  BY DEF LogInv, ServerTypeOK
<1>2. h.status = RowAt(d) /\ h.awaiting = (RowAt(d) = "awaiting_plan") /\ h.failed = view.failed
  BY HydratedIs
<1>3. h.claims = view.claims /\ h.sections = IF HasType(d, "plan") THEN HydratedSections(d) ELSE view.sections
  BY HydratedFills
<1>4. w.status = RowAt(d) /\ (w.status = "awaiting_plan" => w.awaiting)
  BY ReplayTells DEF Tells
<1>5. w = Replays(log)[d]
  OBVIOUS
<1> HIDE DEF h, l, d, w
<1>6. d \in k..l
  BY <1>1
<1>7. h.status = Replays(log)[d].status /\ (h.awaiting => Replays(log)[d].awaiting)
  BY <1>2, <1>4, <1>5
<1>8. ASSUME NEW s \in Drafted
      PROVE  /\ h.sections[s].sources \in {<< >>, <<s>>}
             /\ SourceIn(log, k, s) => h.sections[s].sources = <<s>>
             /\ h.sections[s].sources = <<s>> => SourceIn(log, l, s)
  <2>1. CASE HasType(d, "plan")
    <3> DEFINE sh == [Empty EXCEPT !.sources = SourcesAt(d, s),
                                   !.status = IF RowAt(d) = "done" THEN "done" ELSE "pending"]
               q == SourcesAt(d, s)
    <3>1. h.sections[s] = sh
      BY <1>3, <2>1, ClientAssumption DEF HydratedSections
    <3>2. sh.sources = q
      BY DEF Empty
    <3>3. q = IF SourceIn(log, d, s) THEN <<s>> ELSE << >>
      BY DEF SourcesAt, Has, SourceIn
    <3> HIDE DEF sh, q
    <3>4. \A i \in 1..k : i \in 1..d
      BY <1>1
    <3>5. \A i \in 1..d : i \in 1..l
      BY <1>1
    <3>6. (SourceIn(log, k, s) => SourceIn(log, d, s)) /\ (SourceIn(log, d, s) => SourceIn(log, l, s))
      BY <3>4, <3>5 DEF SourceIn
    <3>7. << >> # <<s>>
      OBVIOUS
    <3> QED
      BY <3>1, <3>2, <3>3, <3>6, <3>7
  <2>2. CASE ~HasType(d, "plan")
    <3>1. h.sections = view.sections
      BY <1>3, <2>2
    <3>2. /\ view.sections[s].sources \in {<< >>, <<s>>}
          /\ SourceIn(log, k, s) => view.sections[s].sources = <<s>>
          /\ view.sections[s].sources = <<s>> => SourceIn(log, l, s)
      BY <1>1 DEF Matches
    <3> QED
      BY <3>1, <3>2
  <2> QED
    BY <2>1, <2>2
<1>9. /\ h.claims = Replays(log)[k].claims /\ h.failed = Replays(log)[k].failed
  BY <1>2, <1>3 DEF Matches
<1>10. /\ h.status = "cancelled" \/ \E i \in k..l : h.status = Replays(log)[i].status
       /\ h.awaiting => \E i \in k..l : Replays(log)[i].awaiting
  BY <1>6, <1>7
<1>11. Matches(h, log, k)
  BY <1>1, <1>8, <1>9, <1>10 DEF Matches
<1> QED
  BY <1>11 DEF h

\* One number only counts what was taken in.
LEMMA SameCount ==
    ASSUME NEW a \in Nat, NEW b \in Nat, 1..a = 1..b
    PROVE  a = b
<1>1. a < b => b \in 1..b /\ b \notin 1..a
  OBVIOUS
<1>2. b < a => a \in 1..a /\ a \notin 1..b
  OBVIOUS
<1>3. a < b \/ b < a \/ a = b
  OBVIOUS
<1> QED
  BY <1>1, <1>2, <1>3

LEMMA FollowInit ==
    ASSUME Init
    PROVE  FollowInv
<1> DEFINE w == Replays(log)[0]
<1>1. log = << >> /\ seen = {} /\ view = Initial /\ phase = "hydrate"
  BY DEF Init
<1>2. Len(log) = 0
  BY <1>1
<1>3. w = Initial
  BY <1>2, ReplayIs
<1>4. 0 \in 0..0 /\ {} = 1..0
  OBVIOUS
<1>5. \A s : ~SourceIn(log, 0, s)
  BY DEF SourceIn
<1>6. \A s \in Drafted : Initial.sections[s].sources = << >>
  BY ClientAssumption DEF Initial, Absent
<1>7. Initial.awaiting = FALSE
  BY DEF Initial
<1> HIDE DEF w
<1>8. \A s : << >> # <<s>>
  OBVIOUS
<1>9. Matches(Initial, log, 0)
  BY <1>2, <1>3, <1>4, <1>5, <1>6, <1>7, <1>8 DEF Matches, w
<1>10. Follows(0)
  BY <1>1, <1>9 DEF Follows
<1> QED
  BY <1>1, <1>2, <1>4, <1>10 DEF FollowInv

\* The page takes in an event.
LEMMA FollowEvent ==
    ASSUME ClientInv, NEW k \in 0..Len(log), seen = 1..k, Matches(view, log, k),
           Delivers, ~AlreadySeen(pos + 1), seen' = seen \cup {pos + 1}, UNCHANGED serverVars, phase' = phase,
           NEW w, w \in {view, Flushed},
           view' = IF log[pos + 1].type = "report_delta" THEN w ELSE Reduce(w, log[pos + 1])
    PROVE  FollowInv'
<1>0. LogInv /\ TypeOK
  BY DEF ClientInv
<1>1. PICK j \in Nat :
          /\ seen = 1..j /\ pos = j /\ seen' = 1..(j + 1) /\ pos' = j + 1 /\ phase = "reading"
          /\ j + 1 \in 1..Len(log) /\ Len(log) \in Nat
  BY NewEvent
<1>2. k \in Nat /\ k = j
  BY <1>1, SameCount
<1> DEFINE e == log[k + 1]
           l == Len(log)
           r == Reduce(w, e)
<1>3. e \in Event /\ k + 1 \in 1..l
  BY <1>0, <1>1, <1>2 DEF LogInv, ServerTypeOK
<1>4. w \in ViewType /\ w.status = view.status /\ w.awaiting = view.awaiting
      /\ w.failed = view.failed /\ w.claims = view.claims /\ w.sections = view.sections
  BY <1>0, FlushedIs, FlushedFills DEF TypeOK
<1>5. view' = IF e.type = "report_delta" THEN w ELSE r
  BY <1>1, <1>2
<1>6. e.type # "report_delta" =>
          /\ r.status = IF e.type = "status" THEN e.of
                        ELSE IF e.type \in {"awaiting_plan", "error", "done"} THEN e.type ELSE w.status
          /\ r.awaiting = IF e.type = "status" THEN e.of = "awaiting_plan"
                          ELSE IF e.type = "awaiting_plan" THEN TRUE
                          ELSE IF e.type = "done" THEN FALSE ELSE w.awaiting
          /\ r.failed = IF e.type = "error" THEN TRUE ELSE w.failed
          /\ r.claims = ClaimsAfter(w.claims, e)
          /\ \A s \in Sections : r.sections[s].sources = SourcesAfter(w.sections[s].sources, s, e)
  <2> SUFFICES ASSUME e.type # "report_delta"
               PROVE  /\ r.status = IF e.type = "status" THEN e.of
                            ELSE IF e.type \in {"awaiting_plan", "error", "done"} THEN e.type ELSE w.status
                      /\ r.awaiting = IF e.type = "status" THEN e.of = "awaiting_plan"
                              ELSE IF e.type = "awaiting_plan" THEN TRUE
                              ELSE IF e.type = "done" THEN FALSE ELSE w.awaiting
                      /\ r.failed = IF e.type = "error" THEN TRUE ELSE w.failed
                      /\ r.claims = ClaimsAfter(w.claims, e)
                      /\ \A s \in Sections : r.sections[s].sources = SourcesAfter(w.sections[s].sources, s, e)
    OBVIOUS
  <2>1. r.claims = ClaimsAfter(w.claims, e)
        /\ \A s \in Sections : r.sections[s].sources = SourcesAfter(w.sections[s].sources, s, e)
    BY <1>3, <1>4, ReduceFills
  <2> QED
    BY <1>3, <1>4, <2>1, ReduceIs
<1>7. e.type = "report_delta" => ClaimsAfter(w.claims, e) = w.claims /\ \A p, s : SourcesAfter(p, s, e) = p
  BY DEF ClaimsAfter, SourcesAfter
<1> DEFINE v == IF e.type = "report_delta" THEN w ELSE r
<1>8. /\ v.status = IF e.type = "status" THEN e.of
                    ELSE IF e.type \in {"awaiting_plan", "error", "done"} THEN e.type ELSE view.status
      /\ v.awaiting = IF e.type = "status" THEN e.of = "awaiting_plan"
                      ELSE IF e.type = "awaiting_plan" THEN TRUE
                      ELSE IF e.type = "done" THEN FALSE ELSE view.awaiting
      /\ v.failed = IF e.type = "error" THEN TRUE ELSE view.failed
      /\ v.claims = ClaimsAfter(view.claims, e)
      /\ \A s \in Sections : v.sections[s].sources = SourcesAfter(view.sections[s].sources, s, e)
  <2> HIDE DEF e, r
  <2>1. CASE e.type = "report_delta"
    BY <1>4, <1>7, <2>1
  <2>2. CASE e.type # "report_delta"
    BY <1>4, <1>6, <2>2
  <2> QED
    BY <2>1, <2>2
<1>9. Matches(v, log, k + 1)
  <2> HIDE DEF v
  <2> QED
    BY <1>0, <1>2, <1>3, <1>8, MatchNext
<1>10. k + 1 \in 0..l /\ l = Len(log)
  <2>1. l \in Nat
    BY <1>1
  <2> HIDE DEF l
  <2>2. k + 1 \in 0..l
    BY <1>2, <1>3, <2>1
  <2> QED
    BY <2>2 DEF l
<1>11. view' = v /\ log' = log /\ phase' # "answered" /\ seen' = 1..(k + 1)
  BY <1>1, <1>2, <1>5 DEF serverVars
<1> DEFINE n == k + 1
<1>12. n \in 0..Len(log') /\ seen' = 1..n /\ Matches(view', log', n)
  BY <1>9, <1>10, <1>11
<1> HIDE DEF n
<1> QED
  BY <1>11, <1>12 DEF FollowInv, Follows

\* A step that takes in nothing.
LEMMA FollowOthers ==
    ASSUME ClientInv, [Next]_vars, NEW k \in 0..Len(log), seen = 1..k, Follows(k), seen' = seen,
           Matches(view', log, k),
           phase' = "answered" => \/ phase = "answered" /\ detail' = detail
                                  \/ detail' = Len(log)
    PROVE  FollowInv'
<1>0. LogInv /\ TypeOK
  BY DEF ClientInv
<1>1. /\ Len(log) \in Nat /\ Len(log') \in Nat /\ Len(log) <= Len(log')
      /\ \A i \in 1..Len(log) : log'[i] = log[i]
  BY <1>0, LogExtends
<1>2. k \in 0..Len(log') /\ Matches(view', log', k)
  <2> DEFINE v == view'
             p == log'
  <2>1. /\ Len(p) \in Nat /\ Len(log) <= Len(p) /\ \A i \in 1..Len(log) : p[i] = log[i]
        /\ Matches(v, log, k)
    BY <1>1
  <2> HIDE DEF v, p
  <2>2. k \in 0..Len(p) /\ Matches(v, p, k)
    BY <1>1, <2>1, MatchGrows
  <2> QED
    BY <2>2 DEF v, p
<1>3. phase' = "answered" => k <= detail'
  <2>1. k <= Len(log)
    BY <1>1
  <2> QED
    BY <2>1 DEF Follows
<1> QED
  BY <1>2, <1>3 DEF FollowInv, Follows

\* Every step keeps up.
LEMMA FollowStep ==
    ASSUME ClientInv, FollowInv, [Next]_vars
    PROVE  FollowInv'
<1>0. LogInv /\ TypeOK /\ view \in ViewType
  BY DEF ClientInv, TypeOK
<1>1. PICK k \in 0..Len(log) : seen = 1..k /\ Follows(k)
  BY DEF FollowInv
<1>2. Matches(view, log, k) /\ (phase = "answered" => k <= detail)
  BY <1>1 DEF Follows
<1>3. CASE \/ ServerNext \/ ServerAnswers \/ HydrateFails \/ Opens \/ SkipsEvent \/ Retry
           \/ ClicksCancel \/ CancelFails \/ EditsPlan \/ ClicksApprove \/ ApproveFails \/ UNCHANGED vars
  <2>1. UNCHANGED <<seen, view>>
    <3>1. CASE ServerNext
      BY <3>1 DEF ServerNext, ServerEmits, ServerFails, ApprovedElsewhere, CancelledElsewhere, ServerCancels,
                  ServerApproves, ServerRefuses, refVars
    <3>2. CASE \/ ServerAnswers \/ HydrateFails \/ Opens \/ SkipsEvent \/ Retry
               \/ ClicksCancel \/ CancelFails \/ EditsPlan \/ ClicksApprove \/ ApproveFails \/ UNCHANGED vars
      BY <3>2 DEF ServerAnswers, HydrateFails, Opens, SkipsEvent, Retry, KeptSeqs, ClicksCancel, CancelFails,
                  EditsPlan, ClicksApprove, ApproveFails, vars, refVars
    <3> QED
      BY <1>3, <3>1, <3>2
  <2>2. phase' = "answered" => \/ phase = "answered" /\ detail' = detail
                               \/ detail' = Len(log)
    <3>1. CASE ServerNext
      BY <3>1 DEF ServerNext, ServerEmits, ServerFails, ApprovedElsewhere, CancelledElsewhere, ServerCancels,
                  ServerApproves, ServerRefuses, effectVars
    <3>2. CASE ServerAnswers \/ HydrateFails \/ Opens \/ SkipsEvent \/ Retry
      BY <3>2 DEF ServerAnswers, HydrateFails, Opens, SkipsEvent, Retry
    <3>3. CASE ClicksCancel \/ CancelFails \/ EditsPlan \/ ClicksApprove \/ ApproveFails \/ UNCHANGED vars
      BY <3>3 DEF ClicksCancel, CancelFails, EditsPlan, ClicksApprove, ApproveFails, vars, effectVars
    <3> QED
      BY <1>3, <3>1, <3>2, <3>3
  <2>3. Matches(view', log, k)
    BY <1>2, <2>1
  <2> QED
    BY <1>1, <2>1, <2>2, <2>3, FollowOthers
<1>4. CASE Hydrates
  <2>1. phase = "answered" /\ view' = Hydrated(view, detail) /\ seen' = seen /\ phase' # "answered"
    BY <1>4 DEF Hydrates, Shows, HydrateEnds, refVars
  <2>2. detail \in 0..Len(log)
    BY <1>0 DEF TypeOK
  <2>3. Matches(Hydrated(view, detail), log, k)
    BY <1>0, <1>2, <2>1, <2>2, MatchHydrated
  <2> QED
    BY <1>1, <2>1, <2>3, FollowOthers
<1>5. CASE BuffersChunk
  <2>1. /\ Delivers /\ ~AlreadySeen(pos + 1) /\ log[pos + 1].type = "report_delta"
        /\ seen' = seen \cup {pos + 1} /\ UNCHANGED serverVars /\ phase' = phase /\ view' = view
    BY <1>5 DEF BuffersChunk
  <2> QED
    BY <1>1, <1>2, <2>1, FollowEvent
<1>6. CASE AppliesEvent
  <2>1. /\ Delivers /\ ~AlreadySeen(pos + 1) /\ log[pos + 1].type # "report_delta"
        /\ seen' = seen \cup {pos + 1} /\ UNCHANGED serverVars /\ phase' = phase
        /\ view' = Reduce(Flushed, log[pos + 1]) \/ view' = Reduce(view, log[pos + 1])
    BY <1>6 DEF AppliesEvent, Shows
  <2>2. CASE view' = Reduce(Flushed, log[pos + 1])
    BY <1>1, <1>2, <2>1, <2>2, FollowEvent
  <2>3. CASE view' = Reduce(view, log[pos + 1])
    BY <1>1, <1>2, <2>1, <2>3, FollowEvent
  <2> QED
    BY <2>1, <2>2, <2>3
<1>7. CASE FlushTimer \/ StreamCloses \/ ConnectionLost
  <2>1. view' = Flushed /\ seen' = seen
        /\ (phase' = "answered" => phase = "answered" /\ detail' = detail)
    BY <1>7 DEF FlushTimer, StreamCloses, ConnectionLost, Shows, effectVars
  <2>2. Matches(Flushed, log, k)
    <3> DEFINE w == Flushed
    <3>1. /\ w.claims = view.claims /\ w.failed = view.failed /\ w.sections = view.sections
          /\ w.status \in {view.status, "cancelled"} /\ (w.awaiting => view.awaiting)
      BY <1>0, FlushedIs, FlushedFills
    <3> HIDE DEF w
    <3>2. Matches(w, log, k)
      BY <1>2, <3>1, MatchKept
    <3> QED
      BY <3>2 DEF w
  <2> QED
    BY <1>1, <2>1, <2>2, FollowOthers
<1>8. CASE CancelConfirmed \/ ApproveConfirmed
  <2>1. seen' = seen /\ (phase' = "answered" => phase = "answered" /\ detail' = detail)
    BY <1>8 DEF CancelConfirmed, ApproveConfirmed, refVars, effectVars
  <2>2. view' \in {[view EXCEPT !.status = "cancelled", !.awaiting = FALSE], [view EXCEPT !.awaiting = FALSE]}
    BY <1>8 DEF CancelConfirmed, ApproveConfirmed, Shows
  <2>3. Matches(view', log, k)
    <3> DEFINE w == view'
    <3>1. /\ w.claims = view.claims /\ w.failed = view.failed /\ w.sections = view.sections
          /\ w.status \in {view.status, "cancelled"} /\ (w.awaiting => view.awaiting)
      BY <1>0, <2>2, ConfirmedFills
    <3> HIDE DEF w
    <3>2. Matches(w, log, k)
      BY <1>2, <3>1, MatchKept
    <3> QED
      BY <3>2 DEF w
  <2> QED
    BY <1>1, <2>1, <2>3, FollowOthers
<1> QED
  BY <1>3, <1>4, <1>5, <1>6, <1>7, <1>8 DEF Next

\* Once everything was delivered, everything was taken in.
LEMMA CaughtUpIs ==
    ASSUME ClientInv, FollowInv, CaughtUp
    PROVE  seen = 1..Len(log) /\ Matches(view, log, Len(log)) /\ Len(log) \in Nat
<1> DEFINE l == Len(log)
<1>1. LogInv /\ TypeOK /\ TakenInOrder
  BY DEF ClientInv, PageInv
<1>2. PICK j \in 0..l : seen = 1..j /\ pos <= j
  BY <1>1 DEF TakenInOrder
<1>3. PICK k \in 0..l : seen = 1..k /\ Matches(view, log, k)
  BY DEF FollowInv, Follows
<1>4. pos = l /\ l \in Nat
  BY <1>1 DEF CaughtUp, LogInv, ServerTypeOK
<1>5. l = Len(log)
  OBVIOUS
<1> HIDE DEF l
<1>6. j = l /\ j \in Nat /\ k \in Nat
  BY <1>2, <1>3, <1>4
<1>7. k = l
  BY <1>2, <1>3, <1>6, SameCount
<1> QED
  BY <1>3, <1>4, <1>5, <1>7

\* A page that was opened late, hydrated, lost its connection and came back, and
\* has been sent everything, holds what a page open from the start would:
\* hydrate and reduceEvent of useResearchStream.ts agree.
THEOREM HydratingAgrees == Spec => []CaughtUpAgrees
<1>1. Init => FollowInv
  BY FollowInit
<1>2. ClientInv /\ FollowInv /\ [Next]_vars => FollowInv'
  BY FollowStep
<1>3. ASSUME ClientInv, FollowInv
      PROVE  CaughtUpAgrees
  <2> SUFFICES ASSUME CaughtUp
               PROVE  /\ view.status \in {Replayed.status, "cancelled"}
                      /\ view.awaiting => Replayed.awaiting
                      /\ view.report \o buffer = Replayed.report
                      /\ (view.final => Replayed.final) /\ view.failed = Replayed.failed
                      /\ view.claims = Replayed.claims
                      /\ \A s \in Drafted : view.sections[s] # Absent =>
                             view.sections[s].sources = Replayed.sections[s].sources
    BY DEF CaughtUpAgrees
  <2> DEFINE l == Len(log)
             w == Replays(log)[l]
  <2>0. LogInv /\ TypeOK /\ PageInv /\ phase = "reading"
    BY <1>3 DEF ClientInv, CaughtUp
  <2>1. seen = 1..l /\ Matches(view, log, l) /\ l \in Nat
    BY <1>3, CaughtUpIs
  <2>2. Tells(l)
    <3>1. \A n \in 0..Len(log) : Tells(n)
      BY <2>0, ReplayTells
    <3>2. l \in 0..l
      BY <2>1
    <3> QED
      BY <3>1, <3>2
  <2>3. Replayed = w
    BY ReplayedIs
  <2>4. /\ w.report = IF HasType(l, "report") THEN Markdown ELSE FirstChunks(ChunksIn(log, l))
        /\ HasType(l, "report") => w.final
        /\ \A s \in Sections : w.sections[s].sources = SourcesAt(l, s)
    BY <2>2 DEF Tells
  <2>5. (SeenReport <=> HasType(l, "report")) /\ (ReportStored <=> HasType(l, "report"))
        /\ SeenChunks = ChunksIn(log, l)
    BY <2>1 DEF SeenReport, HasType, ReportStored, SeenChunks, ChunksIn
  <2>6. view.report \o buffer = w.report
    <3>1. Markdown \o << >> = Markdown
      BY DEF Markdown
    <3>2. CASE HasType(l, "report")
      BY <2>0, <2>4, <2>5, <3>1, <3>2 DEF PageInv, ReportReplaces
    <3>3. CASE ~HasType(l, "report")
      BY <2>0, <2>4, <2>5, <3>3 DEF PageInv, ChunksShown
    <3> QED
      BY <3>2, <3>3
  <2>7. view.final => w.final
    BY <2>0, <2>4, <2>5 DEF PageInv, FinalIsWhole
  <2>8. \A d \in l..l : d = l
    BY <2>1
  <2>9. /\ view.claims = w.claims /\ view.failed = w.failed
        /\ view.status = "cancelled" \/ view.status = w.status
        /\ view.awaiting => w.awaiting
    BY <2>1, <2>8 DEF Matches
  <2>10. ASSUME NEW s \in Drafted
         PROVE  view.sections[s].sources = w.sections[s].sources
    <3>1. w.sections[s].sources = SourcesAt(l, s)
      BY <2>4, ClientAssumption
    <3>2. SourcesAt(l, s) = IF SourceIn(log, l, s) THEN <<s>> ELSE << >>
      BY DEF SourcesAt, Has, SourceIn
    <3>3. /\ view.sections[s].sources \in {<< >>, <<s>>}
          /\ SourceIn(log, l, s) <=> view.sections[s].sources = <<s>>
      BY <2>1 DEF Matches
    <3> QED
      BY <3>1, <3>2, <3>3
  <2> HIDE DEF w
  <2> QED
    BY <2>3, <2>6, <2>7, <2>9, <2>10
<1> QED
  BY <1>1, <1>2, <1>3, ClientInvariance, PTL DEF Spec

=============================================================================
