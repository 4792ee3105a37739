------------------------ MODULE GuardedCommandProofs ------------------------
(***************************************************************************)
(* The steps that keep the invariant of Commands: the kinds of steps every  *)
(* guarded command is made of, which of them each step of the commands on   *)
(* data views, dashboards, rules and agent policies is, and what pages hold.*)
(***************************************************************************)
EXTENDS CommandsInv, FiniteSetTheorems, FunctionTheorems, SequenceTheorems, TLAPS

-----------------------------------------------------------------------------
(* The kinds of steps a command takes, whatever it is about.                  *)

\* Planning goes on, fails, or ends in the one request that needs no loop.
PlansOn ==
    /\ Planning /\ (Planning' \/ Ended' \/ (Wholesale' /\ cmd.yes))
    /\ todo' \in Seq(Ids) /\ UNCHANGED <<rows, writes>>

\* The guard: the preview ends the run, or the loop begins.
Guarded ==
    /\ Planning /\ UNCHANGED writes /\ todo' \in Seq(Ids)
    /\ \/ pc' = "done"
       \/ pc' = "check" /\ cmd.yes /\ todo' # <<>> /\ Range(todo') \subseteq Touchable
    /\ pc' = "check" /\ cmd.op \notin {"delete_rules", "set_enabled"} =>
         IsInjective(todo') /\ \A r \in rows' : r.id \notin Range(todo')
    /\ \A r \in rows' : r.id \in Ids /\ r.result = "skipped" /\ r.applied = FALSE
    /\ cmd.op \in BulkOps \cup {"delete_rules"} => rows' = {}
    /\ Bulk' => pc' = "check"

\* The object at the head is handled on.
HandlesOn ==
    /\ Looping /\ Looping' /\ ~Bulk' /\ cmd.op # "set_enabled" /\ UNCHANGED <<todo, rows>>
    /\ writes \subseteq writes' /\ \A w \in writes' : w \in writes \/ w.id = Head(todo)
    /\ AfterWrite' => \E w \in writes' : w.id = Head(todo)
    /\ ~AfterWrite' => ~AfterWrite /\ \A w \in writes' : w \in writes \/ ~w.answered

\* A request took effect and is sent again.
SendsAgain ==
    /\ ~Planning /\ ~Ended /\ UNCHANGED runVars /\ (AfterWrite' <=> AfterWrite)
    /\ writes \subseteq writes'
    /\ \A w \in writes' : w \in writes \/ (w.id \in Touchable /\ ~w.answered)

\* The head gets its rows.
Reported ==
    /\ Looping /\ cmd.op \notin BulkOps
    /\ todo' = Tail(todo) /\ pc' = IF Len(todo) = 1 THEN "done" ELSE "check"
    /\ rows \subseteq rows' /\ writes \subseteq writes'
    /\ \A w \in writes' : w \in writes \/ w.id = Head(todo) \/ (w.id = 0 /\ 0 \in Touchable)
    /\ \E r \in rows' : r.id = Head(todo)
    /\ \A r \in rows' :
         \/ r \in rows
         \/ /\ r.id = Head(todo) /\ r.result \in Results /\ r.applied \in BOOLEAN
            /\ r.applied => \E w \in writes' : w.id = Head(todo)
            /\ SaysUntouched(r) =>
                 ~AfterWrite /\ cmd.op # "delete_rules"
                 /\ \A w \in writes' : w \in writes \/ ~w.answered

\* The command fails as a whole.
GivesUp ==
    /\ ~Planning /\ ~Ended /\ pc' = "failed" /\ UNCHANGED <<todo, rows>>
    /\ writes \subseteq writes'
    /\ \A w \in writes' : w \in writes \/ (w.id \in Touchable /\ ~w.answered)

\* One request has handled everything.
Finishes ==
    /\ ~Planning /\ ~Ended /\ ~AfterWrite /\ pc' = "done" /\ UNCHANGED todo
    /\ cmd.op # "delete_rules"
    /\ rows \subseteq rows' /\ writes \subseteq writes'
    /\ \A w \in writes' :
         \/ w \in writes
         \/ /\ w.id \in Touchable
            /\ w.answered /\ w.id # 0 => \E r \in rows' : r.id = w.id
    /\ \A r \in rows' :
         /\ SaysUntouched(r) =>
              \A w \in writes' : w \in writes \/ w.id # r.id \/ ~w.answered
         /\ r \notin rows =>
              /\ r.id \in Ids /\ r.result \in Results /\ r.applied \in BOOLEAN
              /\ r.applied => \E w \in writes' : w.id = r.id
              /\ SaysUntouched(r) => rows = {}

\* The one request follows its check.
ChecksWhole ==
    /\ Wholesale /\ Wholesale' /\ ~Bulk' /\ ~Bulk /\ UNCHANGED <<todo, rows, writes>>

\* Another client is at work.
Watches == ~Ended /\ UNCHANGED <<pc, todo, rows, writes, plan>>

LoopStep ==
    /\ UNCHANGED cmd
    /\ PlansOn \/ Guarded \/ HandlesOn \/ SendsAgain \/ Reported \/ GivesUp \/ Finishes
         \/ ChecksWhole \/ Watches

Base == CmdOK /\ LoopInv /\ UNCHANGED cmd

\* While a command plans, it has neither written nor reported anything.
LEMMA PlansOnKeeps == Base /\ PlansOn => LoopInv'
<1> SUFFICES ASSUME Base, PlansOn PROVE LoopInv'
    OBVIOUS
<1>1. writes' = {} /\ rows' = {} /\ cmd' = cmd /\ ~Looping'
  BY DEF PlansOn, Base, LoopInv, QuietPlanning, Looping
<1>2. RowsOK' /\ WithinTargets' /\ ClaimsHaveWrites' /\ AnswersReported'
        /\ UntouchedIsUntouched'
  BY <1>1 DEF RowsOK, WithinTargets, ClaimsHaveWrites, AnswersReported, UntouchedIsUntouched
<1>3. QuietPlanning' /\ BulkIsFirst'
  BY <1>1 DEF QuietPlanning, BulkIsFirst
<1>4. OnlyConfirmed'
  BY <1>1 DEF OnlyConfirmed, PlansOn
<1>5. TodoOK'
  BY <1>1 DEF TodoOK, PlansOn
<1>6. HeadWritten'
  BY <1>1 DEF HeadWritten, AfterWrite, PlansOn, Planning, Ended, Wholesale
<1> QED BY <1>2, <1>3, <1>4, <1>5, <1>6 DEF LoopInv

\* The guard starts the loop over objects it was asked for, none of them reported.
LEMMA GuardedKeeps == Base /\ Guarded => LoopInv'
<1> SUFFICES ASSUME Base, Guarded PROVE LoopInv'
    OBVIOUS
<1>1. writes' = {} /\ rows = {} /\ cmd' = cmd /\ ~AfterWrite' /\ ~Planning'
  BY DEF Guarded, Base, LoopInv, QuietPlanning, AfterWrite, Planning
<1>2. WithinTargets' /\ AnswersReported' /\ UntouchedIsUntouched' /\ QuietPlanning'
        /\ HeadWritten'
  BY <1>1 DEF WithinTargets, AnswersReported, UntouchedIsUntouched, QuietPlanning, HeadWritten
<1>3. RowsOK' /\ ClaimsHaveWrites'
  BY DEF Guarded, RowsOK, ClaimsHaveWrites, Results
<1>4. BulkIsFirst'
  BY <1>1 DEF Guarded, BulkIsFirst, Bulk
<1>5. OnlyConfirmed'
  BY <1>1 DEF OnlyConfirmed, Guarded, Ended
<1>6. TodoOK'
  <2>1. Looping' => pc' = "check"
    BY DEF Guarded, Looping, Ended
  <2>2. cmd'.op = "delete_rules" => rows' = {}
    BY <1>1 DEF Guarded
  <2> QED BY <1>1, <2>1, <2>2 DEF TodoOK, Guarded, Touchable
<1> QED BY <1>2, <1>3, <1>4, <1>5, <1>6 DEF LoopInv

\* Handling the head on adds no row, and no write but of the head.
LEMMA HandlesOnKeeps == Base /\ HandlesOn => LoopInv'
<1> SUFFICES ASSUME Base, HandlesOn PROVE LoopInv'
    OBVIOUS
<1>1. /\ cmd' = cmd /\ todo' = todo /\ rows' = rows /\ ~Planning' /\ ~Ended' /\ ~Planning
           /\ ~Ended
      /\ cmd.yes /\ todo # <<>>
  BY DEF HandlesOn, Base, LoopInv, OnlyConfirmed, TodoOK, Looping
<1>2. Head(todo) \in Touchable
  BY <1>1 DEF HandlesOn, Base, LoopInv, TodoOK, Range
<1>3. RowsOK' /\ UntouchedIsUntouched'
  <2>1. \A w \in writes' : w \in writes \/ ~w.answered \/ w.id = Head(todo)
    BY DEF HandlesOn
  <2>2. \A r \in rows : SaysUntouched(r) => r.id # Head(todo)
    BY <1>1 DEF HandlesOn, Base, LoopInv, TodoOK, Range
  <2> QED BY <1>1, <2>1, <2>2 DEF Base, LoopInv, RowsOK, UntouchedIsUntouched, SaysUntouched
<1>4. QuietPlanning' /\ BulkIsFirst' /\ HeadWritten' /\ OnlyConfirmed'
  BY <1>1 DEF HandlesOn, QuietPlanning, BulkIsFirst, HeadWritten, OnlyConfirmed
<1>5. WithinTargets' /\ ClaimsHaveWrites'
  BY <1>1, <1>2 DEF HandlesOn, Base, LoopInv, WithinTargets, ClaimsHaveWrites, Touchable
<1>6. TodoOK'
  BY <1>1 DEF HandlesOn, Base, LoopInv, TodoOK, Touchable, SaysUntouched
<1>7. AnswersReported'
  <2>1. pc # "failed"
    BY <1>1 DEF Ended
  <2>2. CASE AfterWrite'
    BY <1>1, <2>1, <2>2 DEF HandlesOn, Base, LoopInv, AnswersReported
  <2>3. CASE ~AfterWrite'
    BY <1>1, <2>1, <2>3 DEF HandlesOn, Base, LoopInv, AnswersReported
  <2> QED BY <2>2, <2>3
<1> QED BY <1>3, <1>4, <1>5, <1>6, <1>7 DEF LoopInv

\* A request that is sent again has taken effect without an answer.
LEMMA SendsAgainKeeps == Base /\ SendsAgain => LoopInv'
<1> SUFFICES ASSUME Base, SendsAgain PROVE LoopInv'
    OBVIOUS
<1>1. /\ cmd' = cmd /\ pc' = pc /\ todo' = todo /\ rows' = rows /\ ~Planning /\ ~Ended
           /\ cmd.yes
  BY DEF SendsAgain, Base, LoopInv, OnlyConfirmed, runVars
<1>2. RowsOK' /\ UntouchedIsUntouched'
  BY <1>1 DEF SendsAgain, Base, LoopInv, RowsOK, UntouchedIsUntouched, SaysUntouched
<1>3. QuietPlanning' /\ BulkIsFirst' /\ OnlyConfirmed'
  BY <1>1 DEF Base, LoopInv, QuietPlanning, BulkIsFirst, OnlyConfirmed, Planning, Bulk
<1>4. WithinTargets' /\ ClaimsHaveWrites' /\ HeadWritten'
  BY <1>1 DEF SendsAgain, Base, LoopInv, WithinTargets, ClaimsHaveWrites, HeadWritten,
     Touchable
<1>5. TodoOK'
  BY <1>1 DEF Base, LoopInv, TodoOK, Touchable, SaysUntouched, Looping, Ended, Planning,
     Wholesale
<1>6. AnswersReported'
  BY <1>1 DEF SendsAgain, Base, LoopInv, AnswersReported
<1> QED BY <1>2, <1>3, <1>4, <1>5, <1>6 DEF LoopInv

\* A list without its head: what is left, and that the head does not come again.
LEMMA TailFacts ==
    ASSUME NEW S, NEW s \in Seq(S), s # <<>>
    PROVE  /\ Head(s) \in Range(s) /\ Head(s) \in S /\ Tail(s) \in Seq(S)
           /\ Range(Tail(s)) \subseteq Range(s)
           /\ Len(s) # 1 => Tail(s) # <<>>
           /\ IsInjective(s) => IsInjective(Tail(s)) /\ Head(s) \notin Range(Tail(s))
           /\ Range(s) = {Head(s)} \cup Range(Tail(s))
<1>1. Len(s) \in Nat /\ Len(s) > 0 /\ DOMAIN s = 1..Len(s) /\ Head(s) = s[1]
  OBVIOUS
<1>2. Tail(s) \in Seq(S) /\ Len(Tail(s)) = Len(s) - 1
      /\ \A i \in 1..(Len(s) - 1) : Tail(s)[i] = s[i + 1]
  OBVIOUS
<1>3. DOMAIN Tail(s) = 1..(Len(s) - 1)
  BY <1>2
<1>4. Range(s) = {s[i] : i \in 1..Len(s)}
        /\ Range(Tail(s)) = {s[i + 1] : i \in 1..(Len(s) - 1)}
  BY <1>1, <1>2, <1>3 DEF Range
<1>5. Range(s) = {Head(s)} \cup Range(Tail(s))
  <2>1. ASSUME NEW x \in Range(s) PROVE x = Head(s) \/ x \in Range(Tail(s))
    <3>1. PICK i \in 1..Len(s) : x = s[i]
      BY <1>4
    <3>2. CASE i = 1
      BY <1>1, <3>1, <3>2
    <3>3. CASE i # 1
      <4>1. i - 1 \in 1..(Len(s) - 1) /\ (i - 1) + 1 = i
        BY <1>1, <3>3
      <4> QED BY <1>4, <3>1, <4>1
    <3> QED BY <3>2, <3>3
  <2>2. Range(Tail(s)) \subseteq Range(s)
    <3>1. \A i \in 1..(Len(s) - 1) : i + 1 \in 1..Len(s)
      BY <1>1
    <3> QED BY <1>4, <3>1
  <2>3. Head(s) \in Range(s)
    BY <1>1, <1>4
  <2> QED BY <2>1, <2>2, <2>3
<1>6. ASSUME IsInjective(s) PROVE IsInjective(Tail(s)) /\ Head(s) \notin Range(Tail(s))
  BY <1>1, <1>2, <1>3, <1>4, <1>6 DEF IsInjective
<1>7. Head(s) \in S
  BY <1>1
<1>8. Len(s) # 1 => Tail(s) # <<>>
  <2>1. Len(s) # 1 => Len(Tail(s)) # 0
    BY <1>1, <1>2
  <2>2. Len(<<>>) = 0
    OBVIOUS
  <2> QED BY <2>1, <2>2
<1> QED BY <1>2, <1>5, <1>6, <1>7, <1>8

\* The head's row is true of its writes, and the head does not come again.
LEMMA ReportedKeeps == Base /\ CommandAssumption /\ Reported => LoopInv'
<1> SUFFICES ASSUME Base, CommandAssumption, Reported PROVE LoopInv'
    OBVIOUS
<1> DEFINE h == Head(todo)
<1>1. /\ cmd' = cmd /\ ~Planning /\ ~Ended /\ cmd.yes /\ todo # <<>> /\ todo \in Seq(Ids)
      /\ pc' \in {"done", "check"} /\ Range(todo) \subseteq Touchable
  BY DEF Reported, Base, LoopInv, OnlyConfirmed, TodoOK, Looping
<1>2. /\ h \in Range(todo) /\ h \in Ids /\ todo' \in Seq(Ids)
           /\ Range(todo') \subseteq Range(todo)
      /\ Len(todo) # 1 => todo' # <<>>
      /\ IsInjective(todo) => IsInjective(todo') /\ h \notin Range(todo')
  <2>1. todo' = Tail(todo)
    BY DEF Reported
  <2> QED BY <1>1, <2>1, TailFacts
<1>3. ~AfterWrite' /\ ~Planning' /\ ~Bulk' /\ (Looping' => Len(todo) # 1)
  BY <1>1 DEF Reported, AfterWrite, Planning, Bulk, Looping, Ended
<1>4. h # 0 /\ h \in Touchable
  BY <1>1, <1>2 DEF CommandAssumption
<1> HIDE DEF h
<1>5. /\ \A w \in writes' : w \in writes \/ w.id = h \/ (w.id = 0 /\ 0 \in Touchable)
      /\ \A r \in rows' :
         \/ r \in rows
         \/ /\ r.id = h /\ r.result \in Results /\ r.applied \in BOOLEAN
            /\ r.applied => \E w \in writes' : w.id = h
            /\ SaysUntouched(r) =>
                 ~AfterWrite /\ cmd.op # "delete_rules"
                 /\ \A w \in writes' : w \in writes \/ ~w.answered
      /\ rows \subseteq rows' /\ writes \subseteq writes' /\ \E r \in rows' : r.id = h
  BY DEF Reported, h
<1>6. RowsOK'
  BY <1>2, <1>5 DEF Base, LoopInv, RowsOK
<1>7. QuietPlanning' /\ BulkIsFirst' /\ HeadWritten' /\ OnlyConfirmed'
  BY <1>1, <1>3 DEF QuietPlanning, BulkIsFirst, HeadWritten, OnlyConfirmed
<1>8. WithinTargets' /\ ClaimsHaveWrites'
  BY <1>1, <1>4, <1>5 DEF Base, LoopInv, WithinTargets, ClaimsHaveWrites, Touchable
<1>9. TodoOK'
  <2>1. Looping' => todo' # <<>> /\ Range(todo') \subseteq Touchable'
    BY <1>1, <1>2, <1>3 DEF Touchable
  <2>2. Looping' /\ cmd.op \notin {"delete_rules", "set_enabled"} =>
           IsInjective(todo') /\ \A r \in rows' : r.id \notin Range(todo')
    <3> SUFFICES ASSUME cmd.op \notin {"delete_rules", "set_enabled"}
                 PROVE IsInjective(todo') /\ \A r \in rows' : r.id \notin Range(todo')
      OBVIOUS
    <3>1. IsInjective(todo) /\ \A r \in rows : r.id \notin Range(todo)
      BY DEF Base, LoopInv, TodoOK, Reported
    <3> QED BY <1>2, <1>5, <3>1
  <2>3. cmd.op = "delete_rules" => \A r \in rows' : ~SaysUntouched(r)
    BY <1>5 DEF Base, LoopInv, TodoOK
  <2> QED BY <1>1, <1>2, <2>1, <2>2, <2>3 DEF TodoOK, SaysUntouched
<1>10. AnswersReported'
  <2>1. pc # "failed"
    BY <1>1 DEF Ended
  <2>2. \A w \in writes : w.answered /\ w.id # 0 => (\E r \in rows : r.id = w.id) \/ w.id = h
    BY <2>1 DEF Base, LoopInv, AnswersReported, h
  <2> QED BY <1>5, <2>2 DEF AnswersReported
<1>11. UntouchedIsUntouched'
  <2>1. \A r \in rows : SaysUntouched(r) => r.id # h /\ r.id # 0
    <3>1. CASE cmd.op = "delete_rules"
      BY <3>1 DEF Base, LoopInv, TodoOK
    <3>2. CASE cmd.op # "delete_rules"
      <4>1. cmd.op \notin {"delete_rules", "set_enabled"}
        BY <3>2 DEF Reported, BulkOps
      <4>2. \A r \in rows : r.id \notin Range(todo) /\ r.id \in Ids
        BY <4>1 DEF Base, LoopInv, TodoOK, Reported, RowsOK
      <4> QED BY <1>2, <4>2 DEF CommandAssumption
    <3> QED BY <3>1, <3>2
  <2>2. \A r \in rows : SaysUntouched(r) => \A w \in writes' : w.id = r.id => ~w.answered
    BY <1>5, <2>1 DEF Base, LoopInv, UntouchedIsUntouched
  <2>3. ASSUME NEW r \in rows', r \notin rows, SaysUntouched(r), NEW w \in writes', w.id
                 = r.id
        PROVE ~w.answered
    <3>1. r.id = h /\ ~AfterWrite /\ cmd.op # "delete_rules"
          /\ (w \in writes \/ ~w.answered)
      BY <1>5, <2>3
    <3>2. w \in writes /\ w.answered => \E q \in rows : q.id = h
      BY <1>1, <1>4, <2>3, <3>1 DEF Base, LoopInv, AnswersReported, Ended
    <3>3. cmd.op \notin {"delete_rules", "set_enabled"}
      BY <3>1 DEF Reported, BulkOps
    <3>4. \A q \in rows : q.id # h
      BY <1>2, <3>3 DEF Base, LoopInv, TodoOK, Reported
    <3> QED BY <3>1, <3>2, <3>4
  <2> QED BY <1>1, <2>2, <2>3 DEF UntouchedIsUntouched, SaysUntouched
<1> QED BY <1>6, <1>7, <1>8, <1>9, <1>10, <1>11 DEF LoopInv

\* A command that gives up leaves only writes without an answer behind.
LEMMA GivesUpKeeps == Base /\ GivesUp => LoopInv'
<1> SUFFICES ASSUME Base, GivesUp PROVE LoopInv'
    OBVIOUS
<1>1. /\ cmd' = cmd /\ todo' = todo /\ rows' = rows /\ ~Planning /\ ~Ended /\ cmd.yes
      /\ ~Planning' /\ ~AfterWrite' /\ ~Bulk' /\ ~Looping'
  BY DEF GivesUp, Base, LoopInv, OnlyConfirmed, Planning, AfterWrite, Bulk, Looping, Ended
<1>2. RowsOK' /\ UntouchedIsUntouched'
  BY <1>1 DEF GivesUp, Base, LoopInv, RowsOK, UntouchedIsUntouched, SaysUntouched
<1>3. QuietPlanning' /\ BulkIsFirst' /\ OnlyConfirmed' /\ HeadWritten' /\ AnswersReported'
  BY <1>1 DEF QuietPlanning, BulkIsFirst, OnlyConfirmed, HeadWritten, AnswersReported, GivesUp
<1>4. WithinTargets' /\ ClaimsHaveWrites'
  BY <1>1 DEF GivesUp, Base, LoopInv, WithinTargets, ClaimsHaveWrites, Touchable
<1>5. TodoOK'
  BY <1>1 DEF Base, LoopInv, TodoOK, SaysUntouched
<1> QED BY <1>2, <1>3, <1>4, <1>5 DEF LoopInv

\* The rows of one answer are true of the writes of its request.
LEMMA FinishesKeeps == Base /\ CommandAssumption /\ Finishes => LoopInv'
<1> SUFFICES ASSUME Base, CommandAssumption, Finishes PROVE LoopInv'
    OBVIOUS
<1>1. /\ cmd' = cmd /\ todo' = todo /\ ~Planning /\ ~Ended /\ cmd.yes
      /\ ~Planning' /\ ~AfterWrite' /\ ~Bulk' /\ ~Looping'
  BY DEF Finishes, Base, LoopInv, OnlyConfirmed, Planning, AfterWrite, Bulk, Looping, Ended
<1>2. QuietPlanning' /\ BulkIsFirst' /\ OnlyConfirmed' /\ HeadWritten'
  BY <1>1 DEF QuietPlanning, BulkIsFirst, OnlyConfirmed, HeadWritten
<1>3. RowsOK' /\ WithinTargets' /\ ClaimsHaveWrites'
  BY <1>1 DEF Finishes, Base, LoopInv, RowsOK, WithinTargets, ClaimsHaveWrites, Touchable
<1>4. TodoOK'
  BY <1>1 DEF Finishes, Base, LoopInv, TodoOK
<1>5. \A w \in writes : w.answered /\ w.id # 0 => \E r \in rows : r.id = w.id
  BY <1>1 DEF Finishes, Base, LoopInv, AnswersReported, Ended
<1>6. AnswersReported'
  BY <1>5 DEF Finishes, AnswersReported
<1>7. UntouchedIsUntouched'
  <2>1. SUFFICES ASSUME NEW r \in rows', SaysUntouched(r), NEW w \in writes', w.id = r.id
               PROVE  ~w.answered
    BY <1>1 DEF UntouchedIsUntouched, SaysUntouched
  <2>2. w \in writes \/ ~w.answered
    BY <2>1 DEF Finishes
  <2>3. CASE r \in rows
    BY <2>1, <2>2, <2>3 DEF Base, LoopInv, UntouchedIsUntouched
  <2>4. CASE r \notin rows
    <3>1. rows = {} /\ r.id \in Ids
      BY <2>1, <2>4 DEF Finishes
    <3> QED BY <2>1, <2>2, <3>1, <1>5 DEF CommandAssumption
  <2> QED BY <2>3, <2>4
<1> QED BY <1>2, <1>3, <1>4, <1>6, <1>7 DEF LoopInv

\* The check before the one request changes nothing.
LEMMA ChecksWholeKeeps == Base /\ ChecksWhole => LoopInv'
<1> SUFFICES ASSUME Base, ChecksWhole PROVE LoopInv'
    OBVIOUS
<1>1. /\ cmd' = cmd /\ todo' = todo /\ rows' = rows /\ writes' = writes /\ cmd.yes
      /\ ~Planning /\ ~Planning' /\ ~AfterWrite /\ ~AfterWrite' /\ ~Bulk' /\ ~Looping'
           /\ pc # "failed"
  BY DEF ChecksWhole, Base, LoopInv, OnlyConfirmed, Planning, AfterWrite, Looping,
     Wholesale, Ended
<1>2. QuietPlanning' /\ BulkIsFirst' /\ OnlyConfirmed' /\ HeadWritten'
  BY <1>1 DEF QuietPlanning, BulkIsFirst, OnlyConfirmed, HeadWritten
<1>3. RowsOK' /\ WithinTargets' /\ ClaimsHaveWrites' /\ TodoOK'
  BY <1>1 DEF Base, LoopInv, RowsOK, WithinTargets, ClaimsHaveWrites, Touchable, TodoOK,
     SaysUntouched
<1>4. AnswersReported' /\ UntouchedIsUntouched'
  BY <1>1 DEF Base, LoopInv, AnswersReported, UntouchedIsUntouched, SaysUntouched
<1> QED BY <1>2, <1>3, <1>4 DEF LoopInv

\* Another client changes nothing the loop keeps.
LEMMA WatchesKeeps == Base /\ Watches => LoopInv'
<1> SUFFICES ASSUME Base, Watches PROVE LoopInv'
    OBVIOUS
<1>1. cmd' = cmd /\ pc' = pc /\ todo' = todo /\ rows' = rows /\ writes' = writes
        /\ plan' = plan
  BY DEF Watches, Base
<1>2. /\ Planning' = Planning /\ Ended' = Ended /\ Wholesale' = Wholesale /\ Bulk' = Bulk
      /\ AfterWrite' = AfterWrite /\ Looping' = Looping /\ Touchable' = Touchable
  BY <1>1 DEF Planning, Ended, Wholesale, Bulk, AfterWrite, Looping, Touchable
<1>3. QuietPlanning' /\ BulkIsFirst' /\ OnlyConfirmed' /\ HeadWritten'
  BY <1>1, <1>2 DEF Base, LoopInv, QuietPlanning, BulkIsFirst, OnlyConfirmed, HeadWritten
<1>4. RowsOK' /\ WithinTargets' /\ ClaimsHaveWrites' /\ TodoOK'
  BY <1>1, <1>2 DEF Base, LoopInv, RowsOK, WithinTargets, ClaimsHaveWrites, TodoOK,
     SaysUntouched
<1>5. AnswersReported' /\ UntouchedIsUntouched'
  BY <1>1, <1>2 DEF Base, LoopInv, AnswersReported, UntouchedIsUntouched, SaysUntouched
<1> QED BY <1>3, <1>4, <1>5 DEF LoopInv

\* A step of any kind keeps the invariant of the loop.
LEMMA LoopStepKeeps == CmdOK /\ LoopInv /\ LoopStep => LoopInv'
  BY PlansOnKeeps, GuardedKeeps, HandlesOnKeeps, SendsAgainKeeps, ReportedKeeps,
     GivesUpKeeps, FinishesKeeps, ChecksWholeKeeps, WatchesKeeps, CommandAssumption DEF Base,
     LoopStep

\* One row for the head.
LEMMA RowReported ==
    ASSUME NEW res \in Results, NEW app \in BOOLEAN, Looping, cmd.op \notin BulkOps,
           Report(Head(todo), res, app), writes \subseteq writes',
           \A w \in writes' : w \in writes \/ w.id = Head(todo)
             \/ (w.id = 0 /\ 0 \in Touchable),
           app => \E w \in writes' : w.id = Head(todo),
           SaysUntouched(Row(Head(todo), res, app)) =>
               ~AfterWrite /\ cmd.op # "delete_rules"
               /\ \A w \in writes' : w \in writes \/ ~w.answered
    PROVE  Reported
<1> DEFINE row == Row(Head(todo), res, app)
<1>1. rows' = rows \cup {row} /\ todo' = Tail(todo) /\ pc' = IF Len(todo) = 1 THEN "done"
        ELSE "check"
  BY DEF Report
<1>2. row.id = Head(todo) /\ row.result = res /\ row.applied = app
  BY DEF Row
<1>3. SaysUntouched(row) =>
         ~AfterWrite /\ cmd.op # "delete_rules"
         /\ \A w \in writes' : w \in writes \/ ~w.answered
  OBVIOUS
<1> HIDE DEF row
<1>4. row \in rows'
  BY <1>1
<1> QED BY <1>1, <1>2, <1>3, <1>4 DEF Reported

\* A row of an object whose request was refused.
LEMMA RowWithoutWrite ==
    ASSUME NEW res \in Results, Looping, cmd.op \notin BulkOps, cmd.op # "delete_rules",
           Report(Head(todo), res, FALSE), writes' = writes, ~AfterWrite
    PROVE  Reported
  BY RowReported

\* A row of an answered request about the head.
LEMMA RowOfWrite ==
    ASSUME NEW res \in Results, Looping, cmd.op \notin BulkOps, NEW w,
           Report(Head(todo), res, TRUE), writes' = writes \cup {w}, w.id = Head(todo)
    PROVE  Reported
  BY RowReported DEF SaysUntouched, Row

\* A row of a request about the head whose answer was lost.
LEMMA RowOfLostWrite ==
    ASSUME NEW res \in Results, Looping, cmd.op \notin BulkOps, cmd.op # "delete_rules",
             NEW w,
           Report(Head(todo), res, FALSE), writes' = writes \cup {w}, w.id = Head(todo),
           ~w.answered, ~AfterWrite
    PROVE  Reported
  BY RowReported

\* A row of a head an earlier request of the loop changed.
LEMMA RowAfterWrite ==
    ASSUME NEW res \in Results, Looping, cmd.op \notin BulkOps,
           Report(Head(todo), res, TRUE), writes' = writes, HeadWritten, AfterWrite
    PROVE  Reported
  BY RowReported DEF SaysUntouched, Row, HeadWritten

\* A row behind the request for the default, which is about no id.
LEMMA RowOfZero ==
    ASSUME NEW res \in Results, Looping, cmd.op \notin BulkOps, NEW w,
           Report(Head(todo), res, TRUE), writes' = writes \cup {w}, w.id = 0, 0
             \in Touchable,
           HeadWritten, AfterWrite
    PROVE  Reported
  BY RowReported DEF SaysUntouched, Row, HeadWritten

\* What a write is.
LEMMA WriteFacts ==
    ASSUME NEW o, NEW shown, NEW found, NEW facts
    PROVE  /\ Write(o, shown, found, facts).id = o
           /\ Write(o, shown, found, facts).answered = TRUE
           /\ found = shown \/ moved \cap facts # {}
                => Write(o, shown, found, facts).asShown = TRUE
           /\ Unanswered(Write(o, shown, found, facts)).id = o
           /\ Unanswered(Write(o, shown, found, facts)).answered = FALSE
  BY DEF Write, Unanswered

\* One more write keeps to what was shown.
LEMMA ShownWrite ==
    ASSUME WritesWhatWasShown, NEW w, writes' = writes \cup {w},
           w.asShown = TRUE \/ w.answered = FALSE \/ Unanswers(w.id)
    PROVE  WritesWhatWasShown'
  BY DEF WritesWhatWasShown, Unanswers

-----------------------------------------------------------------------------
(* The order of ids.                                                          *)

\* A finite set of numbers has its elements in order: each is put at its rank,
\* the number of elements up to it.
LEMMA SortedInOrder ==
    ASSUME NEW S \in SUBSET Nat, IsFiniteSet(S)
    PROVE  /\ Sorted(S) \in Seq(S) /\ Len(Sorted(S)) = Cardinality(S)
           /\ Range(Sorted(S)) = S /\ IsInjective(Sorted(S)) /\ InOrder(Sorted(S))
           /\ Cardinality(S) \in Nat /\ (Sorted(S) = <<>> <=> S = {})
<1> DEFINE n == Cardinality(S)
           below(x) == {y \in S : y <= x}
           rank == [x \in S |-> Cardinality(below(x))]
           Ordered(s) == \A i, j \in DOMAIN s : i < j => s[i] < s[j]
<1>1. S \in SUBSET Nat /\ IsFiniteSet(S) /\ n \in Nat
  BY FS_CardinalityType
<1>2. \A x \in S : below(x) \in SUBSET S /\ IsFiniteSet(below(x))
        /\ Cardinality(below(x)) \in Nat
                     /\ Cardinality(below(x)) <= n /\ Cardinality(below(x)) > 0
  <2> SUFFICES ASSUME NEW x \in S
               PROVE  below(x) \in SUBSET S /\ IsFiniteSet(below(x))
                        /\ Cardinality(below(x)) \in Nat
                         /\ Cardinality(below(x)) <= n /\ Cardinality(below(x)) > 0
    OBVIOUS
  <2>1. below(x) \in SUBSET S
    OBVIOUS
  <2>2. IsFiniteSet(below(x)) /\ Cardinality(below(x)) <= n
    BY <1>1, <2>1, FS_Subset
  <2>3. Cardinality(below(x)) \in Nat
    BY <2>2, FS_CardinalityType
  <2>4. x \in below(x)
    BY <1>1
  <2>5. Cardinality(below(x)) # 0
    BY <2>2, <2>4, FS_EmptySet
  <2> QED BY <2>1, <2>2, <2>3, <2>5
<1>3. ASSUME NEW x \in S, NEW y \in S, x < y
               PROVE Cardinality(below(x)) < Cardinality(below(y))
  <2>1. S \subseteq Nat /\ x \in Nat /\ y \in Nat /\ x < y
    BY <1>1, <1>3
  <2>2. below(x) \in SUBSET below(y) /\ y \in below(y) /\ y \notin below(x)
    <3>1. \A z \in S : z <= x => z <= y
      BY <2>1
    <3>2. y <= y /\ ~(y <= x)
      BY <2>1
    <3> QED BY <3>1, <3>2
  <2>3. Cardinality(below(x)) <= Cardinality(below(y))
        /\ (Cardinality(below(y)) = Cardinality(below(x)) => below(y) = below(x))
    <3>1. IsFiniteSet(below(y))
      BY <1>2
    <3> HIDE DEF below
    <3> QED BY <2>2, <3>1, FS_Subset
  <2>4. Cardinality(below(x)) \in Nat /\ Cardinality(below(y)) \in Nat
    BY <1>2
  <2>5. below(x) # below(y)
    BY <2>2
  <2> HIDE DEF below
  <2> QED BY <2>3, <2>4, <2>5
<1>4. rank \in [S -> 1..n]
  <2>1. \A x \in S : Cardinality(below(x)) \in 1..n
    <3> HIDE DEF below
    <3> QED BY <1>1, <1>2
  <2> HIDE DEF below
  <2> QED BY <2>1
<1>5. \A x, y \in S : x < y => rank[x] < rank[y]
  <2> HIDE DEF below
  <2> QED BY <1>3
<1> HIDE DEF rank, below, n, Ordered
<1>6. rank \in Injection(S, 1..n)
  <2>1. \A x, y \in S : rank[x] = rank[y] => x = y
    <3> SUFFICES ASSUME NEW x \in S, NEW y \in S, x # y PROVE rank[x] # rank[y]
      OBVIOUS
    <3>1. x < y \/ y < x
      BY <1>1
    <3>2. rank[x] \in Nat /\ rank[y] \in Nat
      BY <1>1, <1>4
    <3> QED BY <3>1, <3>2, <1>5
  <2> QED BY <1>4, <2>1, Fun_IsInj
<1>7. Cardinality(1..n) = n /\ IsFiniteSet(1..n)
  <2>1. Cardinality(1..n) = IF 1 > n THEN 0 ELSE n - 1 + 1
    BY <1>1, FS_Interval
  <2> QED BY <1>1, <2>1, FS_Interval
<1>8. \A i \in 1..n : \E x \in S : rank[x] = i
  <2>1. rank \in Surjection(S, 1..n)
    BY <1>6, <1>7, FS_Injection DEF n
  <2> QED BY <2>1 DEF Surjection
<1> DEFINE inv == [i \in 1..n |-> CHOOSE x \in S : rank[x] = i]
<1>9. \A i \in 1..n : inv[i] \in S /\ rank[inv[i]] = i
  BY <1>8
<1>10. inv \in [1..n -> S] /\ DOMAIN inv = 1..n
  BY <1>9
<1> HIDE DEF inv
<1>11. Ordered(inv)
  <2> SUFFICES ASSUME NEW i \in 1..n, NEW j \in 1..n, i < j PROVE inv[i] < inv[j]
    BY <1>10 DEF Ordered
  <2>1. inv[i] \in S /\ inv[j] \in S /\ rank[inv[i]] = i /\ rank[inv[j]] = j
    BY <1>9
  <2>2. \A x \in S : x \in Nat
    BY <1>1
  <2>3. i \in Nat /\ j \in Nat
    BY <1>1
  <2>4. inv[i] \in Nat /\ inv[j] \in Nat
    BY <2>2, <2>1, Zenon
  <2>5. inv[i] \in Nat /\ inv[j] \in Nat /\ i \in Nat /\ j \in Nat
    BY <2>3, <2>4
  <2>6. inv[j] < inv[i] => j < i
    BY <1>5, <2>1
  <2>7. inv[i] # inv[j]
    BY <2>1, <2>5
  <2> QED BY <2>5, <2>6, <2>7
<1>12. Sorted(S) \in [1..n -> S] /\ Ordered(Sorted(S))
  <2>1. Sorted(S) = CHOOSE s \in [1..n -> S] : Ordered(s)
    BY DEF Sorted, n, Ordered
  <2> QED BY <1>10, <1>11, <2>1
<1> DEFINE s == Sorted(S)
<1>13. s \in [1..n -> S] /\ Ordered(s) /\ DOMAIN s = 1..n
  BY <1>12
<1> HIDE DEF s
<1>14. \A i, j \in 1..n : s[i] = s[j] => i = j
  <2> SUFFICES ASSUME NEW i \in 1..n, NEW j \in 1..n, i # j PROVE s[i] # s[j]
    OBVIOUS
  <2>1. i < j \/ j < i
    BY <1>1
  <2>2. s[i] \in Nat /\ s[j] \in Nat
    BY <1>1, <1>13
  <2> QED BY <1>13, <2>1, <2>2 DEF Ordered
<1>15. IsInjective(s)
  BY <1>13, <1>14 DEF IsInjective
<1>16. \A x \in S : \E i \in 1..n : s[i] = x
  <2>1. s \in Injection(1..n, S)
    BY <1>13, <1>14, Fun_IsInj
  <2>2. s \in Surjection(1..n, S)
    BY <1>1, <1>7, <2>1, FS_Injection DEF n
  <2> QED BY <2>2 DEF Surjection
<1>17. Range(s) = S
  BY <1>13, <1>16 DEF Range
<1>18. s \in Seq(S) /\ Len(s) = n
  <2>1. s \in Seq(S)
    BY <1>1, <1>13
  <2> QED BY <1>1, <1>13, <2>1
<1>19. s = <<>> <=> S = {}
  <2>1. n = 0 <=> S = {}
    BY <1>1, FS_EmptySet DEF n
  <2>2. s = <<>> <=> Len(s) = 0
    BY <1>18
  <2> QED BY <1>18, <2>1, <2>2
<1>20. InOrder(s)
  BY <1>13, <1>18 DEF InOrder, Ordered
<1> QED BY <1>1, <1>15, <1>17, <1>18, <1>19, <1>20 DEF s, n

\* The same of objects.
LEMMA SortedFacts ==
    ASSUME CommandAssumption, NEW S \in SUBSET Ids
    PROVE  /\ Sorted(S) \in Seq(Ids) /\ Range(Sorted(S)) = S /\ IsInjective(Sorted(S))
           /\ (Sorted(S) = <<>> <=> S = {})
<1>1. S \in SUBSET Nat /\ IsFiniteSet(S)
  BY FS_Subset DEF CommandAssumption
<1>2. Sorted(S) \in Seq(S)
  BY <1>1, SortedInOrder
<1>3. Sorted(S) \in Seq(Ids)
  BY <1>2, SeqMonotonic
<1> QED BY <1>1, <1>3, SortedInOrder
-----------------------------------------------------------------------------
Bounds ==
    /\ faults \in 0..MaxFaults /\ edits \in 0..MaxEdits
    /\ moved \subseteq Ids \cup {0} \cup PagedReads!Docs

\* What a step of a component does about requests, edits and facts.
LEMMA BoundsKept ==
    ASSUME Bounds, CommandAssumption, faults' = faults
             \/ (faults > 0 /\ faults' = faults - 1),
           edits' = edits, moved' \subseteq moved
    PROVE  Bounds'
  BY DEF Bounds, CommandAssumption

\* The head of the loop.
LEMMA LoopFacts ==
    ASSUME LoopInv, Looping
    PROVE  /\ todo # <<>> /\ todo \in Seq(Ids) /\ ~Planning /\ ~Ended /\ cmd.yes
           /\ Head(todo) \in Ids /\ Head(todo) \in Touchable /\ Head(todo) \in Range(todo)
           /\ Tail(todo) \in Seq(Ids)
<1>1. todo # <<>> /\ todo \in Seq(Ids) /\ ~Planning /\ ~Ended
        /\ Range(todo) \subseteq Touchable
  BY DEF LoopInv, TodoOK, Looping
<1>2. cmd.yes
  BY <1>1 DEF LoopInv, OnlyConfirmed
<1> QED BY <1>1, <1>2, TailFacts

\* The components order ids as this module does.
LEMMA SameOrder ==
    \A S : /\ DataViews!Sorted(S) = Sorted(S) /\ Dashboards!Sorted(S) = Sorted(S)
           /\ AgentPolicies!Sorted(S) = Sorted(S) /\ Triage!Sorted(S) = Sorted(S)
           /\ Detection!Sorted(S) = Sorted(S)
<1>1. \A S : DataViews!Sorted(S) = Sorted(S)
  BY Zenon DEF DataViews!Sorted, Sorted, DataViews!Cardinality, Cardinality
<1>2. \A S : Dashboards!Sorted(S) = Sorted(S)
  BY Zenon DEF Dashboards!Sorted, Sorted, Dashboards!Cardinality, Cardinality
<1>3. \A S : AgentPolicies!Sorted(S) = Sorted(S)
  BY Zenon DEF AgentPolicies!Sorted, Sorted, AgentPolicies!Cardinality, Cardinality
<1>4. \A S : Triage!Sorted(S) = Sorted(S)
  BY Zenon DEF Triage!Sorted, Sorted, Triage!Cardinality, Cardinality
<1>5. \A S : Detection!Sorted(S) = Sorted(S)
  BY Zenon DEF Detection!Sorted, Sorted, Detection!Cardinality, Cardinality
<1> QED BY <1>1, <1>2, <1>3, <1>4, <1>5

\* The guard of a plan for the objects of S, with rows for others that are skipped.
LEMMA SortedGuard ==
    ASSUME CommandAssumption, NEW p, NEW S \in SUBSET Ids, S \subseteq Touchable,
           Guard(p, Sorted(S)), Planning, writes' = writes, cmd.yes \in BOOLEAN,
           \A r \in rows' : r.id \in Ids \ S /\ r.result = "skipped" /\ r.applied = FALSE,
           cmd.op \in BulkOps \cup {"delete_rules"} => rows' = {}
    PROVE  /\ Guarded /\ plan' = p /\ pc' \in {"check", "done"}
           /\ pc' = "check" => Range(todo') = S
<1>1. /\ Sorted(S) \in Seq(Ids) /\ Range(Sorted(S)) = S /\ IsInjective(Sorted(S))
  BY SortedFacts
<1>2. plan' = p /\ pc' \in {"check", "done"} /\ todo' \in Seq(Ids)
  BY <1>1 DEF Guard
<1>3. pc' = "check" => cmd.yes /\ todo' = Sorted(S) /\ todo' # <<>>
  BY DEF Guard
<1>4. Bulk' => pc' = "check"
  BY <1>2 DEF Bulk
<1> QED BY <1>1, <1>2, <1>3, <1>4 DEF Guarded

\* A deletion by selector that is refused, with or without an effect.
LEMMA RowOfRefusal ==
    ASSUME Looping, cmd.op = "delete_rules", cmd.family # "agent_policies",
           Report(Head(todo), "failed", FALSE), writes \subseteq writes',
           \A w \in writes' : w \in writes \/ w.id = Head(todo)
    PROVE  Reported
<1>1. ~SaysUntouched(Row(Head(todo), "failed", FALSE)) /\ cmd.op \notin BulkOps
  BY DEF SaysUntouched, Row, BulkOps
<1> QED BY <1>1, RowReported DEF Results

\* A row of the answer to one request for everything, whose writes are W.
GoodRow(r, W) ==
    /\ r.id \in Ids /\ r.result \in Results /\ r.applied \in BOOLEAN
    /\ r.applied => \E w \in W : w.id = r.id
    /\ SaysUntouched(r) => rows = {} /\ \A w \in W : w.id # r.id

\* One request for everything, with the writes W, which become L when its answer is lost,
\* and the rows R of its answer.
WholeStep(W, L, R) ==
    /\ UNCHANGED cmd /\ pc \in {"check", "import_bundle"} /\ cmd.op # "delete_rules"
    /\ \A w \in W : w.id \in Touchable /\ w.answered = TRUE /\ \E r \in R : r.id = w.id
    /\ \A w \in L : w.id \in Touchable /\ w.answered = FALSE
    /\ \A r \in R : GoodRow(r, W)
    /\ \A r \in rows : SaysUntouched(r) => \A w \in W : w.id # r.id
    /\ \/ writes' = writes \cup W /\ ReportAll(rows \cup R)
       \/ writes' = writes /\ Fail
       \/ writes' = writes \cup L /\ Fail
       \/ writes' = writes \cup L /\ UNCHANGED runVars

\* One request for everything, answered, refused, lost or sent again.
LEMMA WholeRequest ==
    ASSUME NEW W, NEW L, NEW R, WholeStep(W, L, R)
    PROVE  LoopStep
<1>1. /\ UNCHANGED cmd /\ pc \in {"check", "import_bundle"} /\ cmd.op # "delete_rules"
      /\ \A w \in W : w.id \in Touchable /\ w.answered = TRUE /\ \E r \in R : r.id = w.id
      /\ \A w \in L : w.id \in Touchable /\ w.answered = FALSE
      /\ \A r \in R : /\ r.id \in Ids /\ r.result \in Results /\ r.applied \in BOOLEAN
                      /\ r.applied => \E w \in W : w.id = r.id
                      /\ SaysUntouched(r) => rows = {} /\ \A w \in W : w.id # r.id
      /\ \A r \in rows : SaysUntouched(r) => \A w \in W : w.id # r.id
  BY DEF WholeStep, GoodRow
<1>2. \/ writes' = writes \cup W /\ ReportAll(rows \cup R)
      \/ writes' = writes /\ Fail
      \/ writes' = writes \cup L /\ Fail
      \/ writes' = writes \cup L /\ UNCHANGED runVars
  BY DEF WholeStep
<1>3. ~Planning /\ ~Ended /\ ~AfterWrite
  BY <1>1 DEF Planning, Ended, AfterWrite
<1>4. CASE writes' = writes \cup W /\ ReportAll(rows \cup R)
  <2>1. pc' = "done" /\ todo' = todo /\ rows' = rows \cup R
    BY <1>4 DEF ReportAll
  <2>2. Finishes
    BY <1>1, <1>3, <1>4, <2>1 DEF Finishes
  <2> QED BY <1>1, <2>2 DEF LoopStep
<1>5. CASE writes' = writes /\ Fail
  BY <1>1, <1>3, <1>5 DEF LoopStep, GivesUp, Fail, Goto
<1>6. CASE writes' = writes \cup L /\ Fail
  BY <1>1, <1>3, <1>6 DEF LoopStep, GivesUp, Fail, Goto
<1>7. CASE writes' = writes \cup L /\ UNCHANGED runVars
  BY <1>1, <1>3, <1>7 DEF LoopStep, SendsAgain, runVars, AfterWrite
<1> QED BY <1>2, <1>4, <1>5, <1>6, <1>7


\* A step that posts nothing leaves the posts within their bound.
LEMMA PostsKept ==
    ASSUME PostsBounded, faults \in Nat, faults' \in Nat, faults' <= faults, MaxFaults
             \in Nat,
           \A o \in Ids : stack.posts[o] \in Nat /\ stack'.posts[o] = stack.posts[o],
           \/ Ended' \/ Planning \/ UNCHANGED <<pc, todo>>
           \/ ~Ended /\ Looping' /\ Range(todo') \subseteq Range(todo)
    PROVE  PostsBounded'
<1> SUFFICES ASSUME NEW o \in Ids
             PROVE  /\ stack'.posts[o] + faults' <= 1 + MaxFaults
                    /\ ~Ended' /\ (Looping' => o \in Range(todo')) =>
                         stack'.posts[o] + faults' <= MaxFaults
    BY DEF PostsBounded
<1>1. /\ stack.posts[o] \in Nat /\ stack'.posts[o] = stack.posts[o]
      /\ stack.posts[o] + faults <= 1 + MaxFaults
      /\ ~Ended /\ (Looping => o \in Range(todo)) => stack.posts[o] + faults <= MaxFaults
  BY DEF PostsBounded
<1>2. stack'.posts[o] + faults' <= stack.posts[o] + faults
  BY <1>1
<1>3. ~Ended' /\ (Looping' => o \in Range(todo')) => ~Ended /\ (Looping => o \in Range(todo))
  BY DEF Ended, Looping, Planning, Wholesale
<1> QED BY <1>1, <1>2, <1>3

\* A post of the head: one more post, or one fault less to come.
LEMMA PostMade ==
    ASSUME PostsBounded, faults \in Nat, faults' \in Nat, MaxFaults \in Nat, Looping, ~Ended,
           todo \in Seq(Ids), todo # <<>>, IsInjective(todo),
           \A o \in Ids : /\ stack.posts[o] \in Nat
                          /\ stack'.posts[o] = IF o = Head(todo) THEN stack.posts[o] + 1
                                               ELSE stack.posts[o],
           ~Ended' => Looping', todo' = todo \/ todo' = Tail(todo),
           \/ faults' = faults /\ todo' = Tail(todo)
           \/ faults > 0 /\ faults' = faults - 1
    PROVE  PostsBounded'
<1>1. /\ Head(todo) \in Range(todo) /\ Head(todo) \notin Range(Tail(todo))
      /\ Range(Tail(todo)) \subseteq Range(todo)
  BY TailFacts
<1> SUFFICES ASSUME NEW o \in Ids
             PROVE  /\ stack'.posts[o] + faults' <= 1 + MaxFaults
                    /\ ~Ended' /\ (Looping' => o \in Range(todo')) =>
                         stack'.posts[o] + faults' <= MaxFaults
    BY DEF PostsBounded
<1>2. /\ stack.posts[o] \in Nat /\ stack.posts[o] + faults <= 1 + MaxFaults
      /\ o \in Range(todo) => stack.posts[o] + faults <= MaxFaults
  BY DEF PostsBounded
<1>3. ~Ended' /\ (Looping' => o \in Range(todo')) => o \in Range(todo')
  OBVIOUS
<1>4. CASE o = Head(todo)
  <2>1. stack'.posts[o] = stack.posts[o] + 1 /\ stack.posts[o] + faults <= MaxFaults
    BY <1>1, <1>2, <1>4
  <2>2. faults' = faults => o \notin Range(todo')
    <3>1. faults' = faults => todo' = Tail(todo)
      OBVIOUS
    <3> QED BY <1>1, <1>4, <3>1
  <2>3. CASE faults' = faults
    BY <1>2, <1>3, <2>1, <2>2, <2>3
  <2>4. CASE faults' = faults - 1
    BY <1>2, <2>1, <2>4
  <2> QED BY <2>3, <2>4
<1>5. CASE o # Head(todo)
  <2>1. stack'.posts[o] = stack.posts[o] /\ faults' <= faults
    BY <1>5
  <2>2. o \in Range(todo') => o \in Range(todo)
    BY <1>1
  <2> QED BY <1>2, <1>3, <2>1, <2>2
<1> QED BY <1>4, <1>5

-----------------------------------------------------------------------------
(* Data views.                                                               *)

\* What every step of a data view command does.
DataViewsStep ==
    /\ LoopStep /\ stack' \in DataViews!StackType /\ Bounds' /\ PlanOK'
    /\ WritesWhatWasShown' /\ DataViewsInv'

\* The step PreviewOffline of a data view command.
LEMMA DataViewsPreviewOffline ==
    ASSUME IInv, cmd.family = "data_views", DataViews!PreviewOffline
    PROVE  DataViewsStep
<1>1. pc = "start" /\ cmd.op = "import"
        /\ UNCHANGED <<cmd, stack, moved, writes, rows, faults, edits>>
  BY DEF DataViews!PreviewOffline
<1>2. /\ Planning
      /\ rows = {} /\ writes = {} /\ todo \in Seq(Ids)
      /\ cmd.op \notin BulkOps /\ cmd.op # "delete_rules" /\ cmd.op # "set_enabled"
  <2>1. Planning
    BY <1>1 DEF Planning
  <2>2. rows = {} /\ writes = {} /\ todo \in Seq(Ids)
    BY <2>1 DEF IInv, LoopInv, TodoOK, QuietPlanning
  <2>3. cmd.op \notin BulkOps /\ cmd.op # "delete_rules" /\ cmd.op # "set_enabled"
    BY DEF IInv, OpOK, BulkOps
  <2> QED BY <2>1, <2>2, <2>3
<1>3. Bounds'
  <2>1. faults' = faults
    BY <1>1
  <2>2. moved' \subseteq moved
    BY <1>1
  <2> QED BY <1>1, <2>1, <2>2, BoundsKept, CommandAssumption DEF IInv, TypeOK, Bounds
<1>4. stack' \in DataViews!StackType /\ WritesWhatWasShown'
  BY <1>1 DEF IInv, TypeOK, StackType, WritesWhatWasShown
<1>5. \/ /\ Guard([before |-> [o \in cmd.targets |-> DataViews!Absent]], Sorted(cmd.targets))
         /\ rows' = rows
  BY SameOrder DEF DataViews!PreviewOffline, Report, Row, DataViews!Guard, Guard
<1>6. CASE /\ Guard([before |-> [o \in cmd.targets |-> DataViews!Absent]],
                Sorted(cmd.targets))
           /\ rows' = rows
  <2>1. cmd.targets \in SUBSET Ids /\ cmd.targets \subseteq Touchable /\ cmd.yes \in BOOLEAN
    BY <1>1, <1>2 DEF IInv, CmdOK, Touchable
  <2>2. /\ Guarded /\ plan' = [before |-> [o \in cmd.targets |-> DataViews!Absent]]
             /\ pc' \in {"check", "done"}
        /\ pc' = "check" => Range(todo') = cmd.targets
    BY <1>1, <1>2, <2>1, <1>6, SortedGuard, CommandAssumption
  <2>3. PlanOK'
    BY <1>1, <2>1, <2>2 DEF IInv, PlanOK, CmdOK
  <2>4. DataViewsInv'
    BY <1>1, <2>2 DEF DataViewsInv
  <2> QED BY <1>1, <1>3, <1>4, <2>1, <2>2, <2>3, <2>4 DEF DataViewsStep, LoopStep
<1> QED BY <1>5, <1>6

\* The step BeginImport of a data view command.
LEMMA DataViewsBeginImport ==
    ASSUME IInv, cmd.family = "data_views", DataViews!BeginImport
    PROVE  DataViewsStep
<1>1. pc = "start" /\ cmd.op = "import"
        /\ UNCHANGED <<cmd, plan, stack, moved, writes, rows, faults, edits>>
  BY DEF DataViews!BeginImport
<1>2. /\ Planning
      /\ rows = {} /\ writes = {} /\ todo \in Seq(Ids)
      /\ cmd.op \notin BulkOps /\ cmd.op # "delete_rules" /\ cmd.op # "set_enabled"
  <2>1. Planning
    BY <1>1 DEF Planning
  <2>2. rows = {} /\ writes = {} /\ todo \in Seq(Ids)
    BY <2>1 DEF IInv, LoopInv, TodoOK, QuietPlanning
  <2>3. cmd.op \notin BulkOps /\ cmd.op # "delete_rules" /\ cmd.op # "set_enabled"
    BY DEF IInv, OpOK, BulkOps
  <2> QED BY <2>1, <2>2, <2>3
<1>3. Bounds'
  <2>1. faults' = faults
    BY <1>1
  <2>2. moved' \subseteq moved
    BY <1>1
  <2> QED BY <1>1, <2>1, <2>2, BoundsKept, CommandAssumption DEF IInv, TypeOK, Bounds
<1>4. stack' \in DataViews!StackType /\ WritesWhatWasShown' /\ PlanOK'
  BY <1>1 DEF IInv, TypeOK, StackType, WritesWhatWasShown, PlanOK
<1>5. \/ pc' = "preflight" /\ todo' = Sorted(cmd.targets)
  BY SameOrder DEF DataViews!BeginImport, Report, Row, Guard
<1>6. CASE pc' = "preflight" /\ todo' = Sorted(cmd.targets)
  <2>1. todo' \in Seq(Ids)
    BY <1>1, <1>6, SortedFacts, CommandAssumption DEF IInv, CmdOK
  <2>2. PlansOn
    BY <1>1, <1>2, <2>1, <1>6 DEF PlansOn, Planning, Ended, Wholesale
  <2>3. DataViewsInv'
    BY <1>1, <1>6 DEF IInv, DataViewsInv
  <2> QED BY <1>1, <1>3, <1>4, <2>1, <2>2, <2>3 DEF DataViewsStep, LoopStep
<1> QED BY <1>5, <1>6

\* The step Preflight of a data view command.
LEMMA DataViewsPreflight ==
    ASSUME IInv, cmd.family = "data_views", DataViews!Preflight
    PROVE  DataViewsStep
<1>1. pc = "preflight" /\ todo # <<>> /\ UNCHANGED <<cmd, stack, writes, edits>>
  BY DEF DataViews!Preflight
<1>2. /\ Planning
      /\ rows = {} /\ writes = {} /\ todo \in Seq(Ids)
      /\ Head(todo) \in Ids /\ Tail(todo) \in Seq(Ids)
      /\ cmd.op \notin BulkOps /\ cmd.op # "delete_rules" /\ cmd.op # "set_enabled"
  <2>1. Planning
    BY <1>1 DEF Planning
  <2>2. rows = {} /\ writes = {} /\ todo \in Seq(Ids)
    BY <2>1 DEF IInv, LoopInv, TodoOK, QuietPlanning
  <2>3. Head(todo) \in Ids /\ Tail(todo) \in Seq(Ids)
    BY <1>1, <2>2, TailFacts
  <2>4. cmd.op \notin BulkOps /\ cmd.op # "delete_rules" /\ cmd.op # "set_enabled"
    BY DEF IInv, OpOK, BulkOps
  <2> QED BY <2>1, <2>2, <2>3, <2>4
<1>3. Bounds'
  <2>1. faults' = faults \/ (faults > 0 /\ faults' = faults - 1)
    BY DEF DataViews!Preflight, DataViews!Read, DataViews!Checked
  <2>2. moved' \subseteq moved
    BY DEF DataViews!Preflight, DataViews!Read, DataViews!Checked
  <2> QED BY <1>1, <2>1, <2>2, BoundsKept, CommandAssumption DEF IInv, TypeOK, Bounds
<1>4. stack' \in DataViews!StackType /\ WritesWhatWasShown'
  BY <1>1 DEF IInv, TypeOK, StackType, WritesWhatWasShown
<1>5. \/ /\ pc' = pc /\ rows' = rows /\ todo' = Tail(todo)
         /\ plan' = [plan EXCEPT !.before
              = DataViews!Noted(@, Head(todo), stack.view[Head(todo)])]
      \/ Fail /\ plan' = plan
  BY DEF DataViews!Preflight, DataViews!Read, DataViews!Checked, DataViews!Fail, Fail,
     DataViews!Goto, Goto, Report, Row, Guard
<1>6. CASE /\ pc' = pc /\ rows' = rows /\ todo' = Tail(todo)
           /\ plan' = [plan EXCEPT !.before
                = DataViews!Noted(@, Head(todo), stack.view[Head(todo)])]
  <2>1. PlanOK'
    BY <1>1, <1>2, <1>6 DEF IInv, PlanOK, DataViews!Noted
  <2>2. PlansOn
    BY <1>1, <1>2, <1>6 DEF PlansOn, Planning, Ended, Wholesale, Goto, Fail
  <2>3. DataViewsInv'
    BY <1>1, <1>6 DEF IInv, DataViewsInv, Goto, Fail
  <2> QED BY <1>1, <1>3, <1>4, <2>1, <2>2, <2>3 DEF DataViewsStep, LoopStep
<1>7. CASE Fail /\ plan' = plan
  <2>1. PlanOK'
    BY <1>1, <1>7 DEF IInv, PlanOK
  <2>2. PlansOn
    BY <1>1, <1>2, <1>7 DEF PlansOn, Planning, Ended, Wholesale, Goto, Fail
  <2>3. DataViewsInv'
    BY <1>1, <1>7 DEF IInv, DataViewsInv, Goto, Fail
  <2> QED BY <1>1, <1>3, <1>4, <2>1, <2>2, <2>3 DEF DataViewsStep, LoopStep
<1> QED BY <1>5, <1>6, <1>7

\* The step PlanImport of a data view command.
LEMMA DataViewsPlanImport ==
    ASSUME IInv, cmd.family = "data_views", DataViews!PlanImport
    PROVE  DataViewsStep
<1>1. pc = "preflight" /\ todo = <<>>
        /\ UNCHANGED <<cmd, stack, moved, writes, faults, edits>>
  BY DEF DataViews!PlanImport, DataViews!Row, Row
<1>2. /\ Planning
      /\ rows = {} /\ writes = {} /\ todo \in Seq(Ids)
      /\ cmd.op \notin BulkOps /\ cmd.op # "delete_rules" /\ cmd.op # "set_enabled"
  <2>1. Planning
    BY <1>1 DEF Planning
  <2>2. rows = {} /\ writes = {} /\ todo \in Seq(Ids)
    BY <2>1 DEF IInv, LoopInv, TodoOK, QuietPlanning
  <2>3. cmd.op \notin BulkOps /\ cmd.op # "delete_rules" /\ cmd.op # "set_enabled"
    BY DEF IInv, OpOK, BulkOps
  <2> QED BY <2>1, <2>2, <2>3
<1>3. Bounds'
  <2>1. faults' = faults
    BY <1>1
  <2>2. moved' \subseteq moved
    BY <1>1
  <2> QED BY <1>1, <2>1, <2>2, BoundsKept, CommandAssumption DEF IInv, TypeOK, Bounds
<1>4. stack' \in DataViews!StackType /\ WritesWhatWasShown'
  BY <1>1 DEF IInv, TypeOK, StackType, WritesWhatWasShown
<1>5. \/ Fail /\ plan' = plan
      \/ /\ Guard([before |-> [o \in cmd.targets \ DataViews!Skipped |-> plan.before[o]]],
              Sorted(cmd.targets \ DataViews!Skipped))
         /\ rows' = {Row(o, "skipped", FALSE) : o \in DataViews!Skipped}
  BY SameOrder DEF DataViews!PlanImport, DataViews!Fail, Fail, DataViews!Goto, Goto, Report,
     DataViews!Row, Row, DataViews!Guard, Guard
<1>6. CASE Fail /\ plan' = plan
  <2>1. PlanOK'
    BY <1>1, <1>6 DEF IInv, PlanOK
  <2>2. PlansOn
    BY <1>1, <1>2, <1>6 DEF PlansOn, Planning, Ended, Wholesale, Goto, Fail
  <2>3. DataViewsInv'
    BY <1>1, <1>6 DEF IInv, DataViewsInv, Goto, Fail
  <2> QED BY <1>1, <1>3, <1>4, <2>1, <2>2, <2>3 DEF DataViewsStep, LoopStep
<1>7. CASE /\ Guard([before |-> [o
                \in cmd.targets \ DataViews!Skipped |-> plan.before[o]]],
                  Sorted(cmd.targets \ DataViews!Skipped))
           /\ rows' = {Row(o, "skipped", FALSE) : o \in DataViews!Skipped}
  <2>1. cmd.targets \ DataViews!Skipped \in SUBSET Ids
          /\ cmd.targets \ DataViews!Skipped \subseteq Touchable /\ cmd.yes \in BOOLEAN
    BY <1>1, <1>2 DEF IInv, CmdOK, DataViewsInv, Touchable
  <2>2. \A r \in rows' : r.id \in DataViews!Skipped /\ r.result = "skipped"
          /\ r.applied = FALSE
    BY <1>7 DEF Row
  <2>3. DataViews!Skipped \subseteq Ids
          /\ DataViews!Skipped \cap (cmd.targets \ DataViews!Skipped) = {}
    BY <1>1, <1>2 DEF IInv, PlanOK, DataViews!Skipped, DataViews!Existing
  <2>4. \A r \in rows' : r.id \in Ids \ (cmd.targets \ DataViews!Skipped)
          /\ r.result = "skipped" /\ r.applied = FALSE
    BY <2>2, <2>3
  <2>5. /\ Guarded /\ plan'
             = [before |-> [o \in cmd.targets \ DataViews!Skipped |-> plan.before[o]]]
               /\ pc' \in {"check", "done"}
        /\ pc' = "check" => Range(todo') = cmd.targets \ DataViews!Skipped
    BY <1>1, <1>2, <2>1, <2>4, <1>7, SortedGuard, CommandAssumption
  <2>6. PlanOK'
    BY <1>1, <2>1, <2>5 DEF IInv, PlanOK, CmdOK
  <2>7. DataViewsInv'
    BY <1>1, <2>5 DEF DataViewsInv
  <2> QED BY <1>1, <1>3, <1>4, <2>1, <2>2, <2>3, <2>4, <2>5, <2>6, <2>7 DEF DataViewsStep,
         LoopStep
<1> QED BY <1>5, <1>6, <1>7

\* The step CheckImport of a data view command.
LEMMA DataViewsCheckImport ==
    ASSUME IInv, cmd.family = "data_views", DataViews!CheckImport
    PROVE  DataViewsStep
<1>1. pc = "check" /\ cmd.op = "import" /\ UNCHANGED <<cmd, plan, stack, writes, edits>>
  BY DEF DataViews!CheckImport, DataViews!Desired
<1>2. /\ Looping
      /\ todo # <<>> /\ todo \in Seq(Ids) /\ Head(todo) \in Ids /\ Head(todo) \in Touchable
           /\ ~Planning /\ ~Ended
      /\ cmd.op \notin BulkOps /\ cmd.op # "delete_rules" /\ cmd.op # "set_enabled"
  <2>1. Looping
    BY <1>1 DEF Looping, Ended, Planning, Wholesale
  <2>2. todo # <<>> /\ todo \in Seq(Ids) /\ Head(todo) \in Ids /\ Head(todo) \in Touchable
          /\ ~Planning /\ ~Ended
    BY <2>1, LoopFacts DEF IInv
  <2>3. cmd.op \notin BulkOps /\ cmd.op # "delete_rules" /\ cmd.op # "set_enabled"
    BY DEF IInv, OpOK, BulkOps
  <2> QED BY <2>1, <2>2, <2>3
<1>3. Bounds'
  <2>1. faults' = faults \/ (faults > 0 /\ faults' = faults - 1)
    BY DEF DataViews!CheckImport, DataViews!Read, DataViews!Checked, DataViews!Desired
  <2>2. moved' \subseteq moved
    BY DEF DataViews!CheckImport, DataViews!Read, DataViews!Checked, DataViews!Desired
  <2> QED BY <1>1, <2>1, <2>2, BoundsKept, CommandAssumption DEF IInv, TypeOK, Bounds
<1>4. stack' \in DataViews!StackType /\ WritesWhatWasShown' /\ PlanOK'
  BY <1>1 DEF IInv, TypeOK, StackType, WritesWhatWasShown, PlanOK
<1>5. \/ \E res \in {"failed", "unchanged"} : Report(Head(todo), res, FALSE)
      \/ Goto("create")
      \/ /\ Goto("update_base")
         /\ stack.view[Head(todo)] = plan.before[Head(todo)]
              /\ stack.view[Head(todo)] # DataViews!Absent /\ plan.before[Head(todo)].base # 2
      \/ /\ Goto("update_meta")
         /\ stack.view[Head(todo)] = plan.before[Head(todo)]
              /\ stack.view[Head(todo)] # DataViews!Absent /\ plan.before[Head(todo)].base = 2
  BY DEF DataViews!CheckImport, DataViews!Read, DataViews!Checked, DataViews!Goto, Goto,
     DataViews!Report, Report, DataViews!Row, Row, Guard, DataViews!Desired
<1>6. CASE \E res \in {"failed", "unchanged"} : Report(Head(todo), res, FALSE)
  <2>1. Reported
    BY <1>1, <1>2, <1>6, RowWithoutWrite DEF Results, AfterWrite
  <2>2. DataViewsInv'
    BY <1>1, <1>6 DEF IInv, DataViewsInv, Report
  <2> QED BY <1>1, <1>3, <1>4, <2>1, <2>2 DEF DataViewsStep, LoopStep
<1>7. CASE Goto("create")
  <2>1. HandlesOn
    BY <1>1, <1>2, <1>7 DEF HandlesOn, Goto, Looping, Ended, Planning, Wholesale, Bulk,
       AfterWrite
  <2>2. DataViewsInv'
    BY <1>1, <1>7 DEF IInv, DataViewsInv, Goto, Excused, Unanswers
  <2> QED BY <1>1, <1>3, <1>4, <2>1, <2>2 DEF DataViewsStep, LoopStep
<1>8. CASE /\ Goto("update_base")
           /\ stack.view[Head(todo)] = plan.before[Head(todo)]
                /\ stack.view[Head(todo)] # DataViews!Absent
                     /\ plan.before[Head(todo)].base # 2
  <2>1. stack.view[Head(todo)] \in DataViews!Contents
    BY <1>1, <1>2, <1>8 DEF IInv, TypeOK, StackType, DataViews!StackType
  <2>2. HandlesOn
    BY <1>1, <1>2, <1>8 DEF HandlesOn, Goto, Looping, Ended, Planning, Wholesale, Bulk,
       AfterWrite
  <2>3. DataViewsInv'
    BY <1>1, <2>1, <1>8 DEF IInv, DataViewsInv, Goto, Excused, Unanswers
  <2> QED BY <1>1, <1>3, <1>4, <2>1, <2>2, <2>3 DEF DataViewsStep, LoopStep
<1>9. CASE /\ Goto("update_meta")
           /\ stack.view[Head(todo)] = plan.before[Head(todo)]
                /\ stack.view[Head(todo)] # DataViews!Absent
                     /\ plan.before[Head(todo)].base = 2
  <2>1. stack.view[Head(todo)] \in DataViews!Contents
    BY <1>1, <1>2, <1>9 DEF IInv, TypeOK, StackType, DataViews!StackType
  <2>2. stack.view[Head(todo)] = [plan.before[Head(todo)] EXCEPT !.base = 2]
    BY <2>1, <1>9 DEF DataViews!Contents
  <2>3. HandlesOn
    BY <1>1, <1>2, <1>9 DEF HandlesOn, Goto, Looping, Ended, Planning, Wholesale, Bulk,
       AfterWrite
  <2>4. DataViewsInv'
    BY <1>1, <2>2, <1>9 DEF IInv, DataViewsInv, Goto, Excused, Unanswers
  <2> QED BY <1>1, <1>3, <1>4, <2>1, <2>2, <2>3, <2>4 DEF DataViewsStep, LoopStep
<1> QED BY <1>5, <1>6, <1>7, <1>8, <1>9

\* The step Create of a data view command.
LEMMA DataViewsCreate ==
    ASSUME IInv, cmd.family = "data_views", DataViews!Create
    PROVE  DataViewsStep
<1> DEFINE w == Write(Head(todo), DataViews!Absent, stack.view[Head(todo)], {Head(todo)})
           u == Unanswered(w)
           new == [stack EXCEPT !.view[Head(todo)] = DataViews!Desired]
<1>1. pc = "create" /\ UNCHANGED <<cmd, plan, moved, edits>>
  BY DEF DataViews!Create, DataViews!PutView
<1>2. /\ Looping
      /\ todo # <<>> /\ todo \in Seq(Ids) /\ Head(todo) \in Ids /\ Head(todo) \in Touchable
           /\ ~Planning /\ ~Ended
      /\ cmd.op \notin BulkOps /\ cmd.op # "delete_rules" /\ cmd.op # "set_enabled"
  <2>1. Looping
    BY <1>1 DEF Looping, Ended, Planning, Wholesale
  <2>2. todo # <<>> /\ todo \in Seq(Ids) /\ Head(todo) \in Ids /\ Head(todo) \in Touchable
          /\ ~Planning /\ ~Ended
    BY <2>1, LoopFacts DEF IInv
  <2>3. cmd.op \notin BulkOps /\ cmd.op # "delete_rules" /\ cmd.op # "set_enabled"
    BY DEF IInv, OpOK, BulkOps
  <2> QED BY <2>1, <2>2, <2>3
<1>3. Bounds'
  <2>1. faults' = faults \/ (faults > 0 /\ faults' = faults - 1)
    BY DEF DataViews!Create, DataViews!Mutate, DataViews!MutateAll, DataViews!PutView
  <2>2. moved' \subseteq moved
    BY <1>1
  <2> QED BY <1>1, <2>1, <2>2, BoundsKept, CommandAssumption DEF IInv, TypeOK, Bounds
<1>4. PlanOK'
  BY <1>1 DEF IInv, PlanOK
<1>5. \/ /\ Report(Head(todo), "failed", FALSE)
         /\ stack' = stack /\ writes' = writes
      \/ /\ Report(Head(todo), "failed", FALSE)
         /\ stack' = new /\ writes' = writes \cup {u}
              /\ stack.view[Head(todo)] = DataViews!Absent
      \/ /\ Goto("verify")
         /\ stack' = new /\ writes' = writes \cup {w}
              /\ stack.view[Head(todo)] = DataViews!Absent
      \/ /\ pc' = pc /\ todo' = todo /\ rows' = rows
         /\ stack' = new /\ writes' = writes \cup {u}
              /\ stack.view[Head(todo)] = DataViews!Absent
  BY DEF DataViews!Create, DataViews!Mutate, DataViews!MutateAll, DataViews!Goto, Goto,
     DataViews!Report, Report, DataViews!Row, Row, DataViews!runVars, runVars, Guard,
     DataViews!Write, Write, DataViews!Unanswered, Unanswered, DataViews!PutView
<1>6. /\ w.id = Head(todo) /\ w.answered = TRUE /\ u.id = Head(todo) /\ u.answered = FALSE
      /\ stack.view[Head(todo)] = DataViews!Absent => w.asShown = TRUE
  BY DEF Write, Unanswered
<1>7. stack.view[Head(todo)] = DataViews!Absent => new \in DataViews!StackType
  <2> SUFFICES ASSUME TRUE PROVE new \in DataViews!StackType
    OBVIOUS
  <2>1. stack \in DataViews!StackType /\ Head(todo) \in Ids
    BY <1>2 DEF IInv, TypeOK, StackType
  <2>2. (DataViews!Desired) \in DataViews!Contents \cup {DataViews!Absent}
    BY DEF DataViews!Contents, DataViews!Desired, DataViews!Absent
  <2> QED BY <2>1, <2>2 DEF DataViews!StackType
<1> HIDE DEF w, u, new
<1>8. CASE /\ Report(Head(todo), "failed", FALSE)
           /\ stack' = stack /\ writes' = writes
  <2>1. stack' \in DataViews!StackType
    BY <1>1, <1>8 DEF IInv, TypeOK, StackType
  <2>2. WritesWhatWasShown'
    BY <1>1, <1>8 DEF IInv, WritesWhatWasShown
  <2>3. Reported
    BY <1>1, <1>2, <1>8, RowWithoutWrite DEF Results, AfterWrite
  <2>4. DataViewsInv'
    BY <1>1, <1>6, <1>8 DEF IInv, DataViewsInv, Excused, Unanswers, Report, Goto
  <2> QED BY <1>1, <1>3, <1>4, <2>1, <2>2, <2>3, <2>4 DEF DataViewsStep, LoopStep
<1>9. CASE /\ Report(Head(todo), "failed", FALSE)
           /\ stack' = new /\ writes' = writes \cup {u}
                /\ stack.view[Head(todo)] = DataViews!Absent
  <2>1. stack' \in DataViews!StackType
    BY <1>7, <1>9
  <2>2. WritesWhatWasShown'
    BY <1>6, <1>9, ShownWrite DEF IInv
  <2>3. Reported
    BY <1>1, <1>2, <1>6, <1>9, RowOfLostWrite DEF Results, AfterWrite
  <2>4. DataViewsInv'
    BY <1>1, <1>6, <1>9 DEF IInv, DataViewsInv, Excused, Unanswers, Report, Goto
  <2> QED BY <1>1, <1>3, <1>4, <2>1, <2>2, <2>3, <2>4 DEF DataViewsStep, LoopStep
<1>10. CASE /\ Goto("verify")
            /\ stack' = new /\ writes' = writes \cup {w}
                 /\ stack.view[Head(todo)] = DataViews!Absent
  <2>1. stack' \in DataViews!StackType
    BY <1>7, <1>10
  <2>2. WritesWhatWasShown'
    BY <1>6, <1>10, ShownWrite DEF IInv
  <2>3. HandlesOn
    BY <1>1, <1>2, <1>6, <1>10 DEF HandlesOn, Goto, Looping, Ended, Planning, Wholesale,
       Bulk, AfterWrite
  <2>4. DataViewsInv'
    BY <1>1, <1>6, <1>10 DEF IInv, DataViewsInv, Excused, Unanswers, Report, Goto
  <2> QED BY <1>1, <1>3, <1>4, <2>1, <2>2, <2>3, <2>4 DEF DataViewsStep, LoopStep
<1>11. CASE /\ pc' = pc /\ todo' = todo /\ rows' = rows
            /\ stack' = new /\ writes' = writes \cup {u}
                 /\ stack.view[Head(todo)] = DataViews!Absent
  <2>1. stack' \in DataViews!StackType
    BY <1>7, <1>11
  <2>2. WritesWhatWasShown'
    BY <1>6, <1>11, ShownWrite DEF IInv
  <2>3. SendsAgain
    BY <1>1, <1>2, <1>6, <1>11 DEF SendsAgain, runVars, AfterWrite
  <2>4. DataViewsInv'
    BY <1>1, <1>6, <1>11 DEF IInv, DataViewsInv, Excused, Unanswers, Report, Goto
  <2> QED BY <1>1, <1>3, <1>4, <2>1, <2>2, <2>3, <2>4 DEF DataViewsStep, LoopStep
<1> QED BY <1>5, <1>8, <1>9, <1>10, <1>11

\* The step UpdateBase of a data view command.
LEMMA DataViewsUpdateBase ==
    ASSUME IInv, cmd.family = "data_views", DataViews!UpdateBase
    PROVE  DataViewsStep
<1> DEFINE w == Write(Head(todo), plan.before[Head(todo)],
             stack.view[Head(todo)], {Head(todo)})
           u == Unanswered(w)
           new == [stack EXCEPT !.view[Head(todo)]
             = [stack.view[Head(todo)] EXCEPT !.base = 2]]
<1>1. pc = "update_base" /\ UNCHANGED <<cmd, plan, moved, edits>>
  BY DEF DataViews!UpdateBase, DataViews!PutView
<1>2. /\ Looping
      /\ todo # <<>> /\ todo \in Seq(Ids) /\ Head(todo) \in Ids /\ Head(todo) \in Touchable
           /\ ~Planning /\ ~Ended
      /\ cmd.op \notin BulkOps /\ cmd.op # "delete_rules" /\ cmd.op # "set_enabled"
  <2>1. Looping
    BY <1>1 DEF Looping, Ended, Planning, Wholesale
  <2>2. todo # <<>> /\ todo \in Seq(Ids) /\ Head(todo) \in Ids /\ Head(todo) \in Touchable
          /\ ~Planning /\ ~Ended
    BY <2>1, LoopFacts DEF IInv
  <2>3. cmd.op \notin BulkOps /\ cmd.op # "delete_rules" /\ cmd.op # "set_enabled"
    BY DEF IInv, OpOK, BulkOps
  <2> QED BY <2>1, <2>2, <2>3
<1>3. Bounds'
  <2>1. faults' = faults \/ (faults > 0 /\ faults' = faults - 1)
    BY DEF DataViews!UpdateBase, DataViews!Mutate, DataViews!MutateAll, DataViews!PutView
  <2>2. moved' \subseteq moved
    BY <1>1
  <2> QED BY <1>1, <2>1, <2>2, BoundsKept, CommandAssumption DEF IInv, TypeOK, Bounds
<1>4. PlanOK'
  BY <1>1 DEF IInv, PlanOK
<1>5. \/ /\ Report(Head(todo), "failed", FALSE)
         /\ stack' = stack /\ writes' = writes
      \/ /\ Report(Head(todo), "failed", FALSE)
         /\ stack' = new /\ writes' = writes \cup {u}
              /\ stack.view[Head(todo)] # DataViews!Absent
      \/ /\ Goto("update_meta")
         /\ plan.before[Head(todo)].meta # 2
         /\ stack' = new /\ writes' = writes \cup {w}
              /\ stack.view[Head(todo)] # DataViews!Absent
      \/ /\ Goto("verify")
         /\ plan.before[Head(todo)].meta = 2
         /\ stack' = new /\ writes' = writes \cup {w}
              /\ stack.view[Head(todo)] # DataViews!Absent
      \/ /\ pc' = pc /\ todo' = todo /\ rows' = rows
         /\ stack' = new /\ writes' = writes \cup {u}
              /\ stack.view[Head(todo)] # DataViews!Absent
  BY DEF DataViews!UpdateBase, DataViews!Mutate, DataViews!MutateAll, DataViews!Goto, Goto,
     DataViews!Report, Report, DataViews!Row, Row, DataViews!runVars, runVars, Guard,
     DataViews!Write, Write, DataViews!Unanswered, Unanswered, DataViews!PutView
<1>6. /\ w.id = Head(todo) /\ w.answered = TRUE /\ u.id = Head(todo) /\ u.answered = FALSE
      /\ w.asShown = TRUE \/ Unanswers(Head(todo))
  <2>1. (stack.view[Head(todo)]) = (plan.before[Head(todo)])
          \/ moved \cap {Head(todo)} # {} \/ Unanswers(Head(todo))
    BY <1>1 DEF IInv, DataViewsInv, Excused
  <2> QED BY <2>1 DEF Write, Unanswered
<1>7. stack.view[Head(todo)] # DataViews!Absent => new \in DataViews!StackType
  <2> SUFFICES ASSUME stack.view[Head(todo)] # DataViews!Absent
                        PROVE new \in DataViews!StackType
    OBVIOUS
  <2>1. stack \in DataViews!StackType /\ Head(todo) \in Ids
    BY <1>2 DEF IInv, TypeOK, StackType
  <2>2. stack.view[Head(todo)] \in DataViews!Contents
    BY <2>1 DEF DataViews!StackType
  <2>3. ([stack.view[Head(todo)] EXCEPT !.base = 2]) \in DataViews!Contents
          \cup {DataViews!Absent}
    BY <2>2 DEF DataViews!Contents, DataViews!Absent
  <2> QED BY <2>1, <2>3 DEF DataViews!StackType
<1>8. new.view[Head(todo)] = [plan.before[Head(todo)] EXCEPT !.base = 2]
        \/ Excused(Head(todo), {Head(todo)})
  <2>1. stack \in DataViews!StackType
    BY DEF IInv, TypeOK, StackType
  <2>2. new.view[Head(todo)] = [stack.view[Head(todo)] EXCEPT !.base = 2]
    BY <1>2, <2>1 DEF DataViews!StackType
  <2> QED BY <1>1, <2>2 DEF IInv, DataViewsInv
<1> HIDE DEF w, u, new
<1>9. CASE /\ Report(Head(todo), "failed", FALSE)
           /\ stack' = stack /\ writes' = writes
  <2>1. stack' \in DataViews!StackType
    BY <1>1, <1>9 DEF IInv, TypeOK, StackType
  <2>2. WritesWhatWasShown'
    BY <1>1, <1>9 DEF IInv, WritesWhatWasShown
  <2>3. Reported
    BY <1>1, <1>2, <1>9, RowWithoutWrite DEF Results, AfterWrite
  <2>4. DataViewsInv'
    BY <1>1, <1>6, <1>8, <1>9 DEF IInv, DataViewsInv, Excused, Unanswers, Report, Goto
  <2> QED BY <1>1, <1>3, <1>4, <2>1, <2>2, <2>3, <2>4 DEF DataViewsStep, LoopStep
<1>10. CASE /\ Report(Head(todo), "failed", FALSE)
            /\ stack' = new /\ writes' = writes \cup {u}
                 /\ stack.view[Head(todo)] # DataViews!Absent
  <2>1. stack' \in DataViews!StackType
    BY <1>7, <1>10
  <2>2. WritesWhatWasShown'
    BY <1>6, <1>10, ShownWrite DEF IInv
  <2>3. Reported
    BY <1>1, <1>2, <1>6, <1>10, RowOfLostWrite DEF Results, AfterWrite
  <2>4. DataViewsInv'
    BY <1>1, <1>6, <1>8, <1>10 DEF IInv, DataViewsInv, Excused, Unanswers, Report, Goto
  <2> QED BY <1>1, <1>3, <1>4, <2>1, <2>2, <2>3, <2>4 DEF DataViewsStep, LoopStep
<1>11. CASE /\ Goto("update_meta")
            /\ plan.before[Head(todo)].meta # 2
            /\ stack' = new /\ writes' = writes \cup {w}
                 /\ stack.view[Head(todo)] # DataViews!Absent
  <2>1. stack' \in DataViews!StackType
    BY <1>7, <1>11
  <2>2. WritesWhatWasShown'
    BY <1>6, <1>11, ShownWrite DEF IInv
  <2>3. HandlesOn
    BY <1>1, <1>2, <1>6, <1>11 DEF HandlesOn, Goto, Looping, Ended, Planning, Wholesale,
       Bulk, AfterWrite, IInv, DataViewsInv
  <2>4. DataViewsInv'
    BY <1>1, <1>6, <1>8, <1>11 DEF IInv, DataViewsInv, Excused, Unanswers, Report, Goto
  <2> QED BY <1>1, <1>3, <1>4, <2>1, <2>2, <2>3, <2>4 DEF DataViewsStep, LoopStep
<1>12. CASE /\ Goto("verify")
            /\ plan.before[Head(todo)].meta = 2
            /\ stack' = new /\ writes' = writes \cup {w}
                 /\ stack.view[Head(todo)] # DataViews!Absent
  <2>1. stack' \in DataViews!StackType
    BY <1>7, <1>12
  <2>2. WritesWhatWasShown'
    BY <1>6, <1>12, ShownWrite DEF IInv
  <2>3. HandlesOn
    BY <1>1, <1>2, <1>6, <1>12 DEF HandlesOn, Goto, Looping, Ended, Planning, Wholesale,
       Bulk, AfterWrite, IInv, DataViewsInv
  <2>4. DataViewsInv'
    BY <1>1, <1>6, <1>8, <1>12 DEF IInv, DataViewsInv, Excused, Unanswers, Report, Goto
  <2> QED BY <1>1, <1>3, <1>4, <2>1, <2>2, <2>3, <2>4 DEF DataViewsStep, LoopStep
<1>13. CASE /\ pc' = pc /\ todo' = todo /\ rows' = rows
            /\ stack' = new /\ writes' = writes \cup {u}
                 /\ stack.view[Head(todo)] # DataViews!Absent
  <2>1. stack' \in DataViews!StackType
    BY <1>7, <1>13
  <2>2. WritesWhatWasShown'
    BY <1>6, <1>13, ShownWrite DEF IInv
  <2>3. SendsAgain
    BY <1>1, <1>2, <1>6, <1>13 DEF SendsAgain, runVars, AfterWrite
  <2>4. DataViewsInv'
    BY <1>1, <1>6, <1>8, <1>13 DEF IInv, DataViewsInv, Excused, Unanswers, Report, Goto
  <2> QED BY <1>1, <1>3, <1>4, <2>1, <2>2, <2>3, <2>4 DEF DataViewsStep, LoopStep
<1> QED BY <1>5, <1>9, <1>10, <1>11, <1>12, <1>13

\* The step UpdateMeta of a data view command.
LEMMA DataViewsUpdateMeta ==
    ASSUME IInv, cmd.family = "data_views", DataViews!UpdateMeta
    PROVE  DataViewsStep
<1> DEFINE w == Write(Head(todo), [plan.before[Head(todo)] EXCEPT !.base = 2],
             stack.view[Head(todo)], {Head(todo)})
           u == Unanswered(w)
           new == [stack EXCEPT !.view[Head(todo)]
             = [stack.view[Head(todo)] EXCEPT !.meta = 2]]
<1>1. pc = "update_meta" /\ UNCHANGED <<cmd, plan, moved, edits>>
  BY DEF DataViews!UpdateMeta, DataViews!PutView
<1>2. /\ Looping
      /\ todo # <<>> /\ todo \in Seq(Ids) /\ Head(todo) \in Ids /\ Head(todo) \in Touchable
           /\ ~Planning /\ ~Ended
      /\ cmd.op \notin BulkOps /\ cmd.op # "delete_rules" /\ cmd.op # "set_enabled"
  <2>1. Looping
    BY <1>1 DEF Looping, Ended, Planning, Wholesale
  <2>2. todo # <<>> /\ todo \in Seq(Ids) /\ Head(todo) \in Ids /\ Head(todo) \in Touchable
          /\ ~Planning /\ ~Ended
    BY <2>1, LoopFacts DEF IInv
  <2>3. cmd.op \notin BulkOps /\ cmd.op # "delete_rules" /\ cmd.op # "set_enabled"
    BY DEF IInv, OpOK, BulkOps
  <2> QED BY <2>1, <2>2, <2>3
<1>3. Bounds'
  <2>1. faults' = faults \/ (faults > 0 /\ faults' = faults - 1)
    BY DEF DataViews!UpdateMeta, DataViews!Mutate, DataViews!MutateAll, DataViews!PutView
  <2>2. moved' \subseteq moved
    BY <1>1
  <2> QED BY <1>1, <2>1, <2>2, BoundsKept, CommandAssumption DEF IInv, TypeOK, Bounds
<1>4. PlanOK'
  BY <1>1 DEF IInv, PlanOK
<1>5. \/ /\ Report(Head(todo), "failed", FALSE)
         /\ stack' = stack /\ writes' = writes /\ plan.before[Head(todo)].base = 2
      \/ /\ Report(Head(todo), "failed", FALSE)
         /\ stack' = new /\ writes' = writes \cup {u}
              /\ stack.view[Head(todo)] # DataViews!Absent /\ plan.before[Head(todo)].base = 2
      \/ /\ Report(Head(todo), "failed", TRUE)
         /\ stack' = stack /\ writes' = writes /\ plan.before[Head(todo)].base # 2
      \/ /\ Report(Head(todo), "failed", TRUE)
         /\ stack' = new /\ writes' = writes \cup {u}
              /\ stack.view[Head(todo)] # DataViews!Absent /\ plan.before[Head(todo)].base # 2
      \/ /\ Goto("verify")
         /\ stack' = new /\ writes' = writes \cup {w}
              /\ stack.view[Head(todo)] # DataViews!Absent
      \/ /\ pc' = pc /\ todo' = todo /\ rows' = rows
         /\ stack' = new /\ writes' = writes \cup {u}
              /\ stack.view[Head(todo)] # DataViews!Absent
  BY DEF DataViews!UpdateMeta, DataViews!Mutate, DataViews!MutateAll, DataViews!Goto, Goto,
     DataViews!Report, Report, DataViews!Row, Row, DataViews!runVars, runVars, Guard,
     DataViews!Write, Write, DataViews!Unanswered, Unanswered, DataViews!PutView
<1>6. /\ w.id = Head(todo) /\ w.answered = TRUE /\ u.id = Head(todo) /\ u.answered = FALSE
      /\ w.asShown = TRUE \/ Unanswers(Head(todo))
  <2>1. (stack.view[Head(todo)]) = ([plan.before[Head(todo)] EXCEPT !.base = 2])
          \/ moved \cap {Head(todo)} # {} \/ Unanswers(Head(todo))
    BY <1>1 DEF IInv, DataViewsInv, Excused
  <2> QED BY <2>1 DEF Write, Unanswered
<1>7. stack.view[Head(todo)] # DataViews!Absent => new \in DataViews!StackType
  <2> SUFFICES ASSUME stack.view[Head(todo)] # DataViews!Absent
                        PROVE new \in DataViews!StackType
    OBVIOUS
  <2>1. stack \in DataViews!StackType /\ Head(todo) \in Ids
    BY <1>2 DEF IInv, TypeOK, StackType
  <2>2. stack.view[Head(todo)] \in DataViews!Contents
    BY <2>1 DEF DataViews!StackType
  <2>3. ([stack.view[Head(todo)] EXCEPT !.meta = 2]) \in DataViews!Contents
          \cup {DataViews!Absent}
    BY <2>2 DEF DataViews!Contents, DataViews!Absent
  <2> QED BY <2>1, <2>3 DEF DataViews!StackType
<1> HIDE DEF w, u, new
<1>8. CASE /\ Report(Head(todo), "failed", FALSE)
           /\ stack' = stack /\ writes' = writes /\ plan.before[Head(todo)].base = 2
  <2>1. stack' \in DataViews!StackType
    BY <1>1, <1>8 DEF IInv, TypeOK, StackType
  <2>2. WritesWhatWasShown'
    BY <1>1, <1>8 DEF IInv, WritesWhatWasShown
  <2>3. Reported
    BY <1>1, <1>2, <1>8, RowWithoutWrite DEF Results, AfterWrite
  <2>4. DataViewsInv'
    BY <1>1, <1>6, <1>8 DEF IInv, DataViewsInv, Excused, Unanswers, Report, Goto
  <2> QED BY <1>1, <1>3, <1>4, <2>1, <2>2, <2>3, <2>4 DEF DataViewsStep, LoopStep
<1>9. CASE /\ Report(Head(todo), "failed", FALSE)
           /\ stack' = new /\ writes' = writes \cup {u}
                /\ stack.view[Head(todo)] # DataViews!Absent
                     /\ plan.before[Head(todo)].base = 2
  <2>1. stack' \in DataViews!StackType
    BY <1>7, <1>9
  <2>2. WritesWhatWasShown'
    BY <1>6, <1>9, ShownWrite DEF IInv
  <2>3. Reported
    BY <1>1, <1>2, <1>6, <1>9, RowOfLostWrite DEF Results, AfterWrite
  <2>4. DataViewsInv'
    BY <1>1, <1>6, <1>9 DEF IInv, DataViewsInv, Excused, Unanswers, Report, Goto
  <2> QED BY <1>1, <1>3, <1>4, <2>1, <2>2, <2>3, <2>4 DEF DataViewsStep, LoopStep
<1>10. CASE /\ Report(Head(todo), "failed", TRUE)
            /\ stack' = stack /\ writes' = writes /\ plan.before[Head(todo)].base # 2
  <2>1. stack' \in DataViews!StackType
    BY <1>1, <1>10 DEF IInv, TypeOK, StackType
  <2>2. WritesWhatWasShown'
    BY <1>1, <1>10 DEF IInv, WritesWhatWasShown
  <2>3. Reported
    BY <1>1, <1>2, <1>10, RowAfterWrite DEF Results, AfterWrite, IInv, LoopInv
  <2>4. DataViewsInv'
    BY <1>1, <1>6, <1>10 DEF IInv, DataViewsInv, Excused, Unanswers, Report, Goto
  <2> QED BY <1>1, <1>3, <1>4, <2>1, <2>2, <2>3, <2>4 DEF DataViewsStep, LoopStep
<1>11. CASE /\ Report(Head(todo), "failed", TRUE)
            /\ stack' = new /\ writes' = writes \cup {u}
                 /\ stack.view[Head(todo)] # DataViews!Absent
                      /\ plan.before[Head(todo)].base # 2
  <2>1. stack' \in DataViews!StackType
    BY <1>7, <1>11
  <2>2. WritesWhatWasShown'
    BY <1>6, <1>11, ShownWrite DEF IInv
  <2>3. Reported
    BY <1>1, <1>2, <1>6, <1>11, RowOfWrite DEF Results, AfterWrite
  <2>4. DataViewsInv'
    BY <1>1, <1>6, <1>11 DEF IInv, DataViewsInv, Excused, Unanswers, Report, Goto
  <2> QED BY <1>1, <1>3, <1>4, <2>1, <2>2, <2>3, <2>4 DEF DataViewsStep, LoopStep
<1>12. CASE /\ Goto("verify")
            /\ stack' = new /\ writes' = writes \cup {w}
                 /\ stack.view[Head(todo)] # DataViews!Absent
  <2>1. stack' \in DataViews!StackType
    BY <1>7, <1>12
  <2>2. WritesWhatWasShown'
    BY <1>6, <1>12, ShownWrite DEF IInv
  <2>3. HandlesOn
    BY <1>1, <1>2, <1>6, <1>12 DEF HandlesOn, Goto, Looping, Ended, Planning, Wholesale,
       Bulk, AfterWrite
  <2>4. DataViewsInv'
    BY <1>1, <1>6, <1>12 DEF IInv, DataViewsInv, Excused, Unanswers, Report, Goto
  <2> QED BY <1>1, <1>3, <1>4, <2>1, <2>2, <2>3, <2>4 DEF DataViewsStep, LoopStep
<1>13. CASE /\ pc' = pc /\ todo' = todo /\ rows' = rows
            /\ stack' = new /\ writes' = writes \cup {u}
                 /\ stack.view[Head(todo)] # DataViews!Absent
  <2>1. stack' \in DataViews!StackType
    BY <1>7, <1>13
  <2>2. WritesWhatWasShown'
    BY <1>6, <1>13, ShownWrite DEF IInv
  <2>3. SendsAgain
    BY <1>1, <1>2, <1>6, <1>13 DEF SendsAgain, runVars, AfterWrite
  <2>4. DataViewsInv'
    BY <1>1, <1>6, <1>13 DEF IInv, DataViewsInv, Excused, Unanswers, Report, Goto
  <2> QED BY <1>1, <1>3, <1>4, <2>1, <2>2, <2>3, <2>4 DEF DataViewsStep, LoopStep
<1> QED BY <1>5, <1>8, <1>9, <1>10, <1>11, <1>12, <1>13

\* The step Verify of a data view command.
LEMMA DataViewsVerify ==
    ASSUME IInv, cmd.family = "data_views", DataViews!Verify
    PROVE  DataViewsStep
<1>1. pc = "verify" /\ UNCHANGED <<cmd, plan, stack, writes, edits>>
  BY DEF DataViews!Verify
<1>2. /\ Looping
      /\ todo # <<>> /\ todo \in Seq(Ids) /\ Head(todo) \in Ids /\ Head(todo) \in Touchable
           /\ ~Planning /\ ~Ended
      /\ cmd.op \notin BulkOps /\ cmd.op # "delete_rules" /\ cmd.op # "set_enabled"
  <2>1. Looping
    BY <1>1 DEF Looping, Ended, Planning, Wholesale
  <2>2. todo # <<>> /\ todo \in Seq(Ids) /\ Head(todo) \in Ids /\ Head(todo) \in Touchable
          /\ ~Planning /\ ~Ended
    BY <2>1, LoopFacts DEF IInv
  <2>3. cmd.op \notin BulkOps /\ cmd.op # "delete_rules" /\ cmd.op # "set_enabled"
    BY DEF IInv, OpOK, BulkOps
  <2> QED BY <2>1, <2>2, <2>3
<1>3. Bounds'
  <2>1. faults' = faults \/ (faults > 0 /\ faults' = faults - 1)
    BY DEF DataViews!Verify, DataViews!Read, DataViews!Checked
  <2>2. moved' \subseteq moved
    BY DEF DataViews!Verify, DataViews!Read, DataViews!Checked
  <2> QED BY <1>1, <2>1, <2>2, BoundsKept, CommandAssumption DEF IInv, TypeOK, Bounds
<1>4. stack' \in DataViews!StackType /\ WritesWhatWasShown' /\ PlanOK'
  BY <1>1 DEF IInv, TypeOK, StackType, WritesWhatWasShown, PlanOK
<1>5. \/ \E res \in {"failed", "created", "replaced"} : Report(Head(todo), res, TRUE)
  BY DEF DataViews!Verify, DataViews!Read, DataViews!Checked, DataViews!Report, Report,
     DataViews!Row, Row, Guard
<1>6. CASE \E res \in {"failed", "created", "replaced"} : Report(Head(todo), res, TRUE)
  <2>1. Reported
    BY <1>1, <1>2, <1>6, RowAfterWrite DEF Results, AfterWrite, IInv, LoopInv
  <2>2. DataViewsInv'
    BY <1>1, <1>6 DEF IInv, DataViewsInv, Report
  <2> QED BY <1>1, <1>3, <1>4, <2>1, <2>2 DEF DataViewsStep, LoopStep
<1> QED BY <1>5, <1>6

\* The step ResolveDelete of a data view command.
LEMMA DataViewsResolveDelete ==
    ASSUME IInv, cmd.family = "data_views", DataViews!ResolveDelete
    PROVE  DataViewsStep
<1>1. pc = "start" /\ cmd.op \in {"delete", "swap"}
        /\ UNCHANGED <<cmd, plan, stack, writes, edits>>
  BY DEF DataViews!ResolveDelete
<1>2. /\ Planning
      /\ rows = {} /\ writes = {} /\ todo \in Seq(Ids)
      /\ cmd.op \notin BulkOps /\ cmd.op # "delete_rules" /\ cmd.op # "set_enabled"
  <2>1. Planning
    BY <1>1 DEF Planning
  <2>2. rows = {} /\ writes = {} /\ todo \in Seq(Ids)
    BY <2>1 DEF IInv, LoopInv, TodoOK, QuietPlanning
  <2>3. cmd.op \notin BulkOps /\ cmd.op # "delete_rules" /\ cmd.op # "set_enabled"
    BY DEF IInv, OpOK, BulkOps
  <2> QED BY <2>1, <2>2, <2>3
<1>3. Bounds'
  <2>1. faults' = faults \/ (faults > 0 /\ faults' = faults - 1)
    BY DEF DataViews!ResolveDelete, DataViews!Read, DataViews!Checked
  <2>2. moved' \subseteq moved
    BY DEF DataViews!ResolveDelete, DataViews!Read, DataViews!Checked
  <2> QED BY <1>1, <2>1, <2>2, BoundsKept, CommandAssumption DEF IInv, TypeOK, Bounds
<1>4. stack' \in DataViews!StackType /\ WritesWhatWasShown' /\ PlanOK'
  BY <1>1 DEF IInv, TypeOK, StackType, WritesWhatWasShown, PlanOK
<1>5. \/ Goto("default")
      \/ Fail
  BY DEF DataViews!ResolveDelete, DataViews!Read, DataViews!Checked, DataViews!Fail, Fail,
     DataViews!Goto, Goto, Report, Row, Guard
<1>6. CASE Goto("default")
  <2>1. PlansOn
    BY <1>1, <1>2, <1>6 DEF PlansOn, Planning, Ended, Wholesale, Goto, Fail
  <2>2. DataViewsInv'
    BY <1>1, <1>6 DEF IInv, DataViewsInv, Goto, Fail
  <2> QED BY <1>1, <1>3, <1>4, <2>1, <2>2 DEF DataViewsStep, LoopStep
<1>7. CASE Fail
  <2>1. PlansOn
    BY <1>1, <1>2, <1>7 DEF PlansOn, Planning, Ended, Wholesale, Goto, Fail
  <2>2. DataViewsInv'
    BY <1>1, <1>7 DEF IInv, DataViewsInv, Goto, Fail
  <2> QED BY <1>1, <1>3, <1>4, <2>1, <2>2 DEF DataViewsStep, LoopStep
<1> QED BY <1>5, <1>6, <1>7

\* The step ReadDefault of a data view command.
LEMMA DataViewsReadDefault ==
    ASSUME IInv, cmd.family = "data_views", DataViews!ReadDefault
    PROVE  DataViewsStep
<1>1. pc = "default" /\ UNCHANGED <<cmd, stack, writes, edits>>
  BY DEF DataViews!ReadDefault
<1>2. /\ Planning
      /\ rows = {} /\ writes = {} /\ todo \in Seq(Ids)
      /\ cmd.op \notin BulkOps /\ cmd.op # "delete_rules" /\ cmd.op # "set_enabled"
  <2>1. Planning
    BY <1>1 DEF Planning
  <2>2. rows = {} /\ writes = {} /\ todo \in Seq(Ids)
    BY <2>1 DEF IInv, LoopInv, TodoOK, QuietPlanning
  <2>3. cmd.op \notin BulkOps /\ cmd.op # "delete_rules" /\ cmd.op # "set_enabled"
    BY DEF IInv, OpOK, BulkOps
  <2> QED BY <2>1, <2>2, <2>3
<1>3. Bounds'
  <2>1. faults' = faults \/ (faults > 0 /\ faults' = faults - 1)
    BY DEF DataViews!ReadDefault, DataViews!Read, DataViews!Checked
  <2>2. moved' \subseteq moved
    BY DEF DataViews!ReadDefault, DataViews!Read, DataViews!Checked
  <2> QED BY <1>1, <2>1, <2>2, BoundsKept, CommandAssumption DEF IInv, TypeOK, Bounds
<1>4. stack' \in DataViews!StackType /\ WritesWhatWasShown'
  BY <1>1 DEF IInv, TypeOK, StackType, WritesWhatWasShown
<1>5. \/ /\ pc' = "references" /\ todo' = Sorted(cmd.targets) /\ rows' = rows
         /\ plan' = [before |-> plan.before, default |-> stack.default]
      \/ Fail /\ plan' = plan
  BY SameOrder DEF DataViews!ReadDefault, DataViews!Read, DataViews!Checked, DataViews!Fail,
     Fail, DataViews!Goto, Goto, Report, Row, Guard
<1>6. CASE /\ pc' = "references" /\ todo' = Sorted(cmd.targets) /\ rows' = rows
           /\ plan' = [before |-> plan.before, default |-> stack.default]
  <2>1. todo' \in Seq(Ids)
    BY <1>1, <1>6, SortedFacts, CommandAssumption DEF IInv, CmdOK, DataViewsInv
  <2>2. PlanOK'
    BY <1>6 DEF IInv, PlanOK
  <2>3. PlansOn
    BY <1>1, <1>2, <2>1, <1>6 DEF PlansOn, Planning, Ended, Wholesale, Goto, Fail
  <2>4. DataViewsInv'
    BY <1>1, <1>6 DEF IInv, DataViewsInv, Goto, Fail
  <2> QED BY <1>1, <1>3, <1>4, <2>1, <2>2, <2>3, <2>4 DEF DataViewsStep, LoopStep
<1>7. CASE Fail /\ plan' = plan
  <2>1. PlanOK'
    BY <1>1, <1>7 DEF IInv, PlanOK
  <2>2. PlansOn
    BY <1>1, <1>2, <1>7 DEF PlansOn, Planning, Ended, Wholesale, Goto, Fail
  <2>3. DataViewsInv'
    BY <1>1, <1>7 DEF IInv, DataViewsInv, Goto, Fail
  <2> QED BY <1>1, <1>3, <1>4, <2>1, <2>2, <2>3 DEF DataViewsStep, LoopStep
<1> QED BY <1>5, <1>6, <1>7

\* The step ReadReferences of a data view command.
LEMMA DataViewsReadReferences ==
    ASSUME IInv, cmd.family = "data_views", DataViews!ReadReferences
    PROVE  DataViewsStep
<1>1. pc = "references" /\ todo # <<>> /\ UNCHANGED <<cmd, stack, writes, edits>>
  BY DEF DataViews!ReadReferences
<1>2. /\ Planning
      /\ rows = {} /\ writes = {} /\ todo \in Seq(Ids)
      /\ Head(todo) \in Ids /\ Tail(todo) \in Seq(Ids)
      /\ cmd.op \notin BulkOps /\ cmd.op # "delete_rules" /\ cmd.op # "set_enabled"
  <2>1. Planning
    BY <1>1 DEF Planning
  <2>2. rows = {} /\ writes = {} /\ todo \in Seq(Ids)
    BY <2>1 DEF IInv, LoopInv, TodoOK, QuietPlanning
  <2>3. Head(todo) \in Ids /\ Tail(todo) \in Seq(Ids)
    BY <1>1, <2>2, TailFacts
  <2>4. cmd.op \notin BulkOps /\ cmd.op # "delete_rules" /\ cmd.op # "set_enabled"
    BY DEF IInv, OpOK, BulkOps
  <2> QED BY <2>1, <2>2, <2>3, <2>4
<1>3. Bounds'
  <2>1. faults' = faults \/ (faults > 0 /\ faults' = faults - 1)
    BY DEF DataViews!ReadReferences, DataViews!Read, DataViews!Checked
  <2>2. moved' \subseteq moved
    BY DEF DataViews!ReadReferences, DataViews!Read, DataViews!Checked
  <2> QED BY <1>1, <2>1, <2>2, BoundsKept, CommandAssumption DEF IInv, TypeOK, Bounds
<1>4. stack' \in DataViews!StackType /\ WritesWhatWasShown'
  BY <1>1 DEF IInv, TypeOK, StackType, WritesWhatWasShown
<1>5. \/ /\ pc' = pc /\ rows' = rows /\ todo' = Tail(todo)
         /\ plan' = [plan EXCEPT !.before
              = DataViews!Noted(@, Head(todo), stack.refs[Head(todo)])]
      \/ Fail /\ plan' = plan
  BY DEF DataViews!ReadReferences, DataViews!Read, DataViews!Checked, DataViews!Fail, Fail,
     DataViews!Goto, Goto, Report, Row, Guard
<1>6. CASE /\ pc' = pc /\ rows' = rows /\ todo' = Tail(todo)
           /\ plan' = [plan EXCEPT !.before
                = DataViews!Noted(@, Head(todo), stack.refs[Head(todo)])]
  <2>1. PlanOK'
    BY <1>1, <1>2, <1>6 DEF IInv, PlanOK, DataViews!Noted
  <2>2. PlansOn
    BY <1>1, <1>2, <1>6 DEF PlansOn, Planning, Ended, Wholesale, Goto, Fail
  <2>3. DataViewsInv'
    BY <1>1, <1>6 DEF IInv, DataViewsInv, Goto, Fail
  <2> QED BY <1>1, <1>3, <1>4, <2>1, <2>2, <2>3 DEF DataViewsStep, LoopStep
<1>7. CASE Fail /\ plan' = plan
  <2>1. PlanOK'
    BY <1>1, <1>7 DEF IInv, PlanOK
  <2>2. PlansOn
    BY <1>1, <1>2, <1>7 DEF PlansOn, Planning, Ended, Wholesale, Goto, Fail
  <2>3. DataViewsInv'
    BY <1>1, <1>7 DEF IInv, DataViewsInv, Goto, Fail
  <2> QED BY <1>1, <1>3, <1>4, <2>1, <2>2, <2>3 DEF DataViewsStep, LoopStep
<1> QED BY <1>5, <1>6, <1>7

\* The step PlanDelete of a data view command.
LEMMA DataViewsPlanDelete ==
    ASSUME IInv, cmd.family = "data_views", DataViews!PlanDelete
    PROVE  DataViewsStep
<1>1. pc = "references" /\ todo = <<>>
        /\ UNCHANGED <<cmd, stack, moved, writes, faults, edits>>
  BY DEF DataViews!PlanDelete
<1>2. /\ Planning
      /\ rows = {} /\ writes = {} /\ todo \in Seq(Ids)
      /\ cmd.op \notin BulkOps /\ cmd.op # "delete_rules" /\ cmd.op # "set_enabled"
  <2>1. Planning
    BY <1>1 DEF Planning
  <2>2. rows = {} /\ writes = {} /\ todo \in Seq(Ids)
    BY <2>1 DEF IInv, LoopInv, TodoOK, QuietPlanning
  <2>3. cmd.op \notin BulkOps /\ cmd.op # "delete_rules" /\ cmd.op # "set_enabled"
    BY DEF IInv, OpOK, BulkOps
  <2> QED BY <2>1, <2>2, <2>3
<1>3. Bounds'
  <2>1. faults' = faults
    BY <1>1
  <2>2. moved' \subseteq moved
    BY <1>1
  <2> QED BY <1>1, <2>1, <2>2, BoundsKept, CommandAssumption DEF IInv, TypeOK, Bounds
<1>4. stack' \in DataViews!StackType /\ WritesWhatWasShown'
  BY <1>1 DEF IInv, TypeOK, StackType, WritesWhatWasShown
<1>5. \/ Fail /\ plan' = plan
      \/ /\ Guard(plan, Sorted(cmd.targets))
         /\ rows' = rows
  BY SameOrder DEF DataViews!PlanDelete, DataViews!Fail, Fail, DataViews!Goto, Goto, Report,
     Row, DataViews!Guard, Guard
<1>6. CASE Fail /\ plan' = plan
  <2>1. PlanOK'
    BY <1>1, <1>6 DEF IInv, PlanOK
  <2>2. PlansOn
    BY <1>1, <1>2, <1>6 DEF PlansOn, Planning, Ended, Wholesale, Goto, Fail
  <2>3. DataViewsInv'
    BY <1>1, <1>6 DEF IInv, DataViewsInv, Goto, Fail
  <2> QED BY <1>1, <1>3, <1>4, <2>1, <2>2, <2>3 DEF DataViewsStep, LoopStep
<1>7. CASE /\ Guard(plan, Sorted(cmd.targets))
           /\ rows' = rows
  <2>1. cmd.targets \in SUBSET Ids /\ cmd.targets \subseteq Touchable /\ cmd.yes \in BOOLEAN
    BY <1>1, <1>2 DEF IInv, CmdOK, DataViewsInv, Touchable
  <2>2. /\ Guarded /\ plan' = plan /\ pc' \in {"check", "done"}
        /\ pc' = "check" => Range(todo') = cmd.targets
    BY <1>1, <1>2, <2>1, <1>7, SortedGuard, CommandAssumption
  <2>3. PlanOK'
    BY <1>1, <2>1, <2>2 DEF IInv, PlanOK, CmdOK
  <2>4. DataViewsInv'
    BY <1>1, <2>2 DEF DataViewsInv
  <2> QED BY <1>1, <1>3, <1>4, <2>1, <2>2, <2>3, <2>4 DEF DataViewsStep, LoopStep
<1> QED BY <1>5, <1>6, <1>7

\* The step CheckReferences of a data view command.
LEMMA DataViewsCheckReferences ==
    ASSUME IInv, cmd.family = "data_views", DataViews!CheckReferences
    PROVE  DataViewsStep
<1>1. pc = "check" /\ cmd.op \in {"delete", "swap"}
        /\ UNCHANGED <<cmd, plan, stack, writes, edits>>
  BY DEF DataViews!CheckReferences
<1>2. /\ Looping
      /\ todo # <<>> /\ todo \in Seq(Ids) /\ Head(todo) \in Ids /\ Head(todo) \in Touchable
           /\ ~Planning /\ ~Ended
      /\ cmd.op \notin BulkOps /\ cmd.op # "delete_rules" /\ cmd.op # "set_enabled"
  <2>1. Looping
    BY <1>1 DEF Looping, Ended, Planning, Wholesale
  <2>2. todo # <<>> /\ todo \in Seq(Ids) /\ Head(todo) \in Ids /\ Head(todo) \in Touchable
          /\ ~Planning /\ ~Ended
    BY <2>1, LoopFacts DEF IInv
  <2>3. cmd.op \notin BulkOps /\ cmd.op # "delete_rules" /\ cmd.op # "set_enabled"
    BY DEF IInv, OpOK, BulkOps
  <2> QED BY <2>1, <2>2, <2>3
<1>3. Bounds'
  <2>1. faults' = faults \/ (faults > 0 /\ faults' = faults - 1)
    BY DEF DataViews!CheckReferences, DataViews!Read, DataViews!Checked
  <2>2. moved' \subseteq moved
    BY DEF DataViews!CheckReferences, DataViews!Read, DataViews!Checked
  <2> QED BY <1>1, <2>1, <2>2, BoundsKept, CommandAssumption DEF IInv, TypeOK, Bounds
<1>4. stack' \in DataViews!StackType /\ WritesWhatWasShown' /\ PlanOK'
  BY <1>1 DEF IInv, TypeOK, StackType, WritesWhatWasShown, PlanOK
<1>5. \/ Report(Head(todo), "failed", FALSE)
      \/ /\ Goto("check_default")
         /\ stack.refs[Head(todo)] = plan.before[Head(todo)]
  BY DEF DataViews!CheckReferences, DataViews!Read, DataViews!Checked, DataViews!Goto, Goto,
     DataViews!Report, Report, DataViews!Row, Row, Guard
<1>6. CASE Report(Head(todo), "failed", FALSE)
  <2>1. Reported
    BY <1>1, <1>2, <1>6, RowWithoutWrite DEF Results, AfterWrite
  <2>2. DataViewsInv'
    BY <1>1, <1>6 DEF IInv, DataViewsInv, Report
  <2> QED BY <1>1, <1>3, <1>4, <2>1, <2>2 DEF DataViewsStep, LoopStep
<1>7. CASE /\ Goto("check_default")
           /\ stack.refs[Head(todo)] = plan.before[Head(todo)]
  <2>1. HandlesOn
    BY <1>1, <1>2, <1>7 DEF HandlesOn, Goto, Looping, Ended, Planning, Wholesale, Bulk,
       AfterWrite
  <2>2. DataViewsInv'
    BY <1>1, <1>7 DEF IInv, DataViewsInv, Goto, Excused, Unanswers
  <2> QED BY <1>1, <1>3, <1>4, <2>1, <2>2 DEF DataViewsStep, LoopStep
<1> QED BY <1>5, <1>6, <1>7

\* The step CheckDefault of a data view command.
LEMMA DataViewsCheckDefault ==
    ASSUME IInv, cmd.family = "data_views", DataViews!CheckDefault
    PROVE  DataViewsStep
<1>1. pc = "check_default" /\ UNCHANGED <<cmd, plan, stack, writes, edits>>
  BY DEF DataViews!CheckDefault, DataViews!None
<1>2. /\ Looping
      /\ todo # <<>> /\ todo \in Seq(Ids) /\ Head(todo) \in Ids /\ Head(todo) \in Touchable
           /\ ~Planning /\ ~Ended
      /\ cmd.op \notin BulkOps /\ cmd.op # "delete_rules" /\ cmd.op # "set_enabled"
  <2>1. Looping
    BY <1>1 DEF Looping, Ended, Planning, Wholesale
  <2>2. todo # <<>> /\ todo \in Seq(Ids) /\ Head(todo) \in Ids /\ Head(todo) \in Touchable
          /\ ~Planning /\ ~Ended
    BY <2>1, LoopFacts DEF IInv
  <2>3. cmd.op \notin BulkOps /\ cmd.op # "delete_rules" /\ cmd.op # "set_enabled"
    BY DEF IInv, OpOK, BulkOps
  <2> QED BY <2>1, <2>2, <2>3
<1>3. Bounds'
  <2>1. faults' = faults \/ (faults > 0 /\ faults' = faults - 1)
    BY DEF DataViews!CheckDefault, DataViews!Read, DataViews!Checked, DataViews!None
  <2>2. moved' \subseteq moved
    BY DEF DataViews!CheckDefault, DataViews!Read, DataViews!Checked, DataViews!None
  <2> QED BY <1>1, <2>1, <2>2, BoundsKept, CommandAssumption DEF IInv, TypeOK, Bounds
<1>4. stack' \in DataViews!StackType /\ WritesWhatWasShown' /\ PlanOK'
  BY <1>1 DEF IInv, TypeOK, StackType, WritesWhatWasShown, PlanOK
<1>5. \/ Report(Head(todo), "failed", FALSE)
      \/ /\ Goto(cmd.op)
         /\ stack.default = plan.default /\ moved' = moved \ {0}
  BY DEF DataViews!CheckDefault, DataViews!Read, DataViews!Checked, DataViews!Goto, Goto,
     DataViews!Report, Report, DataViews!Row, Row, Guard, DataViews!None
<1>6. CASE Report(Head(todo), "failed", FALSE)
  <2>1. Reported
    BY <1>1, <1>2, <1>6, RowWithoutWrite DEF Results, AfterWrite
  <2>2. DataViewsInv'
    BY <1>1, <1>6 DEF IInv, DataViewsInv, Report
  <2> QED BY <1>1, <1>3, <1>4, <2>1, <2>2 DEF DataViewsStep, LoopStep
<1>7. CASE /\ Goto(cmd.op)
           /\ stack.default = plan.default /\ moved' = moved \ {0}
  <2>1. cmd.op \in {"delete", "swap"} /\ Head(todo) # 0
    BY <1>1, <1>2, CommandAssumption DEF IInv, DataViewsInv, CommandAssumption
  <2>2. moved \cap {Head(todo)} # {} => moved' \cap {Head(todo)} # {}
    BY <2>1, <1>7
  <2>3. HandlesOn
    BY <1>1, <1>2, <2>1, <1>7 DEF HandlesOn, Goto, Looping, Ended, Planning, Wholesale,
       Bulk, AfterWrite
  <2>4. DataViewsInv'
    BY <1>1, <2>1, <2>2, <1>7 DEF IInv, DataViewsInv, Goto, Excused, Unanswers
  <2> QED BY <1>1, <1>3, <1>4, <2>1, <2>2, <2>3, <2>4 DEF DataViewsStep, LoopStep
<1> QED BY <1>5, <1>6, <1>7

\* The step Delete of a data view command.
LEMMA DataViewsDelete ==
    ASSUME IInv, cmd.family = "data_views", DataViews!Delete
    PROVE  DataViewsStep
<1> DEFINE w == Write(Head(todo), <<plan.before[Head(todo)],
             plan.default>>, <<stack.refs[Head(todo)], stack.default>>, {Head(todo), 0})
           u == Unanswered(w)
           new == [stack EXCEPT !.view[Head(todo)] = DataViews!Absent]
<1>1. pc = "delete" /\ UNCHANGED <<cmd, plan, moved, edits>>
  BY DEF DataViews!Delete, DataViews!ShownFacts, DataViews!Facts, DataViews!None
<1>2. /\ Looping
      /\ todo # <<>> /\ todo \in Seq(Ids) /\ Head(todo) \in Ids /\ Head(todo) \in Touchable
           /\ ~Planning /\ ~Ended
      /\ cmd.op \notin BulkOps /\ cmd.op # "delete_rules" /\ cmd.op # "set_enabled"
  <2>1. Looping
    BY <1>1 DEF Looping, Ended, Planning, Wholesale
  <2>2. todo # <<>> /\ todo \in Seq(Ids) /\ Head(todo) \in Ids /\ Head(todo) \in Touchable
          /\ ~Planning /\ ~Ended
    BY <2>1, LoopFacts DEF IInv
  <2>3. cmd.op \notin BulkOps /\ cmd.op # "delete_rules" /\ cmd.op # "set_enabled"
    BY DEF IInv, OpOK, BulkOps
  <2> QED BY <2>1, <2>2, <2>3
<1>3. Bounds'
  <2>1. faults' = faults \/ (faults > 0 /\ faults' = faults - 1)
    BY DEF DataViews!Delete, DataViews!Mutate, DataViews!MutateAll, DataViews!ShownFacts,
       DataViews!Facts, DataViews!None
  <2>2. moved' \subseteq moved
    BY <1>1
  <2> QED BY <1>1, <2>1, <2>2, BoundsKept, CommandAssumption DEF IInv, TypeOK, Bounds
<1>4. PlanOK'
  BY <1>1 DEF IInv, PlanOK
<1>5. \/ /\ Report(Head(todo), "failed", FALSE)
         /\ stack' = stack /\ writes' = writes
      \/ /\ Report(Head(todo), "failed", FALSE)
         /\ stack' = new /\ writes' = writes \cup {u}
              /\ stack.view[Head(todo)] # DataViews!Absent
      \/ /\ Report(Head(todo), "deleted", TRUE)
         /\ stack' = new /\ writes' = writes \cup {w}
              /\ stack.view[Head(todo)] # DataViews!Absent
      \/ /\ pc' = pc /\ todo' = todo /\ rows' = rows
         /\ stack' = new /\ writes' = writes \cup {u}
              /\ stack.view[Head(todo)] # DataViews!Absent
  BY DEF DataViews!Delete, DataViews!Mutate, DataViews!MutateAll, DataViews!Report, Report,
     DataViews!Row, Row, DataViews!runVars, runVars, Guard, DataViews!Write, Write,
     DataViews!Unanswered, Unanswered, DataViews!ShownFacts, DataViews!Facts, DataViews!None
<1>6. /\ w.id = Head(todo) /\ w.answered = TRUE /\ u.id = Head(todo) /\ u.answered = FALSE
      /\ w.asShown = TRUE \/ Unanswers(Head(todo))
  <2>1. (<<stack.refs[Head(todo)], stack.default>>)
          = (<<plan.before[Head(todo)], plan.default>>) \/ moved \cap {Head(todo), 0} # {}
            \/ Unanswers(Head(todo))
    BY <1>1 DEF IInv, DataViewsInv, Excused
  <2> QED BY <2>1 DEF Write, Unanswered
<1>7. stack.view[Head(todo)] # DataViews!Absent => new \in DataViews!StackType
  <2>1. stack \in DataViews!StackType
    BY DEF IInv, TypeOK, StackType
  <2> QED BY <1>2, <2>1 DEF DataViews!StackType
<1> HIDE DEF w, u, new
<1>8. CASE /\ Report(Head(todo), "failed", FALSE)
           /\ stack' = stack /\ writes' = writes
  <2>1. stack' \in DataViews!StackType
    BY <1>1, <1>8 DEF IInv, TypeOK, StackType
  <2>2. WritesWhatWasShown'
    BY <1>1, <1>8 DEF IInv, WritesWhatWasShown
  <2>3. Reported
    BY <1>1, <1>2, <1>8, RowWithoutWrite DEF Results, AfterWrite
  <2>4. DataViewsInv'
    BY <1>1, <1>6, <1>8 DEF IInv, DataViewsInv, Excused, Unanswers, Report
  <2> QED BY <1>1, <1>3, <1>4, <2>1, <2>2, <2>3, <2>4 DEF DataViewsStep, LoopStep
<1>9. CASE /\ Report(Head(todo), "failed", FALSE)
           /\ stack' = new /\ writes' = writes \cup {u}
                /\ stack.view[Head(todo)] # DataViews!Absent
  <2>1. stack' \in DataViews!StackType
    BY <1>7, <1>9
  <2>2. WritesWhatWasShown'
    BY <1>6, <1>9, ShownWrite DEF IInv
  <2>3. Reported
    BY <1>1, <1>2, <1>6, <1>9, RowOfLostWrite DEF Results, AfterWrite
  <2>4. DataViewsInv'
    BY <1>1, <1>6, <1>9 DEF IInv, DataViewsInv, Excused, Unanswers, Report
  <2> QED BY <1>1, <1>3, <1>4, <2>1, <2>2, <2>3, <2>4 DEF DataViewsStep, LoopStep
<1>10. CASE /\ Report(Head(todo), "deleted", TRUE)
            /\ stack' = new /\ writes' = writes \cup {w}
                 /\ stack.view[Head(todo)] # DataViews!Absent
  <2>1. stack' \in DataViews!StackType
    BY <1>7, <1>10
  <2>2. WritesWhatWasShown'
    BY <1>6, <1>10, ShownWrite DEF IInv
  <2>3. Reported
    BY <1>1, <1>2, <1>6, <1>10, RowOfWrite DEF Results, AfterWrite
  <2>4. DataViewsInv'
    BY <1>1, <1>6, <1>10 DEF IInv, DataViewsInv, Excused, Unanswers, Report
  <2> QED BY <1>1, <1>3, <1>4, <2>1, <2>2, <2>3, <2>4 DEF DataViewsStep, LoopStep
<1>11. CASE /\ pc' = pc /\ todo' = todo /\ rows' = rows
            /\ stack' = new /\ writes' = writes \cup {u}
                 /\ stack.view[Head(todo)] # DataViews!Absent
  <2>1. stack' \in DataViews!StackType
    BY <1>7, <1>11
  <2>2. WritesWhatWasShown'
    BY <1>6, <1>11, ShownWrite DEF IInv
  <2>3. SendsAgain
    BY <1>1, <1>2, <1>6, <1>11 DEF SendsAgain, runVars, AfterWrite
  <2>4. DataViewsInv'
    BY <1>1, <1>6, <1>11 DEF IInv, DataViewsInv, Excused, Unanswers, Report
  <2> QED BY <1>1, <1>3, <1>4, <2>1, <2>2, <2>3, <2>4 DEF DataViewsStep, LoopStep
<1> QED BY <1>5, <1>8, <1>9, <1>10, <1>11

\* The step Swap of a data view command.
LEMMA DataViewsSwap ==
    ASSUME IInv, cmd.family = "data_views", DataViews!Swap
    PROVE  DataViewsStep
<1> DEFINE w == Write(Head(todo), <<plan.before[Head(todo)],
             plan.default>>, <<stack.refs[Head(todo)], stack.default>>, {Head(todo), 0})
           u == Unanswered(w)
           new == [stack EXCEPT !.view[Head(todo)] = DataViews!Absent, !.refs[Head(todo)]
             = {}, !.refs[cmd.by] = @ \cup stack.refs[Head(todo)]]
           moves == [stack EXCEPT !.refs[Head(todo)] = {}, !.refs[cmd.by] = @
             \cup stack.refs[Head(todo)]]
<1>1. pc = "swap" /\ UNCHANGED <<cmd, plan, moved, edits>>
  BY DEF DataViews!Swap, DataViews!ShownFacts, DataViews!Facts, DataViews!None
<1>2. /\ Looping
      /\ todo # <<>> /\ todo \in Seq(Ids) /\ Head(todo) \in Ids /\ Head(todo) \in Touchable
           /\ ~Planning /\ ~Ended
      /\ cmd.op \notin BulkOps /\ cmd.op # "delete_rules" /\ cmd.op # "set_enabled"
  <2>1. Looping
    BY <1>1 DEF Looping, Ended, Planning, Wholesale
  <2>2. todo # <<>> /\ todo \in Seq(Ids) /\ Head(todo) \in Ids /\ Head(todo) \in Touchable
          /\ ~Planning /\ ~Ended
    BY <2>1, LoopFacts DEF IInv
  <2>3. cmd.op \notin BulkOps /\ cmd.op # "delete_rules" /\ cmd.op # "set_enabled"
    BY DEF IInv, OpOK, BulkOps
  <2> QED BY <2>1, <2>2, <2>3
<1>3. Bounds'
  <2>1. faults' = faults \/ (faults > 0 /\ faults' = faults - 1)
    BY DEF DataViews!Swap, DataViews!Mutate, DataViews!MutateAll, DataViews!ShownFacts,
       DataViews!Facts, DataViews!None
  <2>2. moved' \subseteq moved
    BY <1>1
  <2> QED BY <1>1, <2>1, <2>2, BoundsKept, CommandAssumption DEF IInv, TypeOK, Bounds
<1>4. PlanOK'
  BY <1>1 DEF IInv, PlanOK
<1>5. \/ /\ Report(Head(todo), "failed", FALSE)
         /\ stack' = stack /\ writes' = writes
      \/ /\ Report(Head(todo), "failed", FALSE)
         /\ stack' = new /\ writes' = writes \cup {u}
              /\ stack.view[Head(todo)] # DataViews!Absent
      \/ /\ Goto("reread_default")
         /\ stack' = new /\ writes' = writes \cup {w}
              /\ stack.view[Head(todo)] # DataViews!Absent
      \/ /\ Report(Head(todo), "deleted", TRUE)
         /\ stack' = new /\ writes' = writes \cup {w}
              /\ stack.view[Head(todo)] # DataViews!Absent
      \/ /\ Report(Head(todo), "failed", FALSE)
         /\ stack' = moves /\ writes' = writes \cup {w}
      \/ /\ Report(Head(todo), "failed", FALSE)
         /\ stack' = moves /\ writes' = writes \cup {u}
      \/ /\ pc' = pc /\ todo' = todo /\ rows' = rows
         /\ stack' = new /\ writes' = writes \cup {u}
              /\ stack.view[Head(todo)] # DataViews!Absent
  BY DEF DataViews!Swap, DataViews!Mutate, DataViews!MutateAll, DataViews!Goto, Goto,
     DataViews!Report, Report, DataViews!Row, Row, DataViews!runVars, runVars, Guard,
     DataViews!Write, Write, DataViews!Unanswered, Unanswered, DataViews!ShownFacts,
     DataViews!Facts, DataViews!None
<1>6. /\ w.id = Head(todo) /\ w.answered = TRUE /\ u.id = Head(todo) /\ u.answered = FALSE
      /\ w.asShown = TRUE \/ Unanswers(Head(todo))
  <2>1. (<<stack.refs[Head(todo)], stack.default>>)
          = (<<plan.before[Head(todo)], plan.default>>) \/ moved \cap {Head(todo), 0} # {}
            \/ Unanswers(Head(todo))
    BY <1>1 DEF IInv, DataViewsInv, Excused
  <2> QED BY <2>1 DEF Write, Unanswered
<1>7. stack.view[Head(todo)] # DataViews!Absent => new \in DataViews!StackType
  <2>1. stack \in DataViews!StackType /\ cmd.by \in Ids
    BY <1>1 DEF IInv, TypeOK, StackType, CmdOK, DataViewsInv
  <2> QED BY <1>2, <2>1 DEF DataViews!StackType
<1>8. moves \in DataViews!StackType
  <2>1. stack \in DataViews!StackType /\ cmd.by \in Ids
    BY <1>1 DEF IInv, TypeOK, StackType, CmdOK, DataViewsInv
  <2> QED BY <1>2, <2>1 DEF DataViews!StackType
<1>9. cmd.op = "swap" /\ cmd.family = "data_views"
  BY <1>1 DEF IInv, DataViewsInv
<1> HIDE DEF w, u, new, moves
<1>10. CASE /\ Report(Head(todo), "failed", FALSE)
            /\ stack' = stack /\ writes' = writes
  <2>1. stack' \in DataViews!StackType
    BY <1>1, <1>10 DEF IInv, TypeOK, StackType
  <2>2. WritesWhatWasShown'
    BY <1>1, <1>10 DEF IInv, WritesWhatWasShown
  <2>3. Reported
    BY <1>1, <1>2, <1>10, RowWithoutWrite DEF Results, AfterWrite
  <2>4. DataViewsInv'
    BY <1>1, <1>6, <1>10 DEF IInv, DataViewsInv, Excused, Unanswers, Report, Goto
  <2> QED BY <1>1, <1>3, <1>4, <2>1, <2>2, <2>3, <2>4 DEF DataViewsStep, LoopStep
<1>11. CASE /\ Report(Head(todo), "failed", FALSE)
            /\ stack' = new /\ writes' = writes \cup {u}
                 /\ stack.view[Head(todo)] # DataViews!Absent
  <2>1. stack' \in DataViews!StackType
    BY <1>7, <1>11
  <2>2. WritesWhatWasShown'
    BY <1>6, <1>11, ShownWrite DEF IInv
  <2>3. Reported
    BY <1>1, <1>2, <1>6, <1>11, RowOfLostWrite DEF Results, AfterWrite
  <2>4. DataViewsInv'
    BY <1>1, <1>6, <1>11 DEF IInv, DataViewsInv, Excused, Unanswers, Report, Goto
  <2> QED BY <1>1, <1>3, <1>4, <2>1, <2>2, <2>3, <2>4 DEF DataViewsStep, LoopStep
<1>12. CASE /\ Goto("reread_default")
            /\ stack' = new /\ writes' = writes \cup {w}
                 /\ stack.view[Head(todo)] # DataViews!Absent
  <2>1. stack' \in DataViews!StackType
    BY <1>7, <1>12
  <2>2. WritesWhatWasShown'
    BY <1>6, <1>12, ShownWrite DEF IInv
  <2>3. HandlesOn
    BY <1>1, <1>2, <1>6, <1>12 DEF HandlesOn, Goto, Looping, Ended, Planning, Wholesale,
       Bulk, AfterWrite
  <2>4. DataViewsInv'
    BY <1>1, <1>6, <1>12 DEF IInv, DataViewsInv, Excused, Unanswers, Report, Goto
  <2> QED BY <1>1, <1>3, <1>4, <2>1, <2>2, <2>3, <2>4 DEF DataViewsStep, LoopStep
<1>13. CASE /\ Report(Head(todo), "deleted", TRUE)
            /\ stack' = new /\ writes' = writes \cup {w}
                 /\ stack.view[Head(todo)] # DataViews!Absent
  <2>1. stack' \in DataViews!StackType
    BY <1>7, <1>13
  <2>2. WritesWhatWasShown'
    BY <1>6, <1>13, ShownWrite DEF IInv
  <2>3. Reported
    BY <1>1, <1>2, <1>6, <1>13, RowOfWrite DEF Results, AfterWrite
  <2>4. DataViewsInv'
    BY <1>1, <1>6, <1>13 DEF IInv, DataViewsInv, Excused, Unanswers, Report, Goto
  <2> QED BY <1>1, <1>3, <1>4, <2>1, <2>2, <2>3, <2>4 DEF DataViewsStep, LoopStep
<1>14. CASE /\ Report(Head(todo), "failed", FALSE)
            /\ stack' = moves /\ writes' = writes \cup {w}
  <2>1. stack' \in DataViews!StackType
    BY <1>8, <1>14
  <2>2. WritesWhatWasShown'
    BY <1>6, <1>14, ShownWrite DEF IInv
  <2>3. Reported
    BY <1>1, <1>2, <1>6, <1>9, <1>14, RowReported DEF Results, AfterWrite, SaysUntouched, Row
  <2>4. DataViewsInv'
    BY <1>1, <1>6, <1>14 DEF IInv, DataViewsInv, Excused, Unanswers, Report, Goto
  <2> QED BY <1>1, <1>3, <1>4, <2>1, <2>2, <2>3, <2>4 DEF DataViewsStep, LoopStep
<1>15. CASE /\ Report(Head(todo), "failed", FALSE)
            /\ stack' = moves /\ writes' = writes \cup {u}
  <2>1. stack' \in DataViews!StackType
    BY <1>8, <1>15
  <2>2. WritesWhatWasShown'
    BY <1>6, <1>15, ShownWrite DEF IInv
  <2>3. Reported
    BY <1>1, <1>2, <1>6, <1>15, RowOfLostWrite DEF Results, AfterWrite
  <2>4. DataViewsInv'
    BY <1>1, <1>6, <1>15 DEF IInv, DataViewsInv, Excused, Unanswers, Report, Goto
  <2> QED BY <1>1, <1>3, <1>4, <2>1, <2>2, <2>3, <2>4 DEF DataViewsStep, LoopStep
<1>16. CASE /\ pc' = pc /\ todo' = todo /\ rows' = rows
            /\ stack' = new /\ writes' = writes \cup {u}
                 /\ stack.view[Head(todo)] # DataViews!Absent
  <2>1. stack' \in DataViews!StackType
    BY <1>7, <1>16
  <2>2. WritesWhatWasShown'
    BY <1>6, <1>16, ShownWrite DEF IInv
  <2>3. SendsAgain
    BY <1>1, <1>2, <1>6, <1>16 DEF SendsAgain, runVars, AfterWrite
  <2>4. DataViewsInv'
    BY <1>1, <1>6, <1>16 DEF IInv, DataViewsInv, Excused, Unanswers, Report, Goto
  <2> QED BY <1>1, <1>3, <1>4, <2>1, <2>2, <2>3, <2>4 DEF DataViewsStep, LoopStep
<1> QED BY <1>5, <1>10, <1>11, <1>12, <1>13, <1>14, <1>15, <1>16

\* The step RereadDefault of a data view command.
LEMMA DataViewsRereadDefault ==
    ASSUME IInv, cmd.family = "data_views", DataViews!RereadDefault
    PROVE  DataViewsStep
<1>1. pc = "reread_default" /\ UNCHANGED <<cmd, plan, stack, writes, edits>>
  BY DEF DataViews!RereadDefault
<1>2. /\ Looping
      /\ todo # <<>> /\ todo \in Seq(Ids) /\ Head(todo) \in Ids /\ Head(todo) \in Touchable
           /\ ~Planning /\ ~Ended
      /\ cmd.op \notin BulkOps /\ cmd.op # "delete_rules" /\ cmd.op # "set_enabled"
  <2>1. Looping
    BY <1>1 DEF Looping, Ended, Planning, Wholesale
  <2>2. todo # <<>> /\ todo \in Seq(Ids) /\ Head(todo) \in Ids /\ Head(todo) \in Touchable
          /\ ~Planning /\ ~Ended
    BY <2>1, LoopFacts DEF IInv
  <2>3. cmd.op \notin BulkOps /\ cmd.op # "delete_rules" /\ cmd.op # "set_enabled"
    BY DEF IInv, OpOK, BulkOps
  <2> QED BY <2>1, <2>2, <2>3
<1>3. Bounds'
  <2>1. faults' = faults \/ (faults > 0 /\ faults' = faults - 1)
    BY DEF DataViews!RereadDefault, DataViews!Read, DataViews!Checked
  <2>2. moved' \subseteq moved
    BY DEF DataViews!RereadDefault, DataViews!Read, DataViews!Checked
  <2> QED BY <1>1, <2>1, <2>2, BoundsKept, CommandAssumption DEF IInv, TypeOK, Bounds
<1>4. stack' \in DataViews!StackType /\ WritesWhatWasShown' /\ PlanOK'
  BY <1>1 DEF IInv, TypeOK, StackType, WritesWhatWasShown, PlanOK
<1>5. \/ \E res \in {"failed", "deleted"} : Report(Head(todo), res, TRUE)
      \/ /\ Goto("move_default")
         /\ stack.default = Head(todo)
  BY DEF DataViews!RereadDefault, DataViews!Read, DataViews!Checked, DataViews!Goto, Goto,
     DataViews!Report, Report, DataViews!Row, Row, Guard
<1>6. CASE \E res \in {"failed", "deleted"} : Report(Head(todo), res, TRUE)
  <2>1. Reported
    BY <1>1, <1>2, <1>6, RowAfterWrite DEF Results, AfterWrite, IInv, LoopInv
  <2>2. DataViewsInv'
    BY <1>1, <1>6 DEF IInv, DataViewsInv, Report
  <2> QED BY <1>1, <1>3, <1>4, <2>1, <2>2 DEF DataViewsStep, LoopStep
<1>7. CASE /\ Goto("move_default")
           /\ stack.default = Head(todo)
  <2>1. HandlesOn
    BY <1>1, <1>2, <1>7 DEF HandlesOn, Goto, Looping, Ended, Planning, Wholesale, Bulk,
       AfterWrite, IInv, LoopInv, HeadWritten
  <2>2. DataViewsInv'
    BY <1>1, <1>7 DEF IInv, DataViewsInv, Goto, Excused, Unanswers
  <2> QED BY <1>1, <1>3, <1>4, <2>1, <2>2 DEF DataViewsStep, LoopStep
<1> QED BY <1>5, <1>6, <1>7

\* The step MoveDefault of a data view command.
LEMMA DataViewsMoveDefault ==
    ASSUME IInv, cmd.family = "data_views", DataViews!MoveDefault
    PROVE  DataViewsStep
<1> DEFINE w == Write(0, Head(todo), stack.default, {0})
           u == Unanswered(w)
           new == [stack EXCEPT !.default = cmd.by]
<1>1. pc = "move_default" /\ UNCHANGED <<cmd, plan, moved, edits>>
  BY DEF DataViews!MoveDefault, DataViews!None
<1>2. /\ Looping
      /\ todo # <<>> /\ todo \in Seq(Ids) /\ Head(todo) \in Ids /\ Head(todo) \in Touchable
           /\ ~Planning /\ ~Ended
      /\ cmd.op \notin BulkOps /\ cmd.op # "delete_rules" /\ cmd.op # "set_enabled"
  <2>1. Looping
    BY <1>1 DEF Looping, Ended, Planning, Wholesale
  <2>2. todo # <<>> /\ todo \in Seq(Ids) /\ Head(todo) \in Ids /\ Head(todo) \in Touchable
          /\ ~Planning /\ ~Ended
    BY <2>1, LoopFacts DEF IInv
  <2>3. cmd.op \notin BulkOps /\ cmd.op # "delete_rules" /\ cmd.op # "set_enabled"
    BY DEF IInv, OpOK, BulkOps
  <2> QED BY <2>1, <2>2, <2>3
<1>3. Bounds'
  <2>1. faults' = faults \/ (faults > 0 /\ faults' = faults - 1)
    BY DEF DataViews!MoveDefault, DataViews!Mutate, DataViews!MutateAll, DataViews!None
  <2>2. moved' \subseteq moved
    BY <1>1
  <2> QED BY <1>1, <2>1, <2>2, BoundsKept, CommandAssumption DEF IInv, TypeOK, Bounds
<1>4. PlanOK'
  BY <1>1 DEF IInv, PlanOK
<1>5. \/ /\ Report(Head(todo), "failed", TRUE)
         /\ stack' = stack /\ writes' = writes
      \/ /\ Report(Head(todo), "failed", TRUE)
         /\ stack' = new /\ writes' = writes \cup {u}
      \/ /\ Report(Head(todo), "deleted", TRUE)
         /\ stack' = new /\ writes' = writes \cup {w}
      \/ /\ pc' = pc /\ todo' = todo /\ rows' = rows
         /\ stack' = new /\ writes' = writes \cup {u}
  BY DEF DataViews!MoveDefault, DataViews!Mutate, DataViews!MutateAll, DataViews!Report,
     Report, DataViews!Row, Row, DataViews!runVars, runVars, Guard, DataViews!Write, Write,
     DataViews!Unanswered, Unanswered, DataViews!None
<1>6. /\ w.id = 0 /\ w.answered = TRUE /\ u.id = 0 /\ u.answered = FALSE
      /\ w.asShown = TRUE \/ Unanswers(0)
  <2>1. (stack.default) = (Head(todo)) \/ moved \cap {0} # {} \/ Unanswers(0)
    BY <1>1 DEF IInv, DataViewsInv, Excused
  <2> QED BY <2>1 DEF Write, Unanswered
<1>7. TRUE => new \in DataViews!StackType
  <2>1. stack \in DataViews!StackType /\ cmd.by \in Ids
    BY <1>1 DEF IInv, TypeOK, StackType, CmdOK, DataViewsInv
  <2> QED BY <1>2, <2>1 DEF DataViews!StackType
<1>8. 0 \in Touchable
  BY <1>1 DEF IInv, DataViewsInv, Touchable
<1> HIDE DEF w, u, new
<1>9. CASE /\ Report(Head(todo), "failed", TRUE)
           /\ stack' = stack /\ writes' = writes
  <2>1. stack' \in DataViews!StackType
    BY <1>1, <1>9 DEF IInv, TypeOK, StackType
  <2>2. WritesWhatWasShown'
    BY <1>1, <1>9 DEF IInv, WritesWhatWasShown
  <2>3. Reported
    BY <1>1, <1>2, <1>9, RowAfterWrite DEF Results, AfterWrite, IInv, LoopInv
  <2>4. DataViewsInv'
    BY <1>1, <1>6, <1>9 DEF IInv, DataViewsInv, Excused, Unanswers, Report
  <2> QED BY <1>1, <1>3, <1>4, <2>1, <2>2, <2>3, <2>4 DEF DataViewsStep, LoopStep
<1>10. CASE /\ Report(Head(todo), "failed", TRUE)
            /\ stack' = new /\ writes' = writes \cup {u}
  <2>1. stack' \in DataViews!StackType
    BY <1>7, <1>10
  <2>2. WritesWhatWasShown'
    BY <1>6, <1>10, ShownWrite DEF IInv
  <2>3. Reported
    BY <1>1, <1>2, <1>6, <1>8, <1>10, RowOfZero DEF Results, AfterWrite, IInv, LoopInv
  <2>4. DataViewsInv'
    BY <1>1, <1>6, <1>10 DEF IInv, DataViewsInv, Excused, Unanswers, Report
  <2> QED BY <1>1, <1>3, <1>4, <2>1, <2>2, <2>3, <2>4 DEF DataViewsStep, LoopStep
<1>11. CASE /\ Report(Head(todo), "deleted", TRUE)
            /\ stack' = new /\ writes' = writes \cup {w}
  <2>1. stack' \in DataViews!StackType
    BY <1>7, <1>11
  <2>2. WritesWhatWasShown'
    BY <1>6, <1>11, ShownWrite DEF IInv
  <2>3. Reported
    BY <1>1, <1>2, <1>6, <1>8, <1>11, RowOfZero DEF Results, AfterWrite, IInv, LoopInv
  <2>4. DataViewsInv'
    BY <1>1, <1>6, <1>11 DEF IInv, DataViewsInv, Excused, Unanswers, Report
  <2> QED BY <1>1, <1>3, <1>4, <2>1, <2>2, <2>3, <2>4 DEF DataViewsStep, LoopStep
<1>12. CASE /\ pc' = pc /\ todo' = todo /\ rows' = rows
            /\ stack' = new /\ writes' = writes \cup {u}
  <2>1. stack' \in DataViews!StackType
    BY <1>7, <1>12
  <2>2. WritesWhatWasShown'
    BY <1>6, <1>12, ShownWrite DEF IInv
  <2>3. SendsAgain
    BY <1>1, <1>2, <1>6, <1>8, <1>12 DEF SendsAgain, runVars, AfterWrite
  <2>4. DataViewsInv'
    BY <1>1, <1>6, <1>12 DEF IInv, DataViewsInv, Excused, Unanswers, Report
  <2> QED BY <1>1, <1>3, <1>4, <2>1, <2>2, <2>3, <2>4 DEF DataViewsStep, LoopStep
<1> QED BY <1>5, <1>9, <1>10, <1>11, <1>12

\* The step ResolveDefault of a data view command.
LEMMA DataViewsResolveDefault ==
    ASSUME IInv, cmd.family = "data_views", DataViews!ResolveDefault
    PROVE  DataViewsStep
<1>1. pc = "start" /\ cmd.op = "default" /\ UNCHANGED <<cmd, plan, stack, writes, edits>>
  BY DEF DataViews!ResolveDefault
<1>2. /\ Planning
      /\ rows = {} /\ writes = {} /\ todo \in Seq(Ids)
      /\ cmd.op \notin BulkOps /\ cmd.op # "delete_rules" /\ cmd.op # "set_enabled"
  <2>1. Planning
    BY <1>1 DEF Planning
  <2>2. rows = {} /\ writes = {} /\ todo \in Seq(Ids)
    BY <2>1 DEF IInv, LoopInv, TodoOK, QuietPlanning
  <2>3. cmd.op \notin BulkOps /\ cmd.op # "delete_rules" /\ cmd.op # "set_enabled"
    BY DEF IInv, OpOK, BulkOps
  <2> QED BY <2>1, <2>2, <2>3
<1>3. Bounds'
  <2>1. faults' = faults \/ (faults > 0 /\ faults' = faults - 1)
    BY DEF DataViews!ResolveDefault, DataViews!Read, DataViews!Checked
  <2>2. moved' \subseteq moved
    BY DEF DataViews!ResolveDefault, DataViews!Read, DataViews!Checked
  <2> QED BY <1>1, <2>1, <2>2, BoundsKept, CommandAssumption DEF IInv, TypeOK, Bounds
<1>4. stack' \in DataViews!StackType /\ WritesWhatWasShown' /\ PlanOK'
  BY <1>1 DEF IInv, TypeOK, StackType, WritesWhatWasShown, PlanOK
<1>5. \/ Goto("plan_default")
      \/ Fail
  BY DEF DataViews!ResolveDefault, DataViews!Read, DataViews!Checked, DataViews!Fail, Fail,
     DataViews!Goto, Goto, Report, Row, Guard
<1>6. CASE Goto("plan_default")
  <2>1. PlansOn
    BY <1>1, <1>2, <1>6 DEF PlansOn, Planning, Ended, Wholesale, Goto, Fail
  <2>2. DataViewsInv'
    BY <1>1, <1>6 DEF IInv, DataViewsInv, Goto, Fail
  <2> QED BY <1>1, <1>3, <1>4, <2>1, <2>2 DEF DataViewsStep, LoopStep
<1>7. CASE Fail
  <2>1. PlansOn
    BY <1>1, <1>2, <1>7 DEF PlansOn, Planning, Ended, Wholesale, Goto, Fail
  <2>2. DataViewsInv'
    BY <1>1, <1>7 DEF IInv, DataViewsInv, Goto, Fail
  <2> QED BY <1>1, <1>3, <1>4, <2>1, <2>2 DEF DataViewsStep, LoopStep
<1> QED BY <1>5, <1>6, <1>7

\* The step PlanDefault of a data view command.
LEMMA DataViewsPlanDefault ==
    ASSUME IInv, cmd.family = "data_views", DataViews!PlanDefault
    PROVE  DataViewsStep
<1>1. pc = "plan_default" /\ UNCHANGED <<cmd, stack, writes, edits>>
  BY DEF DataViews!PlanDefault
<1>2. /\ Planning
      /\ rows = {} /\ writes = {} /\ todo \in Seq(Ids)
      /\ cmd.op \notin BulkOps /\ cmd.op # "delete_rules" /\ cmd.op # "set_enabled"
  <2>1. Planning
    BY <1>1 DEF Planning
  <2>2. rows = {} /\ writes = {} /\ todo \in Seq(Ids)
    BY <2>1 DEF IInv, LoopInv, TodoOK, QuietPlanning
  <2>3. cmd.op \notin BulkOps /\ cmd.op # "delete_rules" /\ cmd.op # "set_enabled"
    BY DEF IInv, OpOK, BulkOps
  <2> QED BY <2>1, <2>2, <2>3
<1>3. Bounds'
  <2>1. faults' = faults \/ (faults > 0 /\ faults' = faults - 1)
    BY DEF DataViews!PlanDefault, DataViews!Read, DataViews!Checked
  <2>2. moved' \subseteq moved
    BY DEF DataViews!PlanDefault, DataViews!Read, DataViews!Checked
  <2> QED BY <1>1, <2>1, <2>2, BoundsKept, CommandAssumption DEF IInv, TypeOK, Bounds
<1>4. stack' \in DataViews!StackType /\ WritesWhatWasShown'
  BY <1>1 DEF IInv, TypeOK, StackType, WritesWhatWasShown
<1>5. \/ /\ Goto("apply_default") /\ cmd.yes
         /\ plan' = [before |-> [o \in {} |-> DataViews!Absent], default |-> stack.default]
      \/ /\ Goto("done")
         /\ plan' = [before |-> [o \in {} |-> DataViews!Absent], default |-> stack.default]
      \/ Fail /\ plan' = plan
  BY DEF DataViews!PlanDefault, DataViews!Read, DataViews!Checked, DataViews!Fail, Fail,
     DataViews!Goto, Goto, Report, Row, Guard
<1>6. CASE /\ Goto("apply_default") /\ cmd.yes
           /\ plan' = [before |-> [o \in {} |-> DataViews!Absent], default |-> stack.default]
  <2>1. PlanOK'
    BY <1>6 DEF IInv, PlanOK
  <2>2. PlansOn
    BY <1>1, <1>2, <1>6 DEF PlansOn, Planning, Ended, Wholesale, Goto, Fail
  <2>3. DataViewsInv'
    BY <1>1, <1>6 DEF IInv, DataViewsInv, Goto, Fail
  <2> QED BY <1>1, <1>3, <1>4, <2>1, <2>2, <2>3 DEF DataViewsStep, LoopStep
<1>7. CASE /\ Goto("done")
           /\ plan' = [before |-> [o \in {} |-> DataViews!Absent], default |-> stack.default]
  <2>1. PlanOK'
    BY <1>7 DEF IInv, PlanOK
  <2>2. PlansOn
    BY <1>1, <1>2, <1>7 DEF PlansOn, Planning, Ended, Wholesale, Goto, Fail
  <2>3. DataViewsInv'
    BY <1>1, <1>7 DEF IInv, DataViewsInv, Goto, Fail
  <2> QED BY <1>1, <1>3, <1>4, <2>1, <2>2, <2>3 DEF DataViewsStep, LoopStep
<1>8. CASE Fail /\ plan' = plan
  <2>1. PlanOK'
    BY <1>1, <1>8 DEF IInv, PlanOK
  <2>2. PlansOn
    BY <1>1, <1>2, <1>8 DEF PlansOn, Planning, Ended, Wholesale, Goto, Fail
  <2>3. DataViewsInv'
    BY <1>1, <1>8 DEF IInv, DataViewsInv, Goto, Fail
  <2> QED BY <1>1, <1>3, <1>4, <2>1, <2>2, <2>3 DEF DataViewsStep, LoopStep
<1> QED BY <1>5, <1>6, <1>7, <1>8

\* The step ApplyDefault of a data view command.
LEMMA DataViewsApplyDefault ==
    ASSUME IInv, cmd.family = "data_views", DataViews!ApplyDefault
    PROVE  DataViewsStep
<1>1. pc = "apply_default" /\ UNCHANGED <<cmd, plan, stack, writes, edits>>
  BY DEF DataViews!ApplyDefault
<1>2. /\ todo \in Seq(Ids) /\ ~Planning /\ ~Ended /\ ~AfterWrite
      /\ cmd.op \notin BulkOps /\ cmd.op # "delete_rules" /\ cmd.op # "set_enabled"
  <2>1. todo \in Seq(Ids) /\ ~Planning /\ ~Ended /\ ~AfterWrite
    BY <1>1 DEF IInv, LoopInv, TodoOK, Planning, Ended, AfterWrite
  <2>2. cmd.op \notin BulkOps /\ cmd.op # "delete_rules" /\ cmd.op # "set_enabled"
    BY DEF IInv, OpOK, BulkOps
  <2> QED BY <2>1, <2>2
<1>3. Bounds'
  <2>1. faults' = faults \/ (faults > 0 /\ faults' = faults - 1)
    BY DEF DataViews!ApplyDefault, DataViews!Read, DataViews!Checked
  <2>2. moved' \subseteq moved
    BY DEF DataViews!ApplyDefault, DataViews!Read, DataViews!Checked
  <2> QED BY <1>1, <2>1, <2>2, BoundsKept, CommandAssumption DEF IInv, TypeOK, Bounds
<1>4. stack' \in DataViews!StackType /\ WritesWhatWasShown' /\ PlanOK'
  BY <1>1 DEF IInv, TypeOK, StackType, WritesWhatWasShown, PlanOK
<1>5. \/ Goto("failed")
      \/ Goto("done")
      \/ Goto("set_default") /\ stack.default = plan.default
  BY DEF DataViews!ApplyDefault, DataViews!Read, DataViews!Checked, DataViews!Fail,
     DataViews!Goto, Goto, Report, Row, Guard
<1>6. CASE Goto("failed")
  <2>1. GivesUp
    BY <1>1, <1>2, <1>6 DEF GivesUp, Goto, Ended, Wholesale, Bulk
  <2>2. DataViewsInv'
    BY <1>1, <1>6 DEF IInv, DataViewsInv, Goto, Excused, Unanswers
  <2> QED BY <1>1, <1>3, <1>4, <2>1, <2>2 DEF DataViewsStep, LoopStep
<1>7. CASE Goto("done")
  <2>1. Finishes
    BY <1>1, <1>2, <1>7 DEF Finishes, Goto, Ended, Wholesale, Bulk, IInv, LoopInv, RowsOK
  <2>2. DataViewsInv'
    BY <1>1, <1>7 DEF IInv, DataViewsInv, Goto, Excused, Unanswers
  <2> QED BY <1>1, <1>3, <1>4, <2>1, <2>2 DEF DataViewsStep, LoopStep
<1>8. CASE Goto("set_default") /\ stack.default = plan.default
  <2>1. ChecksWhole
    BY <1>1, <1>2, <1>8 DEF ChecksWhole, Goto, Ended, Wholesale, Bulk
  <2>2. DataViewsInv'
    BY <1>1, <1>8 DEF IInv, DataViewsInv, Goto, Excused, Unanswers
  <2> QED BY <1>1, <1>3, <1>4, <2>1, <2>2 DEF DataViewsStep, LoopStep
<1> QED BY <1>5, <1>6, <1>7, <1>8

\* The step SetDefault of a data view command.
LEMMA DataViewsSetDefault ==
    ASSUME IInv, cmd.family = "data_views", DataViews!SetDefault
    PROVE  DataViewsStep
<1> DEFINE w == Write(0, plan.default, stack.default, {0})
           u == Unanswered(w)
           new == [stack EXCEPT !.default = cmd.after]
<1>1. pc = "set_default" /\ UNCHANGED <<cmd, plan, moved, edits>>
  BY DEF DataViews!SetDefault, DataViews!None
<1>2. /\ todo \in Seq(Ids) /\ ~Planning /\ ~Ended /\ ~AfterWrite
      /\ cmd.op \notin BulkOps /\ cmd.op # "delete_rules" /\ cmd.op # "set_enabled"
  <2>1. todo \in Seq(Ids) /\ ~Planning /\ ~Ended /\ ~AfterWrite
    BY <1>1 DEF IInv, LoopInv, TodoOK, Planning, Ended, AfterWrite
  <2>2. cmd.op \notin BulkOps /\ cmd.op # "delete_rules" /\ cmd.op # "set_enabled"
    BY DEF IInv, OpOK, BulkOps
  <2> QED BY <2>1, <2>2
<1>3. Bounds'
  <2>1. faults' = faults \/ (faults > 0 /\ faults' = faults - 1)
    BY DEF DataViews!SetDefault, DataViews!Mutate, DataViews!MutateAll, DataViews!None
  <2>2. moved' \subseteq moved
    BY <1>1
  <2> QED BY <1>1, <2>1, <2>2, BoundsKept, CommandAssumption DEF IInv, TypeOK, Bounds
<1>4. PlanOK'
  BY <1>1 DEF IInv, PlanOK
<1>5. \/ /\ Fail
         /\ stack' = stack /\ writes' = writes
      \/ /\ Fail
         /\ stack' = new /\ writes' = writes \cup {u}
      \/ /\ Goto("done")
         /\ stack' = new /\ writes' = writes \cup {w}
      \/ /\ pc' = pc /\ todo' = todo /\ rows' = rows
         /\ stack' = new /\ writes' = writes \cup {u}
  BY DEF DataViews!SetDefault, DataViews!Mutate, DataViews!MutateAll, DataViews!Fail, Fail,
     DataViews!Goto, Goto, Report, Row, DataViews!runVars, runVars, Guard, DataViews!Write,
     Write, DataViews!Unanswered, Unanswered, DataViews!None
<1>6. /\ w.id = 0 /\ w.answered = TRUE /\ u.id = 0 /\ u.answered = FALSE
      /\ w.asShown = TRUE \/ Unanswers(0)
  <2>1. (stack.default) = (plan.default) \/ moved \cap {0} # {} \/ Unanswers(0)
    BY <1>1 DEF IInv, DataViewsInv, Excused
  <2> QED BY <2>1 DEF Write, Unanswered
<1>7. TRUE => new \in DataViews!StackType
  <2>1. stack \in DataViews!StackType /\ cmd.after \in Ids \cup {0}
    BY <1>1 DEF IInv, TypeOK, StackType, CmdOK, DataViewsInv
  <2> QED BY <2>1 DEF DataViews!None, DataViews!StackType
<1>8. 0 \in Touchable /\ cmd.op # "delete_rules" /\ 0 \notin Ids
  BY <1>1, CommandAssumption DEF IInv, DataViewsInv, Touchable, CmdOK, CommandAssumption
<1> HIDE DEF w, u, new
<1>9. CASE /\ Fail
           /\ stack' = stack /\ writes' = writes
  <2>1. stack' \in DataViews!StackType
    BY <1>9 DEF IInv, TypeOK, StackType
  <2>2. WritesWhatWasShown'
    BY <1>9 DEF IInv, WritesWhatWasShown
  <2>3. GivesUp
    BY <1>1, <1>2, <1>6, <1>8, <1>9 DEF GivesUp, Goto, Fail, Ended, Wholesale, Bulk
  <2>4. DataViewsInv'
    BY <1>1, <1>6, <1>8, <1>9 DEF IInv, DataViewsInv, Goto, Fail, Excused, Unanswers
  <2> QED BY <1>1, <1>3, <1>4, <2>1, <2>2, <2>3, <2>4 DEF DataViewsStep, LoopStep
<1>10. CASE /\ Fail
            /\ stack' = new /\ writes' = writes \cup {u}
  <2>1. stack' \in DataViews!StackType
    BY <1>7, <1>10
  <2>2. WritesWhatWasShown'
    BY <1>6, <1>10, ShownWrite DEF IInv
  <2>3. GivesUp
    BY <1>1, <1>2, <1>6, <1>8, <1>10 DEF GivesUp, Goto, Fail, Ended, Wholesale, Bulk
  <2>4. DataViewsInv'
    BY <1>1, <1>6, <1>8, <1>10 DEF IInv, DataViewsInv, Goto, Fail, Excused, Unanswers
  <2> QED BY <1>1, <1>3, <1>4, <2>1, <2>2, <2>3, <2>4 DEF DataViewsStep, LoopStep
<1>11. CASE /\ Goto("done")
            /\ stack' = new /\ writes' = writes \cup {w}
  <2>1. stack' \in DataViews!StackType
    BY <1>7, <1>11
  <2>2. WritesWhatWasShown'
    BY <1>6, <1>11, ShownWrite DEF IInv
  <2>3. Finishes
    BY <1>1, <1>2, <1>6, <1>8, <1>11 DEF Finishes, Goto, Fail, Ended, Wholesale, Bulk, IInv,
       LoopInv, RowsOK, CommandAssumption
  <2>4. DataViewsInv'
    BY <1>1, <1>6, <1>8, <1>11 DEF IInv, DataViewsInv, Goto, Fail, Excused, Unanswers
  <2> QED BY <1>1, <1>3, <1>4, <2>1, <2>2, <2>3, <2>4 DEF DataViewsStep, LoopStep
<1>12. CASE /\ pc' = pc /\ todo' = todo /\ rows' = rows
            /\ stack' = new /\ writes' = writes \cup {u}
  <2>1. stack' \in DataViews!StackType
    BY <1>7, <1>12
  <2>2. WritesWhatWasShown'
    BY <1>6, <1>12, ShownWrite DEF IInv
  <2>3. SendsAgain
    BY <1>1, <1>2, <1>6, <1>8, <1>12 DEF SendsAgain, runVars, AfterWrite
  <2>4. DataViewsInv'
    BY <1>1, <1>6, <1>12 DEF IInv, DataViewsInv, Excused, Unanswers, Report, Goto
  <2> QED BY <1>1, <1>3, <1>4, <2>1, <2>2, <2>3, <2>4 DEF DataViewsStep, LoopStep
<1> QED BY <1>5, <1>9, <1>10, <1>11, <1>12

\* Another client at work during a data view command.
LEMMA DataViewsOthersEdit ==
    ASSUME IInv, cmd.family = "data_views", DataViews!OthersEdit
    PROVE  DataViewsStep
<1>1. ~Ended /\ edits > 0 /\ edits' = edits - 1
        /\ UNCHANGED <<cmd, pc, todo, plan, writes, rows, faults>>
  BY DEF DataViews!OthersEdit, DataViews!Edit, DataViews!Ended, Ended
<1>2. \/ \E o \in Ids, v \in {DataViews!Absent, [base |-> 1, meta |-> 1]} :
           cmd.op = "import" /\ stack' = [stack EXCEPT !.view[o] = v]
             /\ moved' = moved \cup {o}
      \/ \E o \in Ids : cmd.op # "import"
           /\ stack' = [stack EXCEPT !.view[o] = DataViews!Absent] /\ moved' = moved \cup {o}
      \/ \E o \in Ids, r \in SUBSET {"dashboard"} : stack' = [stack EXCEPT !.refs[o] = r]
           /\ moved' = moved \cup {o}
      \/ \E d \in Ids \cup {0} : stack' = [stack EXCEPT !.default = d]
           /\ moved' = moved \cup {0}
  BY DEF DataViews!OthersEdit, DataViews!Edit, DataViews!None
<1>3. Watches
  BY <1>1 DEF Watches
<1>4. WritesWhatWasShown' /\ PlanOK'
  BY <1>1 DEF IInv, WritesWhatWasShown, PlanOK
<1>5. stack \in DataViews!StackType /\ Bounds /\ DataViewsInv
  BY DEF IInv, TypeOK, StackType, Bounds
<1>6. CASE \E o \in Ids, v \in {DataViews!Absent, [base |-> 1, meta |-> 1]} :
             cmd.op = "import" /\ stack' = [stack EXCEPT !.view[o] = v]
               /\ moved' = moved \cup {o}
  <2>1. PICK o \in Ids, v \in {DataViews!Absent, [base |-> 1, meta |-> 1]} :
               cmd.op = "import" /\ stack' = [stack EXCEPT !.view[o] = v]
                 /\ moved' = moved \cup {o}
    BY <1>6
  <2>2. stack' \in DataViews!StackType
    BY <1>5, <2>1 DEF DataViews!StackType, DataViews!Contents, DataViews!Absent
  <2>3. Bounds'
    BY <1>1, <1>5, <2>1, CommandAssumption DEF Bounds, CommandAssumption
  <2>4. DataViewsInv'
    BY <1>1, <1>5, <2>1 DEF DataViewsInv, Excused, Unanswers, Ended
  <2> QED BY <1>1, <1>3, <1>4, <2>2, <2>3, <2>4 DEF DataViewsStep, LoopStep
<1>7. CASE \E o \in Ids : cmd.op # "import"
             /\ stack' = [stack EXCEPT !.view[o] = DataViews!Absent]
                  /\ moved' = moved \cup {o}
  <2>1. PICK o \in Ids : cmd.op # "import"
               /\ stack' = [stack EXCEPT !.view[o] = DataViews!Absent]
                    /\ moved' = moved \cup {o}
    BY <1>7
  <2>2. stack' \in DataViews!StackType
    BY <1>5, <2>1 DEF DataViews!StackType, DataViews!Contents, DataViews!Absent
  <2>3. Bounds'
    BY <1>1, <1>5, <2>1, CommandAssumption DEF Bounds, CommandAssumption
  <2>4. DataViewsInv'
    BY <1>1, <1>5, <2>1 DEF DataViewsInv, Excused, Unanswers, Ended
  <2> QED BY <1>1, <1>3, <1>4, <2>2, <2>3, <2>4 DEF DataViewsStep, LoopStep
<1>8. CASE \E o \in Ids, r \in SUBSET {"dashboard"} : stack' = [stack EXCEPT !.refs[o] = r]
             /\ moved' = moved \cup {o}
  <2>1. PICK o \in Ids, r \in SUBSET {"dashboard"} : stack' = [stack EXCEPT !.refs[o] = r]
               /\ moved' = moved \cup {o}
    BY <1>8
  <2>2. stack' \in DataViews!StackType
    BY <1>5, <2>1 DEF DataViews!StackType, DataViews!Contents, DataViews!Absent
  <2>3. Bounds'
    BY <1>1, <1>5, <2>1, CommandAssumption DEF Bounds, CommandAssumption
  <2>4. DataViewsInv'
    BY <1>1, <1>5, <2>1 DEF DataViewsInv, Excused, Unanswers, Ended
  <2> QED BY <1>1, <1>3, <1>4, <2>2, <2>3, <2>4 DEF DataViewsStep, LoopStep
<1>9. CASE \E d \in Ids \cup {0} : stack' = [stack EXCEPT !.default = d]
             /\ moved' = moved \cup {0}
  <2>1. PICK d \in Ids \cup {0} : stack' = [stack EXCEPT !.default = d]
               /\ moved' = moved \cup {0}
    BY <1>9
  <2>2. stack' \in DataViews!StackType
    BY <1>5, <2>1 DEF DataViews!StackType, DataViews!Contents, DataViews!Absent,
       DataViews!None
  <2>3. Bounds'
    BY <1>1, <1>5, <2>1, CommandAssumption DEF Bounds, CommandAssumption
  <2>4. DataViewsInv'
    BY <1>1, <1>5, <2>1 DEF DataViewsInv, Excused, Unanswers, Ended
  <2> QED BY <1>1, <1>3, <1>4, <2>2, <2>3, <2>4 DEF DataViewsStep, LoopStep
<1> QED BY <1>2, <1>6, <1>7, <1>8, <1>9

-----------------------------------------------------------------------------
(* Dashboards and saved objects.                                             *)

\* What every step of a dashboard command does.
DashboardsStep ==
    /\ LoopStep /\ stack' \in Dashboards!StackType /\ Bounds' /\ PlanOK'
    /\ WritesWhatWasShown' /\ DashboardsInv'

\* The step BeginImport of a dashboard command.
LEMMA DashboardsBeginImport ==
    ASSUME IInv, cmd.family = "dashboards", Dashboards!BeginImport
    PROVE  DashboardsStep
<1>1. pc = "start" /\ cmd.op = "import"
        /\ UNCHANGED <<cmd, plan, stack, moved, writes, rows, faults, edits>>
  BY DEF Dashboards!BeginImport
<1>2. /\ Planning
      /\ rows = {} /\ writes = {} /\ todo \in Seq(Ids)
      /\ cmd.op \notin BulkOps /\ cmd.op # "delete_rules" /\ cmd.op # "set_enabled"
  <2>1. Planning
    BY <1>1 DEF Planning
  <2>2. rows = {} /\ writes = {} /\ todo \in Seq(Ids)
    BY <2>1 DEF IInv, LoopInv, TodoOK, QuietPlanning
  <2>3. cmd.op \notin BulkOps /\ cmd.op # "delete_rules" /\ cmd.op # "set_enabled"
    BY DEF IInv, OpOK, BulkOps
  <2> QED BY <2>1, <2>2, <2>3
<1>3. Bounds'
  <2>1. faults' = faults
    BY <1>1
  <2>2. moved' \subseteq moved
    BY <1>1
  <2> QED BY <1>1, <2>1, <2>2, BoundsKept, CommandAssumption DEF IInv, TypeOK, Bounds
<1>4. stack' \in Dashboards!StackType /\ WritesWhatWasShown' /\ PlanOK'
  BY <1>1 DEF IInv, TypeOK, StackType, WritesWhatWasShown, PlanOK
<1>5. \/ pc' = "preflight" /\ todo' = Sorted(cmd.targets)
  BY SameOrder DEF Dashboards!BeginImport, Report, Row, Guard
<1>6. CASE pc' = "preflight" /\ todo' = Sorted(cmd.targets)
  <2>1. todo' = Sorted(cmd.targets) /\ todo' \in Seq(Ids) /\ Range(todo') = cmd.targets
    BY <1>1, <1>6, SortedFacts, CommandAssumption DEF IInv, CmdOK
  <2>2. PlansOn
    BY <1>1, <1>2, <2>1, <1>6 DEF PlansOn, Planning, Ended, Wholesale
  <2>3. DashboardsInv'
    BY <1>1, <2>1, <1>6 DEF IInv, DashboardsInv
  <2> QED BY <1>1, <1>3, <1>4, <2>1, <2>2, <2>3 DEF DashboardsStep, LoopStep
<1> QED BY <1>5, <1>6

\* The step Preflight of a dashboard command.
LEMMA DashboardsPreflight ==
    ASSUME IInv, cmd.family = "dashboards", Dashboards!Preflight
    PROVE  DashboardsStep
<1>1. pc = "preflight" /\ todo # <<>> /\ UNCHANGED <<cmd, stack, writes, edits>>
  BY DEF Dashboards!Preflight
<1>2. /\ Planning
      /\ rows = {} /\ writes = {} /\ todo \in Seq(Ids)
      /\ Head(todo) \in Ids /\ Tail(todo) \in Seq(Ids)
      /\ cmd.op \notin BulkOps /\ cmd.op # "delete_rules" /\ cmd.op # "set_enabled"
  <2>1. Planning
    BY <1>1 DEF Planning
  <2>2. rows = {} /\ writes = {} /\ todo \in Seq(Ids)
    BY <2>1 DEF IInv, LoopInv, TodoOK, QuietPlanning
  <2>3. Head(todo) \in Ids /\ Tail(todo) \in Seq(Ids)
    BY <1>1, <2>2, TailFacts
  <2>4. cmd.op \notin BulkOps /\ cmd.op # "delete_rules" /\ cmd.op # "set_enabled"
    BY DEF IInv, OpOK, BulkOps
  <2> QED BY <2>1, <2>2, <2>3, <2>4
<1>3. Bounds'
  <2>1. faults' = faults \/ (faults > 0 /\ faults' = faults - 1)
    BY DEF Dashboards!Preflight, Dashboards!Read, Dashboards!Checked
  <2>2. moved' \subseteq moved
    BY DEF Dashboards!Preflight, Dashboards!Read, Dashboards!Checked
  <2> QED BY <1>1, <2>1, <2>2, BoundsKept, CommandAssumption DEF IInv, TypeOK, Bounds
<1>4. stack' \in Dashboards!StackType /\ WritesWhatWasShown'
  BY <1>1 DEF IInv, TypeOK, StackType, WritesWhatWasShown
<1>5. \/ /\ pc' = pc /\ rows' = rows /\ todo' = Tail(todo)
         /\ plan' = [plan EXCEPT !.before
              = Dashboards!Noted(@, Head(todo), stack.board[Head(todo)])]
      \/ Fail /\ plan' = plan
  BY DEF Dashboards!Preflight, Dashboards!Read, Dashboards!Checked, Dashboards!Fail, Fail,
     Dashboards!Goto, Goto, Report, Row, Guard
<1>6. CASE /\ pc' = pc /\ rows' = rows /\ todo' = Tail(todo)
           /\ plan' = [plan EXCEPT !.before
                = Dashboards!Noted(@, Head(todo), stack.board[Head(todo)])]
  <2>1. PlanOK'
    BY <1>1, <1>2, <1>6 DEF IInv, PlanOK, Dashboards!Noted
  <2>2. PlansOn
    BY <1>1, <1>2, <1>6 DEF PlansOn, Planning, Ended, Wholesale, Goto, Fail
  <2>3. DashboardsInv'
    BY <1>1, <1>6 DEF IInv, DashboardsInv, Goto, Fail
  <2> QED BY <1>1, <1>3, <1>4, <2>1, <2>2, <2>3 DEF DashboardsStep, LoopStep
<1>7. CASE Fail /\ plan' = plan
  <2>1. PlanOK'
    BY <1>1, <1>7 DEF IInv, PlanOK
  <2>2. PlansOn
    BY <1>1, <1>2, <1>7 DEF PlansOn, Planning, Ended, Wholesale, Goto, Fail
  <2>3. DashboardsInv'
    BY <1>1, <1>7 DEF IInv, DashboardsInv, Goto, Fail
  <2> QED BY <1>1, <1>3, <1>4, <2>1, <2>2, <2>3 DEF DashboardsStep, LoopStep
<1> QED BY <1>5, <1>6, <1>7

\* The step PreflightViews of a dashboard command.
LEMMA DashboardsPreflightViews ==
    ASSUME IInv, cmd.family = "dashboards", Dashboards!PreflightViews
    PROVE  DashboardsStep
<1>1. pc = "preflight" /\ todo = <<>> /\ UNCHANGED <<cmd, plan, stack, writes, edits>>
  BY DEF Dashboards!PreflightViews
<1>2. /\ Planning
      /\ rows = {} /\ writes = {} /\ todo \in Seq(Ids)
      /\ cmd.op \notin BulkOps /\ cmd.op # "delete_rules" /\ cmd.op # "set_enabled"
  <2>1. Planning
    BY <1>1 DEF Planning
  <2>2. rows = {} /\ writes = {} /\ todo \in Seq(Ids)
    BY <2>1 DEF IInv, LoopInv, TodoOK, QuietPlanning
  <2>3. cmd.op \notin BulkOps /\ cmd.op # "delete_rules" /\ cmd.op # "set_enabled"
    BY DEF IInv, OpOK, BulkOps
  <2> QED BY <2>1, <2>2, <2>3
<1>3. Bounds'
  <2>1. faults' = faults \/ (faults > 0 /\ faults' = faults - 1)
    BY DEF Dashboards!PreflightViews, Dashboards!Read, Dashboards!Checked
  <2>2. moved' \subseteq moved
    BY DEF Dashboards!PreflightViews, Dashboards!Read, Dashboards!Checked
  <2> QED BY <1>1, <2>1, <2>2, BoundsKept, CommandAssumption DEF IInv, TypeOK, Bounds
<1>4. stack' \in Dashboards!StackType /\ WritesWhatWasShown' /\ PlanOK'
  BY <1>1 DEF IInv, TypeOK, StackType, WritesWhatWasShown, PlanOK
<1>5. \/ Goto("plan")
      \/ Goto("failed")
  BY DEF Dashboards!PreflightViews, Dashboards!Read, Dashboards!Checked, Dashboards!Fail,
     Dashboards!Goto, Goto, Report, Row, Guard
<1>6. CASE Goto("plan")
  <2>1. PlansOn
    BY <1>1, <1>2, <1>6 DEF PlansOn, Planning, Ended, Wholesale, Goto
  <2>2. DashboardsInv'
    BY <1>1, <1>6 DEF IInv, DashboardsInv, Goto
  <2> QED BY <1>1, <1>3, <1>4, <2>1, <2>2 DEF DashboardsStep, LoopStep
<1>7. CASE Goto("failed")
  <2>1. PlansOn
    BY <1>1, <1>2, <1>7 DEF PlansOn, Planning, Ended, Wholesale, Goto
  <2>2. DashboardsInv'
    BY <1>1, <1>7 DEF IInv, DashboardsInv, Goto
  <2> QED BY <1>1, <1>3, <1>4, <2>1, <2>2 DEF DashboardsStep, LoopStep
<1> QED BY <1>5, <1>6, <1>7

\* The step PlanImport of a dashboard command.
LEMMA DashboardsPlanImport ==
    ASSUME IInv, cmd.family = "dashboards", Dashboards!PlanImport
    PROVE  DashboardsStep
<1>1. pc = "plan" /\ UNCHANGED <<cmd, stack, moved, writes, faults, edits>>
  BY DEF Dashboards!PlanImport, Dashboards!Row, Row
<1>2. /\ Planning
      /\ rows = {} /\ writes = {} /\ todo \in Seq(Ids)
      /\ cmd.op \notin BulkOps /\ cmd.op # "delete_rules" /\ cmd.op # "set_enabled"
  <2>1. Planning
    BY <1>1 DEF Planning
  <2>2. rows = {} /\ writes = {} /\ todo \in Seq(Ids)
    BY <2>1 DEF IInv, LoopInv, TodoOK, QuietPlanning
  <2>3. cmd.op \notin BulkOps /\ cmd.op # "delete_rules" /\ cmd.op # "set_enabled"
    BY DEF IInv, OpOK, BulkOps
  <2> QED BY <2>1, <2>2, <2>3
<1>3. Bounds'
  <2>1. faults' = faults
    BY <1>1
  <2>2. moved' \subseteq moved
    BY <1>1
  <2> QED BY <1>1, <2>1, <2>2, BoundsKept, CommandAssumption DEF IInv, TypeOK, Bounds
<1>4. stack' \in Dashboards!StackType /\ WritesWhatWasShown'
  BY <1>1 DEF IInv, TypeOK, StackType, WritesWhatWasShown
<1>5. \/ Fail /\ plan' = plan
      \/ /\ Guard([before |-> [o \in cmd.targets \ Dashboards!Skipped |-> plan.before[o]]],
              Sorted(cmd.targets \ Dashboards!Skipped))
         /\ rows' = {Row(o, "skipped", FALSE) : o \in Dashboards!Skipped}
  BY SameOrder DEF Dashboards!PlanImport, Dashboards!Fail, Fail, Dashboards!Goto, Goto,
     Report, Dashboards!Row, Row, Dashboards!Guard, Guard
<1>6. CASE Fail /\ plan' = plan
  <2>1. PlanOK'
    BY <1>1, <1>6 DEF IInv, PlanOK
  <2>2. PlansOn
    BY <1>1, <1>2, <1>6 DEF PlansOn, Planning, Ended, Wholesale, Goto, Fail
  <2>3. DashboardsInv'
    BY <1>1, <1>6 DEF IInv, DashboardsInv, Goto, Fail
  <2> QED BY <1>1, <1>3, <1>4, <2>1, <2>2, <2>3 DEF DashboardsStep, LoopStep
<1>7. CASE /\ Guard([before |-> [o
                \in cmd.targets \ Dashboards!Skipped |-> plan.before[o]]],
                  Sorted(cmd.targets \ Dashboards!Skipped))
           /\ rows' = {Row(o, "skipped", FALSE) : o \in Dashboards!Skipped}
  <2>1. cmd.targets \ Dashboards!Skipped \in SUBSET Ids
          /\ cmd.targets \ Dashboards!Skipped \subseteq Touchable /\ cmd.yes \in BOOLEAN
    BY <1>1, <1>2 DEF IInv, CmdOK, DashboardsInv, Touchable
  <2>2. \A r \in rows' : r.id \in Dashboards!Skipped /\ r.result = "skipped"
          /\ r.applied = FALSE
    BY <1>7 DEF Row
  <2>3. Dashboards!Skipped \subseteq Ids
          /\ Dashboards!Skipped \cap (cmd.targets \ Dashboards!Skipped) = {}
    BY <1>1, <1>2 DEF IInv, PlanOK, Dashboards!Skipped, Dashboards!Existing
  <2>4. \A r \in rows' : r.id \in Ids \ (cmd.targets \ Dashboards!Skipped)
          /\ r.result = "skipped" /\ r.applied = FALSE
    BY <2>2, <2>3
  <2>5. /\ Guarded /\ plan'
             = [before |-> [o \in cmd.targets \ Dashboards!Skipped |-> plan.before[o]]]
               /\ pc' \in {"check", "done"}
        /\ pc' = "check" => Range(todo') = cmd.targets \ Dashboards!Skipped
    BY <1>1, <1>2, <2>1, <2>4, <1>7, SortedGuard, CommandAssumption
  <2>6. PlanOK'
    BY <1>1, <2>1, <2>5 DEF IInv, PlanOK, CmdOK
  <2>7. DashboardsInv'
    BY <1>1, <2>5 DEF IInv, DashboardsInv
  <2> QED BY <1>1, <1>3, <1>4, <2>1, <2>2, <2>3, <2>4, <2>5, <2>6, <2>7 DEF DashboardsStep,
         LoopStep
<1> QED BY <1>5, <1>6, <1>7

\* The step CheckImport of a dashboard command.
LEMMA DashboardsCheckImport ==
    ASSUME IInv, cmd.family = "dashboards", Dashboards!CheckImport
    PROVE  DashboardsStep
<1>1. pc = "check" /\ cmd.op = "import" /\ UNCHANGED <<cmd, plan, stack, writes, edits>>
  BY DEF Dashboards!CheckImport
<1>2. /\ Looping
      /\ todo # <<>> /\ todo \in Seq(Ids) /\ Head(todo) \in Ids /\ Head(todo) \in Touchable
           /\ ~Planning /\ ~Ended
      /\ cmd.op \notin BulkOps /\ cmd.op # "delete_rules" /\ cmd.op # "set_enabled"
  <2>1. Looping
    BY <1>1 DEF Looping, Ended, Planning, Wholesale
  <2>2. todo # <<>> /\ todo \in Seq(Ids) /\ Head(todo) \in Ids /\ Head(todo) \in Touchable
          /\ ~Planning /\ ~Ended
    BY <2>1, LoopFacts DEF IInv
  <2>3. cmd.op \notin BulkOps /\ cmd.op # "delete_rules" /\ cmd.op # "set_enabled"
    BY DEF IInv, OpOK, BulkOps
  <2> QED BY <2>1, <2>2, <2>3
<1>3. Bounds'
  <2>1. faults' = faults \/ (faults > 0 /\ faults' = faults - 1)
    BY DEF Dashboards!CheckImport, Dashboards!Read, Dashboards!Checked
  <2>2. moved' \subseteq moved
    BY DEF Dashboards!CheckImport, Dashboards!Read, Dashboards!Checked
  <2> QED BY <1>1, <2>1, <2>2, BoundsKept, CommandAssumption DEF IInv, TypeOK, Bounds
<1>4. stack' \in Dashboards!StackType /\ WritesWhatWasShown' /\ PlanOK'
  BY <1>1 DEF IInv, TypeOK, StackType, WritesWhatWasShown, PlanOK
<1>5. \/ \E res \in {"failed", "unchanged"} : Report(Head(todo), res, FALSE)
      \/ /\ Goto("put")
         /\ stack.board[Head(todo)] = plan.before[Head(todo)]
  BY DEF Dashboards!CheckImport, Dashboards!Read, Dashboards!Checked, Dashboards!Goto, Goto,
     Dashboards!Report, Report, Dashboards!Row, Row, Guard
<1>6. CASE \E res \in {"failed", "unchanged"} : Report(Head(todo), res, FALSE)
  <2>1. Reported
    BY <1>1, <1>2, <1>6, RowWithoutWrite DEF Results, AfterWrite
  <2>2. DashboardsInv'
    BY <1>1, <1>6 DEF IInv, DashboardsInv, Report
  <2> QED BY <1>1, <1>3, <1>4, <2>1, <2>2 DEF DashboardsStep, LoopStep
<1>7. CASE /\ Goto("put")
           /\ stack.board[Head(todo)] = plan.before[Head(todo)]
  <2>1. HandlesOn
    BY <1>1, <1>2, <1>7 DEF HandlesOn, Goto, Looping, Ended, Planning, Wholesale, Bulk,
       AfterWrite
  <2>2. DashboardsInv'
    BY <1>1, <1>7 DEF IInv, DashboardsInv, Goto, Excused, Unanswers
  <2> QED BY <1>1, <1>3, <1>4, <2>1, <2>2 DEF DashboardsStep, LoopStep
<1> QED BY <1>5, <1>6, <1>7

\* The step Put of a dashboard command.
LEMMA DashboardsPut ==
    ASSUME IInv, cmd.family = "dashboards", Dashboards!Put
    PROVE  DashboardsStep
<1> DEFINE w == Write(Head(todo), plan.before[Head(todo)],
             stack.board[Head(todo)], {Head(todo)})
           u == Unanswered(w)
           new == {[stack EXCEPT !.board[Head(todo)] = stored] :
             stored \in {Dashboards!Desired, Dashboards!Lossy}}
<1>1. pc = "put" /\ UNCHANGED <<cmd, plan, moved, edits>>
  BY DEF Dashboards!Put
<1>2. /\ Looping
      /\ todo # <<>> /\ todo \in Seq(Ids) /\ Head(todo) \in Ids /\ Head(todo) \in Touchable
           /\ ~Planning /\ ~Ended
      /\ cmd.op \notin BulkOps /\ cmd.op # "delete_rules" /\ cmd.op # "set_enabled"
  <2>1. Looping
    BY <1>1 DEF Looping, Ended, Planning, Wholesale
  <2>2. todo # <<>> /\ todo \in Seq(Ids) /\ Head(todo) \in Ids /\ Head(todo) \in Touchable
          /\ ~Planning /\ ~Ended
    BY <2>1, LoopFacts DEF IInv
  <2>3. cmd.op \notin BulkOps /\ cmd.op # "delete_rules" /\ cmd.op # "set_enabled"
    BY DEF IInv, OpOK, BulkOps
  <2> QED BY <2>1, <2>2, <2>3
<1>3. Bounds'
  <2>1. faults' = faults \/ (faults > 0 /\ faults' = faults - 1)
    BY DEF Dashboards!Put, Dashboards!Mutate, Dashboards!MutateAll
  <2>2. moved' \subseteq moved
    BY <1>1
  <2> QED BY <1>1, <2>1, <2>2, BoundsKept, CommandAssumption DEF IInv, TypeOK, Bounds
<1>4. PlanOK'
  BY <1>1 DEF IInv, PlanOK
<1>5. \/ /\ Report(Head(todo), "failed", FALSE)
         /\ stack' = stack /\ writes' = writes
      \/ /\ Report(Head(todo), "failed", FALSE)
         /\ stack' \in new /\ writes' = writes \cup {u}
      \/ /\ Goto("audit")
         /\ stack' \in new /\ writes' = writes \cup {w}
      \/ /\ Report(Head(todo), "created", TRUE)
         /\ stack' \in new /\ writes' = writes \cup {w}
      \/ /\ Report(Head(todo), "replaced", TRUE)
         /\ stack' \in new /\ writes' = writes \cup {w}
      \/ /\ pc' = pc /\ todo' = todo /\ rows' = rows
         /\ stack' \in new /\ writes' = writes \cup {u}
  BY DEF Dashboards!Put, Dashboards!Mutate, Dashboards!MutateAll, Dashboards!Goto, Goto,
     Dashboards!Report, Report, Dashboards!Row, Row, Dashboards!runVars, runVars, Guard,
     Dashboards!Write, Write, Dashboards!Unanswered, Unanswered
<1>6. /\ w.id = Head(todo) /\ w.answered = TRUE /\ u.id = Head(todo) /\ u.answered = FALSE
      /\ w.asShown = TRUE \/ Unanswers(Head(todo))
  <2>1. (stack.board[Head(todo)]) = (plan.before[Head(todo)])
          \/ moved \cap {Head(todo)} # {} \/ Unanswers(Head(todo))
    BY <1>1 DEF IInv, DashboardsInv, Excused
  <2> QED BY <2>1 DEF Write, Unanswered
<1>7. TRUE => new \subseteq Dashboards!StackType
  <2>1. stack \in Dashboards!StackType
    BY DEF IInv, TypeOK, StackType
  <2> QED BY <1>2, <2>1 DEF Dashboards!StackType, Dashboards!Absent, Dashboards!Desired,
         Dashboards!Lossy
<1> HIDE DEF w, u, new
<1>8. CASE /\ Report(Head(todo), "failed", FALSE)
           /\ stack' = stack /\ writes' = writes
  <2>1. stack' \in Dashboards!StackType
    BY <1>1, <1>8 DEF IInv, TypeOK, StackType
  <2>2. WritesWhatWasShown'
    BY <1>1, <1>8 DEF IInv, WritesWhatWasShown
  <2>3. Reported
    BY <1>1, <1>2, <1>8, RowWithoutWrite DEF Results, AfterWrite
  <2>4. DashboardsInv'
    BY <1>1, <1>6, <1>8 DEF IInv, DashboardsInv, Excused, Unanswers, Report, Goto
  <2> QED BY <1>1, <1>3, <1>4, <2>1, <2>2, <2>3, <2>4 DEF DashboardsStep, LoopStep
<1>9. CASE /\ Report(Head(todo), "failed", FALSE)
           /\ stack' \in new /\ writes' = writes \cup {u}
  <2>1. stack' \in Dashboards!StackType
    BY <1>7, <1>9
  <2>2. WritesWhatWasShown'
    BY <1>6, <1>9, ShownWrite DEF IInv
  <2>3. Reported
    BY <1>1, <1>2, <1>6, <1>9, RowOfLostWrite DEF Results, AfterWrite
  <2>4. DashboardsInv'
    BY <1>1, <1>6, <1>9 DEF IInv, DashboardsInv, Excused, Unanswers, Report, Goto
  <2> QED BY <1>1, <1>3, <1>4, <2>1, <2>2, <2>3, <2>4 DEF DashboardsStep, LoopStep
<1>10. CASE /\ Goto("audit")
            /\ stack' \in new /\ writes' = writes \cup {w}
  <2>1. stack' \in Dashboards!StackType
    BY <1>7, <1>10
  <2>2. WritesWhatWasShown'
    BY <1>6, <1>10, ShownWrite DEF IInv
  <2>3. HandlesOn
    BY <1>1, <1>2, <1>6, <1>10 DEF HandlesOn, Goto, Looping, Ended, Planning, Wholesale,
       Bulk, AfterWrite
  <2>4. DashboardsInv'
    BY <1>1, <1>6, <1>10 DEF IInv, DashboardsInv, Excused, Unanswers, Report, Goto
  <2> QED BY <1>1, <1>3, <1>4, <2>1, <2>2, <2>3, <2>4 DEF DashboardsStep, LoopStep
<1>11. CASE /\ Report(Head(todo), "created", TRUE)
            /\ stack' \in new /\ writes' = writes \cup {w}
  <2>1. stack' \in Dashboards!StackType
    BY <1>7, <1>11
  <2>2. WritesWhatWasShown'
    BY <1>6, <1>11, ShownWrite DEF IInv
  <2>3. Reported
    BY <1>1, <1>2, <1>6, <1>11, RowOfWrite DEF Results, AfterWrite
  <2>4. DashboardsInv'
    BY <1>1, <1>6, <1>11 DEF IInv, DashboardsInv, Excused, Unanswers, Report, Goto
  <2> QED BY <1>1, <1>3, <1>4, <2>1, <2>2, <2>3, <2>4 DEF DashboardsStep, LoopStep
<1>12. CASE /\ Report(Head(todo), "replaced", TRUE)
            /\ stack' \in new /\ writes' = writes \cup {w}
  <2>1. stack' \in Dashboards!StackType
    BY <1>7, <1>12
  <2>2. WritesWhatWasShown'
    BY <1>6, <1>12, ShownWrite DEF IInv
  <2>3. Reported
    BY <1>1, <1>2, <1>6, <1>12, RowOfWrite DEF Results, AfterWrite
  <2>4. DashboardsInv'
    BY <1>1, <1>6, <1>12 DEF IInv, DashboardsInv, Excused, Unanswers, Report, Goto
  <2> QED BY <1>1, <1>3, <1>4, <2>1, <2>2, <2>3, <2>4 DEF DashboardsStep, LoopStep
<1>13. CASE /\ pc' = pc /\ todo' = todo /\ rows' = rows
            /\ stack' \in new /\ writes' = writes \cup {u}
  <2>1. stack' \in Dashboards!StackType
    BY <1>7, <1>13
  <2>2. WritesWhatWasShown'
    BY <1>6, <1>13, ShownWrite DEF IInv
  <2>3. SendsAgain
    BY <1>1, <1>2, <1>6, <1>13 DEF SendsAgain, runVars, AfterWrite
  <2>4. DashboardsInv'
    BY <1>1, <1>6, <1>13 DEF IInv, DashboardsInv, Excused, Unanswers, Report, Goto
  <2> QED BY <1>1, <1>3, <1>4, <2>1, <2>2, <2>3, <2>4 DEF DashboardsStep, LoopStep
<1> QED BY <1>5, <1>8, <1>9, <1>10, <1>11, <1>12, <1>13

\* The step Audit of a dashboard command.
LEMMA DashboardsAudit ==
    ASSUME IInv, cmd.family = "dashboards", Dashboards!Audit
    PROVE  DashboardsStep
<1>1. pc = "audit" /\ UNCHANGED <<cmd, plan, stack, writes, edits>>
  BY DEF Dashboards!Audit
<1>2. /\ Looping
      /\ todo # <<>> /\ todo \in Seq(Ids) /\ Head(todo) \in Ids /\ Head(todo) \in Touchable
           /\ ~Planning /\ ~Ended
      /\ cmd.op \notin BulkOps /\ cmd.op # "delete_rules" /\ cmd.op # "set_enabled"
  <2>1. Looping
    BY <1>1 DEF Looping, Ended, Planning, Wholesale
  <2>2. todo # <<>> /\ todo \in Seq(Ids) /\ Head(todo) \in Ids /\ Head(todo) \in Touchable
          /\ ~Planning /\ ~Ended
    BY <2>1, LoopFacts DEF IInv
  <2>3. cmd.op \notin BulkOps /\ cmd.op # "delete_rules" /\ cmd.op # "set_enabled"
    BY DEF IInv, OpOK, BulkOps
  <2> QED BY <2>1, <2>2, <2>3
<1>3. Bounds'
  <2>1. faults' = faults \/ (faults > 0 /\ faults' = faults - 1)
    BY DEF Dashboards!Audit, Dashboards!Read, Dashboards!Checked
  <2>2. moved' \subseteq moved
    BY DEF Dashboards!Audit, Dashboards!Read, Dashboards!Checked
  <2> QED BY <1>1, <2>1, <2>2, BoundsKept, CommandAssumption DEF IInv, TypeOK, Bounds
<1>4. stack' \in Dashboards!StackType /\ WritesWhatWasShown' /\ PlanOK'
  BY <1>1 DEF IInv, TypeOK, StackType, WritesWhatWasShown, PlanOK
<1>5. \/ /\ rows' = rows \cup {Row(Head(todo), "lossy", TRUE)}
         /\ todo' = Tail(todo) /\ pc' = (IF Len(todo) = 1 THEN "done" ELSE "check")
      \/ /\ rows' = rows \cup {Row(Head(todo), "lossy", TRUE),
              Row(Head(todo), "failed", TRUE)}
         /\ todo' = Tail(todo) /\ pc' = (IF Len(todo) = 1 THEN "done" ELSE "check")
  BY DEF Dashboards!Audit, Dashboards!Read, Dashboards!Checked, Report, Dashboards!Row, Row,
     Guard
<1>6. CASE /\ rows' = rows \cup {Row(Head(todo), "lossy", TRUE)}
           /\ todo' = Tail(todo) /\ pc' = (IF Len(todo) = 1 THEN "done" ELSE "check")
  <2>1. HeadWritten /\ AfterWrite
    BY <1>1 DEF IInv, LoopInv, AfterWrite
  <2>2. \A r \in {Row(Head(todo), "lossy", TRUE)} : r.id = Head(todo)
          /\ r.result \in Results /\ r.applied = TRUE
    BY DEF Row, Results
  <2>3. \E r \in {Row(Head(todo), "lossy", TRUE)} : r.id = Head(todo)
    BY DEF Row
  <2>4. Reported
    BY <1>1, <1>2, <2>1, <2>2, <2>3, <1>6 DEF Reported, SaysUntouched, HeadWritten
  <2>5. DashboardsInv'
    BY <1>1, <1>6 DEF IInv, DashboardsInv
  <2> QED BY <1>1, <1>3, <1>4, <2>1, <2>2, <2>3, <2>4, <2>5 DEF DashboardsStep, LoopStep
<1>7. CASE /\ rows' = rows \cup {Row(Head(todo), "lossy", TRUE),
                Row(Head(todo), "failed", TRUE)}
           /\ todo' = Tail(todo) /\ pc' = (IF Len(todo) = 1 THEN "done" ELSE "check")
  <2>1. HeadWritten /\ AfterWrite
    BY <1>1 DEF IInv, LoopInv, AfterWrite
  <2>2. \A r \in {Row(Head(todo), "lossy", TRUE), Row(Head(todo), "failed", TRUE)} :
          r.id = Head(todo) /\ r.result \in Results /\ r.applied = TRUE
    BY DEF Row, Results
  <2>3. \E r \in {Row(Head(todo), "lossy", TRUE), Row(Head(todo), "failed", TRUE)} :
          r.id = Head(todo)
    BY DEF Row
  <2>4. Reported
    BY <1>1, <1>2, <2>1, <2>2, <2>3, <1>7 DEF Reported, SaysUntouched, HeadWritten
  <2>5. DashboardsInv'
    BY <1>1, <1>7 DEF IInv, DashboardsInv
  <2> QED BY <1>1, <1>3, <1>4, <2>1, <2>2, <2>3, <2>4, <2>5 DEF DashboardsStep, LoopStep
<1> QED BY <1>5, <1>6, <1>7

\* The step BeginDelete of a dashboard command.
LEMMA DashboardsBeginDelete ==
    ASSUME IInv, cmd.family = "dashboards", Dashboards!BeginDelete
    PROVE  DashboardsStep
<1>1. pc = "start" /\ cmd.op = "delete"
        /\ UNCHANGED <<cmd, plan, stack, moved, writes, rows, faults, edits>>
  BY DEF Dashboards!BeginDelete
<1>2. /\ Planning
      /\ rows = {} /\ writes = {} /\ todo \in Seq(Ids)
      /\ cmd.op \notin BulkOps /\ cmd.op # "delete_rules" /\ cmd.op # "set_enabled"
  <2>1. Planning
    BY <1>1 DEF Planning
  <2>2. rows = {} /\ writes = {} /\ todo \in Seq(Ids)
    BY <2>1 DEF IInv, LoopInv, TodoOK, QuietPlanning
  <2>3. cmd.op \notin BulkOps /\ cmd.op # "delete_rules" /\ cmd.op # "set_enabled"
    BY DEF IInv, OpOK, BulkOps
  <2> QED BY <2>1, <2>2, <2>3
<1>3. Bounds'
  <2>1. faults' = faults
    BY <1>1
  <2>2. moved' \subseteq moved
    BY <1>1
  <2> QED BY <1>1, <2>1, <2>2, BoundsKept, CommandAssumption DEF IInv, TypeOK, Bounds
<1>4. stack' \in Dashboards!StackType /\ WritesWhatWasShown' /\ PlanOK'
  BY <1>1 DEF IInv, TypeOK, StackType, WritesWhatWasShown, PlanOK
<1>5. \/ pc' = "resolve" /\ todo' = Sorted(cmd.targets)
  BY SameOrder DEF Dashboards!BeginDelete, Report, Row, Guard
<1>6. CASE pc' = "resolve" /\ todo' = Sorted(cmd.targets)
  <2>1. todo' = Sorted(cmd.targets) /\ todo' \in Seq(Ids) /\ Range(todo') = cmd.targets
    BY <1>1, <1>6, SortedFacts, CommandAssumption DEF IInv, CmdOK
  <2>2. PlansOn
    BY <1>1, <1>2, <2>1, <1>6 DEF PlansOn, Planning, Ended, Wholesale
  <2>3. DashboardsInv'
    BY <1>1, <2>1, <1>6 DEF IInv, DashboardsInv
  <2> QED BY <1>1, <1>3, <1>4, <2>1, <2>2, <2>3 DEF DashboardsStep, LoopStep
<1> QED BY <1>5, <1>6

\* The step Resolve of a dashboard command.
LEMMA DashboardsResolve ==
    ASSUME IInv, cmd.family = "dashboards", Dashboards!Resolve
    PROVE  DashboardsStep
<1>1. pc = "resolve" /\ todo # <<>> /\ UNCHANGED <<cmd, stack, writes, edits>>
  BY DEF Dashboards!Resolve
<1>2. /\ Planning
      /\ rows = {} /\ writes = {} /\ todo \in Seq(Ids)
      /\ Head(todo) \in Ids /\ Tail(todo) \in Seq(Ids)
      /\ cmd.op \notin BulkOps /\ cmd.op # "delete_rules" /\ cmd.op # "set_enabled"
  <2>1. Planning
    BY <1>1 DEF Planning
  <2>2. rows = {} /\ writes = {} /\ todo \in Seq(Ids)
    BY <2>1 DEF IInv, LoopInv, TodoOK, QuietPlanning
  <2>3. Head(todo) \in Ids /\ Tail(todo) \in Seq(Ids)
    BY <1>1, <2>2, TailFacts
  <2>4. cmd.op \notin BulkOps /\ cmd.op # "delete_rules" /\ cmd.op # "set_enabled"
    BY DEF IInv, OpOK, BulkOps
  <2> QED BY <2>1, <2>2, <2>3, <2>4
<1>3. Bounds'
  <2>1. faults' = faults \/ (faults > 0 /\ faults' = faults - 1)
    BY DEF Dashboards!Resolve, Dashboards!Read, Dashboards!Checked
  <2>2. moved' \subseteq moved
    BY DEF Dashboards!Resolve, Dashboards!Read, Dashboards!Checked
  <2> QED BY <1>1, <2>1, <2>2, BoundsKept, CommandAssumption DEF IInv, TypeOK, Bounds
<1>4. stack' \in Dashboards!StackType /\ WritesWhatWasShown'
  BY <1>1 DEF IInv, TypeOK, StackType, WritesWhatWasShown
<1>5. \/ /\ pc' = pc /\ rows' = rows /\ todo' = Tail(todo)
         /\ plan' = [plan EXCEPT !.before = Dashboards!Noted(@, Head(todo), TRUE)]
      \/ Fail /\ plan' = plan
  BY DEF Dashboards!Resolve, Dashboards!Read, Dashboards!Checked, Dashboards!Fail, Fail,
     Dashboards!Goto, Goto, Report, Row, Guard
<1>6. CASE /\ pc' = pc /\ rows' = rows /\ todo' = Tail(todo)
           /\ plan' = [plan EXCEPT !.before = Dashboards!Noted(@, Head(todo), TRUE)]
  <2>1. Range(todo) = {Head(todo)} \cup Range(Tail(todo))
    BY <1>1, <1>2, TailFacts
  <2>2. PlanOK'
    BY <1>1, <1>2, <1>6 DEF IInv, PlanOK, Dashboards!Noted
  <2>3. PlansOn
    BY <1>1, <1>2, <1>6 DEF PlansOn, Planning, Ended, Wholesale, Goto, Fail
  <2>4. DashboardsInv'
    BY <1>1, <2>1, <1>6 DEF IInv, PlanOK, DashboardsInv, Dashboards!Noted
  <2> QED BY <1>1, <1>3, <1>4, <2>1, <2>2, <2>3, <2>4 DEF DashboardsStep, LoopStep
<1>7. CASE Fail /\ plan' = plan
  <2>1. PlanOK'
    BY <1>1, <1>7 DEF IInv, PlanOK
  <2>2. PlansOn
    BY <1>1, <1>2, <1>7 DEF PlansOn, Planning, Ended, Wholesale, Goto, Fail
  <2>3. DashboardsInv'
    BY <1>1, <1>7 DEF IInv, DashboardsInv, Goto, Fail
  <2> QED BY <1>1, <1>3, <1>4, <2>1, <2>2, <2>3 DEF DashboardsStep, LoopStep
<1> QED BY <1>5, <1>6, <1>7

\* The step PlanDelete of a dashboard command.
LEMMA DashboardsPlanDelete ==
    ASSUME IInv, cmd.family = "dashboards", Dashboards!PlanDelete
    PROVE  DashboardsStep
<1>1. pc = "resolve" /\ todo = <<>> /\ UNCHANGED <<cmd, stack, moved, writes, faults, edits>>
  BY DEF Dashboards!PlanDelete
<1>2. /\ Planning
      /\ rows = {} /\ writes = {} /\ todo \in Seq(Ids)
      /\ cmd.op \notin BulkOps /\ cmd.op # "delete_rules" /\ cmd.op # "set_enabled"
  <2>1. Planning
    BY <1>1 DEF Planning
  <2>2. rows = {} /\ writes = {} /\ todo \in Seq(Ids)
    BY <2>1 DEF IInv, LoopInv, TodoOK, QuietPlanning
  <2>3. cmd.op \notin BulkOps /\ cmd.op # "delete_rules" /\ cmd.op # "set_enabled"
    BY DEF IInv, OpOK, BulkOps
  <2> QED BY <2>1, <2>2, <2>3
<1>3. Bounds'
  <2>1. faults' = faults
    BY <1>1
  <2>2. moved' \subseteq moved
    BY <1>1
  <2> QED BY <1>1, <2>1, <2>2, BoundsKept, CommandAssumption DEF IInv, TypeOK, Bounds
<1>4. stack' \in Dashboards!StackType /\ WritesWhatWasShown'
  BY <1>1 DEF IInv, TypeOK, StackType, WritesWhatWasShown
<1>5. \/ /\ Guard(plan, Sorted(cmd.targets))
         /\ rows' = rows
  BY SameOrder DEF Dashboards!PlanDelete, Report, Row, Dashboards!Guard, Guard
<1>6. CASE /\ Guard(plan, Sorted(cmd.targets))
           /\ rows' = rows
  <2>1. cmd.targets \in SUBSET Ids /\ cmd.targets \subseteq Touchable /\ cmd.yes \in BOOLEAN
    BY <1>1, <1>2 DEF IInv, CmdOK, DashboardsInv, Touchable
  <2>2. /\ Guarded /\ plan' = plan /\ pc' \in {"check", "done"}
        /\ pc' = "check" => Range(todo') = cmd.targets
    BY <1>1, <1>2, <2>1, <1>6, SortedGuard, CommandAssumption
  <2>3. PlanOK'
    BY <1>1, <2>1, <2>2 DEF IInv, PlanOK, CmdOK
  <2>4. \A o \in cmd.targets : plan.before[o] = TRUE
    BY <1>1 DEF IInv, DashboardsInv, Range
  <2>5. DashboardsInv'
    BY <1>1, <2>2, <2>4 DEF IInv, DashboardsInv
  <2> QED BY <1>1, <1>3, <1>4, <2>1, <2>2, <2>3, <2>4, <2>5 DEF DashboardsStep, LoopStep
<1> QED BY <1>5, <1>6

\* The step Delete of a dashboard command.
LEMMA DashboardsDelete ==
    ASSUME IInv, cmd.family = "dashboards", Dashboards!Delete
    PROVE  DashboardsStep
<1> DEFINE w == Write(Head(todo), plan.before[Head(todo)], TRUE, {Head(todo)})
           u == Unanswered(w)
           new == [stack EXCEPT !.board[Head(todo)] = Dashboards!Absent]
<1>1. pc = "check" /\ cmd.op = "delete" /\ UNCHANGED <<cmd, plan, moved, edits>>
  BY DEF Dashboards!Delete
<1>2. /\ Looping
      /\ todo # <<>> /\ todo \in Seq(Ids) /\ Head(todo) \in Ids /\ Head(todo) \in Touchable
           /\ ~Planning /\ ~Ended
      /\ cmd.op \notin BulkOps /\ cmd.op # "delete_rules" /\ cmd.op # "set_enabled"
  <2>1. Looping
    BY <1>1 DEF Looping, Ended, Planning, Wholesale
  <2>2. todo # <<>> /\ todo \in Seq(Ids) /\ Head(todo) \in Ids /\ Head(todo) \in Touchable
          /\ ~Planning /\ ~Ended
    BY <2>1, LoopFacts DEF IInv
  <2>3. cmd.op \notin BulkOps /\ cmd.op # "delete_rules" /\ cmd.op # "set_enabled"
    BY DEF IInv, OpOK, BulkOps
  <2> QED BY <2>1, <2>2, <2>3
<1>3. Bounds'
  <2>1. faults' = faults \/ (faults > 0 /\ faults' = faults - 1)
    BY DEF Dashboards!Delete, Dashboards!Mutate, Dashboards!MutateAll
  <2>2. moved' \subseteq moved
    BY <1>1
  <2> QED BY <1>1, <2>1, <2>2, BoundsKept, CommandAssumption DEF IInv, TypeOK, Bounds
<1>4. PlanOK'
  BY <1>1 DEF IInv, PlanOK
<1>5. \/ /\ Report(Head(todo), "failed", FALSE)
         /\ stack' = stack /\ writes' = writes
      \/ /\ Report(Head(todo), "failed", FALSE)
         /\ stack' = new /\ writes' = writes \cup {u}
      \/ /\ Report(Head(todo), "deleted", TRUE)
         /\ stack' = new /\ writes' = writes \cup {w}
      \/ /\ pc' = pc /\ todo' = todo /\ rows' = rows
         /\ stack' = new /\ writes' = writes \cup {u}
  BY DEF Dashboards!Delete, Dashboards!Mutate, Dashboards!MutateAll, Dashboards!Report,
     Report, Dashboards!Row, Row, Dashboards!runVars, runVars, Guard, Dashboards!Write, Write,
     Dashboards!Unanswered, Unanswered
<1>6. /\ w.id = Head(todo) /\ w.answered = TRUE /\ u.id = Head(todo) /\ u.answered = FALSE
      /\ w.asShown = TRUE \/ Unanswers(Head(todo))
  <2>1. (TRUE) = (plan.before[Head(todo)]) \/ moved \cap {Head(todo)} # {}
          \/ Unanswers(Head(todo))
    BY <1>1, <1>2 DEF IInv, DashboardsInv, Touchable
  <2> QED BY <2>1 DEF Write, Unanswered
<1>7. TRUE => new \in Dashboards!StackType
  <2>1. stack \in Dashboards!StackType
    BY DEF IInv, TypeOK, StackType
  <2> QED BY <1>2, <2>1 DEF Dashboards!StackType, Dashboards!Absent, Dashboards!Lossy
<1> HIDE DEF w, u, new
<1>8. CASE /\ Report(Head(todo), "failed", FALSE)
           /\ stack' = stack /\ writes' = writes
  <2>1. stack' \in Dashboards!StackType
    BY <1>1, <1>8 DEF IInv, TypeOK, StackType
  <2>2. WritesWhatWasShown'
    BY <1>1, <1>8 DEF IInv, WritesWhatWasShown
  <2>3. Reported
    BY <1>1, <1>2, <1>8, RowWithoutWrite DEF Results, AfterWrite
  <2>4. DashboardsInv'
    BY <1>1, <1>6, <1>8 DEF IInv, DashboardsInv, Excused, Unanswers, Report
  <2> QED BY <1>1, <1>3, <1>4, <2>1, <2>2, <2>3, <2>4 DEF DashboardsStep, LoopStep
<1>9. CASE /\ Report(Head(todo), "failed", FALSE)
           /\ stack' = new /\ writes' = writes \cup {u}
  <2>1. stack' \in Dashboards!StackType
    BY <1>7, <1>9
  <2>2. WritesWhatWasShown'
    BY <1>6, <1>9, ShownWrite DEF IInv
  <2>3. Reported
    BY <1>1, <1>2, <1>6, <1>9, RowOfLostWrite DEF Results, AfterWrite
  <2>4. DashboardsInv'
    BY <1>1, <1>6, <1>9 DEF IInv, DashboardsInv, Excused, Unanswers, Report
  <2> QED BY <1>1, <1>3, <1>4, <2>1, <2>2, <2>3, <2>4 DEF DashboardsStep, LoopStep
<1>10. CASE /\ Report(Head(todo), "deleted", TRUE)
            /\ stack' = new /\ writes' = writes \cup {w}
  <2>1. stack' \in Dashboards!StackType
    BY <1>7, <1>10
  <2>2. WritesWhatWasShown'
    BY <1>6, <1>10, ShownWrite DEF IInv
  <2>3. Reported
    BY <1>1, <1>2, <1>6, <1>10, RowOfWrite DEF Results, AfterWrite
  <2>4. DashboardsInv'
    BY <1>1, <1>6, <1>10 DEF IInv, DashboardsInv, Excused, Unanswers, Report
  <2> QED BY <1>1, <1>3, <1>4, <2>1, <2>2, <2>3, <2>4 DEF DashboardsStep, LoopStep
<1>11. CASE /\ pc' = pc /\ todo' = todo /\ rows' = rows
            /\ stack' = new /\ writes' = writes \cup {u}
  <2>1. stack' \in Dashboards!StackType
    BY <1>7, <1>11
  <2>2. WritesWhatWasShown'
    BY <1>6, <1>11, ShownWrite DEF IInv
  <2>3. SendsAgain
    BY <1>1, <1>2, <1>6, <1>11 DEF SendsAgain, runVars, AfterWrite
  <2>4. DashboardsInv'
    BY <1>1, <1>6, <1>11 DEF IInv, DashboardsInv, Excused, Unanswers, Report
  <2> QED BY <1>1, <1>3, <1>4, <2>1, <2>2, <2>3, <2>4 DEF DashboardsStep, LoopStep
<1> QED BY <1>5, <1>8, <1>9, <1>10, <1>11

\* The step PlanBundle of a dashboard command.
LEMMA DashboardsPlanBundle ==
    ASSUME IInv, cmd.family = "dashboards", Dashboards!PlanBundle
    PROVE  DashboardsStep
<1>1. pc = "start" /\ cmd.op = "bundle"
        /\ UNCHANGED <<cmd, stack, moved, writes, faults, edits>>
  BY DEF Dashboards!PlanBundle
<1>2. /\ Planning
      /\ rows = {} /\ writes = {} /\ todo \in Seq(Ids)
      /\ cmd.op \notin BulkOps /\ cmd.op # "delete_rules" /\ cmd.op # "set_enabled"
  <2>1. Planning
    BY <1>1 DEF Planning
  <2>2. rows = {} /\ writes = {} /\ todo \in Seq(Ids)
    BY <2>1 DEF IInv, LoopInv, TodoOK, QuietPlanning
  <2>3. cmd.op \notin BulkOps /\ cmd.op # "delete_rules" /\ cmd.op # "set_enabled"
    BY DEF IInv, OpOK, BulkOps
  <2> QED BY <2>1, <2>2, <2>3
<1>3. Bounds'
  <2>1. faults' = faults
    BY <1>1
  <2>2. moved' \subseteq moved
    BY <1>1
  <2> QED BY <1>1, <2>1, <2>2, BoundsKept, CommandAssumption DEF IInv, TypeOK, Bounds
<1>4. stack' \in Dashboards!StackType /\ WritesWhatWasShown'
  BY <1>1 DEF IInv, TypeOK, StackType, WritesWhatWasShown
<1>5. \/ /\ Goto("import_bundle") /\ cmd.yes
         /\ plan' = [before |-> [o \in cmd.targets |-> TRUE]]
      \/ /\ Goto("done")
         /\ plan' = [before |-> [o \in cmd.targets |-> TRUE]]
  BY DEF Dashboards!PlanBundle, Dashboards!Goto, Goto, Report, Row, Guard
<1>6. CASE /\ Goto("import_bundle") /\ cmd.yes
           /\ plan' = [before |-> [o \in cmd.targets |-> TRUE]]
  <2>1. PlanOK'
    BY <1>1, <1>6 DEF IInv, CmdOK, PlanOK
  <2>2. PlansOn
    BY <1>1, <1>2, <1>6 DEF PlansOn, Planning, Ended, Wholesale, Goto
  <2>3. DashboardsInv'
    BY <1>1, <1>6 DEF IInv, DashboardsInv, Goto
  <2> QED BY <1>1, <1>3, <1>4, <2>1, <2>2, <2>3 DEF DashboardsStep, LoopStep
<1>7. CASE /\ Goto("done")
           /\ plan' = [before |-> [o \in cmd.targets |-> TRUE]]
  <2>1. PlanOK'
    BY <1>1, <1>7 DEF IInv, CmdOK, PlanOK
  <2>2. PlansOn
    BY <1>1, <1>2, <1>7 DEF PlansOn, Planning, Ended, Wholesale, Goto
  <2>3. DashboardsInv'
    BY <1>1, <1>7 DEF IInv, DashboardsInv, Goto
  <2> QED BY <1>1, <1>3, <1>4, <2>1, <2>2, <2>3 DEF DashboardsStep, LoopStep
<1> QED BY <1>5, <1>6, <1>7

\* The step ImportBundle of a dashboard command.
LEMMA DashboardsImportBundle ==
    ASSUME IInv, cmd.family = "dashboards", Dashboards!ImportBundle
    PROVE  DashboardsStep
<1>1. pc = "import_bundle" /\ UNCHANGED <<cmd, plan, moved, edits>>
  BY DEF Dashboards!ImportBundle
<1>2. /\ ~Planning /\ ~Ended /\ ~AfterWrite /\ rows = {} /\ cmd.op = "bundle"
      /\ cmd.targets = Ids /\ stack \in Dashboards!StackType
  BY <1>1 DEF Planning, Ended, AfterWrite, IInv, LoopInv, BulkIsFirst, Bulk, DashboardsInv,
     CmdOK, TypeOK, StackType
<1>3. PICK refused \in SUBSET Ids :
        LET kept   == refused
          \cup {o \in Ids : ~cmd.overwrite /\ stack.board[o] # Dashboards!Absent}
            stored == [stack EXCEPT !.board = [o \in Ids |->
                          IF o \in kept THEN stack.board[o] ELSE Dashboards!Desired]]
            all    == {Write(o, TRUE, TRUE, {}) : o \in Ids \ kept}
            report == {IF o \in kept THEN Row(o, "failed", FALSE)
                       ELSE Row(o, "created", TRUE) : o \in Ids}
        IN Dashboards!MutateAll(stored, all, ReportAll(report), Fail, TRUE)
  BY DEF Dashboards!ImportBundle, Dashboards!Write, Write, Dashboards!Row, Row,
     Dashboards!Fail, Fail, Dashboards!Goto, Goto, Dashboards!ReportAll, ReportAll
<1> DEFINE kept   == refused
             \cup {o \in Ids : ~cmd.overwrite /\ stack.board[o] # Dashboards!Absent}
           stored == [stack EXCEPT !.board = [o \in Ids |->
                         IF o \in kept THEN stack.board[o] ELSE Dashboards!Desired]]
           all    == {Write(o, TRUE, TRUE, {}) : o \in Ids \ kept}
           lost   == {Unanswered(w) : w \in all}
           report == {IF o \in kept THEN Row(o, "failed", FALSE)
                      ELSE Row(o, "created", TRUE) : o \in Ids}
<1>4. /\ faults' = faults \/ (faults > 0 /\ faults' = faults - 1)
      /\ \/ stack' = stored /\ writes' = writes \cup all /\ ReportAll(report)
         \/ stack' = stack /\ writes' = writes /\ Fail
         \/ stack' = stored /\ writes' = writes \cup lost /\ Fail
         \/ stack' = stored /\ writes' = writes \cup lost /\ UNCHANGED runVars
  BY <1>3 DEF Dashboards!MutateAll, Dashboards!Unanswered, Unanswered, Dashboards!runVars,
     runVars
<1>5. stored \in Dashboards!StackType
  BY <1>2 DEF Dashboards!StackType, Dashboards!Absent, Dashboards!Desired, Dashboards!Lossy
<1>6. /\ \A w \in all : w.id \in Ids \ kept /\ w.asShown = TRUE
      /\ \A w \in lost : w.id \in Ids /\ w.answered = FALSE
      /\ \A r \in report : /\ r.id \in Ids /\ r.result \in {"failed", "created"}
                           /\ r.applied \in BOOLEAN
                           /\ r.applied => \E w \in all : w.id = r.id
      /\ \A o \in Ids : \E r \in report : r.id = o
  <2>1. \A o \in Ids : Row(o, "failed", FALSE).id = o /\ Row(o, "created", TRUE).id = o
    BY DEF Row
  <2>2. \A w \in all : w.id \in Ids \ kept /\ w.asShown = TRUE
    <3> SUFFICES ASSUME NEW o \in Ids \ kept
                 PROVE  Write(o, TRUE, TRUE, {}).id = o
                          /\ Write(o, TRUE, TRUE, {}).asShown = TRUE
      OBVIOUS
    <3> QED BY DEF Write
  <2>3. \A w \in lost : w.id \in Ids /\ w.answered = FALSE
    BY DEF Write, Unanswered
  <2>4. \A o \in Ids \ kept : \E w \in all : w.id = o
    <3> SUFFICES ASSUME NEW o \in Ids \ kept PROVE \E w \in all : w.id = o
      OBVIOUS
    <3>1. Write(o, TRUE, TRUE, {}) \in all /\ Write(o, TRUE, TRUE, {}).id = o
      BY DEF Write
    <3> QED BY <3>1
  <2>5. \A o \in Ids : \E r \in report : r.id = o
    BY <2>1
  <2>6. ASSUME NEW r \in report
        PROVE /\ r.id \in Ids /\ r.result \in {"failed", "created"} /\ r.applied \in BOOLEAN
              /\ r.applied => \E w \in all : w.id = r.id
    <3>1. PICK o \in Ids : r = IF o \in kept THEN Row(o, "failed", FALSE)
                 ELSE Row(o, "created", TRUE)
      BY <2>6
    <3> HIDE DEF all, kept
    <3>2. CASE o \in kept
      BY <3>1, <3>2 DEF Row
    <3>3. CASE o \notin kept
      BY <2>4, <3>1, <3>3 DEF Row
    <3> QED BY <3>2, <3>3
  <2> QED BY <2>2, <2>3, <2>5, <2>6
<1> HIDE DEF kept, stored, all, lost, report
<1>7. Bounds'
  BY <1>1, <1>4, BoundsKept, CommandAssumption DEF IInv, TypeOK, Bounds
<1>8. stack' \in Dashboards!StackType /\ PlanOK'
  BY <1>1, <1>2, <1>4, <1>5 DEF IInv, PlanOK
<1>9. WritesWhatWasShown'
  BY <1>4, <1>6 DEF IInv, WritesWhatWasShown
<1>10. DashboardsInv'
  BY <1>1, <1>2, <1>4 DEF DashboardsInv, ReportAll, Fail, Goto, runVars
<1>11. LoopStep
  <2>1. CASE stack' = stored /\ writes' = writes \cup all /\ ReportAll(report)
    <3>1. \A r \in rows' : ~SaysUntouched(r)
      BY <1>2, <1>6, <2>1 DEF SaysUntouched, ReportAll
    <3>2. Finishes
      BY <1>2, <1>6, <2>1, <3>1 DEF Finishes, ReportAll, Touchable, Results
    <3> QED BY <1>1, <3>2 DEF LoopStep
  <2>2. CASE stack' = stack /\ writes' = writes /\ Fail
    BY <1>1, <1>2, <2>2 DEF LoopStep, GivesUp, Fail, Goto
  <2>3. CASE stack' = stored /\ writes' = writes \cup lost /\ Fail
    BY <1>1, <1>2, <1>6, <2>3 DEF LoopStep, GivesUp, Fail, Goto, Touchable
  <2>4. CASE stack' = stored /\ writes' = writes \cup lost /\ UNCHANGED runVars
    BY <1>1, <1>2, <1>6, <2>4 DEF LoopStep, SendsAgain, runVars, Touchable, AfterWrite
  <2> QED BY <1>4, <2>1, <2>2, <2>3, <2>4
<1> QED BY <1>7, <1>8, <1>9, <1>10, <1>11 DEF DashboardsStep

\* Another client at work during a dashboard command.
LEMMA DashboardsOthersEdit ==
    ASSUME IInv, cmd.family = "dashboards", Dashboards!OthersEdit
    PROVE  DashboardsStep
<1>1. ~Ended /\ edits > 0 /\ edits' = edits - 1
        /\ UNCHANGED <<cmd, pc, todo, plan, writes, rows, faults>>
  BY DEF Dashboards!OthersEdit, Dashboards!Edit, Dashboards!Ended, Ended
<1>2. \/ \E o \in Ids, v \in {Dashboards!Absent, Dashboards!Other} :
           stack' = [stack EXCEPT !.board[o] = v] /\ moved' = moved \cup {o}
      \/ cmd.op = "import" /\ stack' = [stack EXCEPT !.view = FALSE]
           /\ moved' = moved \cup {Dashboards!View}
  BY DEF Dashboards!OthersEdit, Dashboards!Edit
<1>3. Watches
  BY <1>1 DEF Watches
<1>4. WritesWhatWasShown' /\ PlanOK'
  BY <1>1 DEF IInv, WritesWhatWasShown, PlanOK
<1>5. stack \in Dashboards!StackType /\ Bounds /\ DashboardsInv
  BY DEF IInv, TypeOK, StackType, Bounds
<1>6. CASE \E o \in Ids, v \in {Dashboards!Absent, Dashboards!Other} :
             stack' = [stack EXCEPT !.board[o] = v] /\ moved' = moved \cup {o}
  <2>1. PICK o \in Ids, v \in {Dashboards!Absent, Dashboards!Other} :
               stack' = [stack EXCEPT !.board[o] = v] /\ moved' = moved \cup {o}
    BY <1>6
  <2>2. stack' \in Dashboards!StackType
    BY <1>5, <2>1 DEF Dashboards!StackType, Dashboards!Absent, Dashboards!Other,
       Dashboards!Lossy
  <2>3. Bounds'
    BY <1>1, <1>5, <2>1, CommandAssumption DEF Bounds, CommandAssumption, Dashboards!View
  <2>4. DashboardsInv'
    BY <1>1, <1>5, <2>1 DEF DashboardsInv, Excused, Unanswers
  <2> QED BY <1>1, <1>3, <1>4, <2>2, <2>3, <2>4 DEF DashboardsStep, LoopStep
<1>7. CASE cmd.op = "import" /\ stack' = [stack EXCEPT !.view = FALSE]
             /\ moved' = moved \cup {Dashboards!View}
  <2>1. cmd.op = "import" /\ stack' = [stack EXCEPT !.view = FALSE]
          /\ moved' = moved \cup {Dashboards!View}
    BY <1>7
  <2>2. stack' \in Dashboards!StackType
    BY <1>5, <2>1 DEF Dashboards!StackType, Dashboards!Absent, Dashboards!Other,
       Dashboards!Lossy
  <2>3. Bounds'
    BY <1>1, <1>5, <2>1, CommandAssumption DEF Bounds, CommandAssumption, Dashboards!View
  <2>4. DashboardsInv'
    BY <1>1, <1>5, <2>1 DEF DashboardsInv, Excused, Unanswers
  <2> QED BY <1>1, <1>3, <1>4, <2>2, <2>3, <2>4 DEF DashboardsStep, LoopStep
<1> QED BY <1>2, <1>6, <1>7

-----------------------------------------------------------------------------
(* Rules and exception lists.                                                *)

\* What every step of a detection command does.
DetectionStep ==
    /\ LoopStep /\ stack' \in Detection!StackType /\ Bounds' /\ PlanOK'
    /\ WritesWhatWasShown' /\ DetectionInv'

\* The step BeginSelected of a detection command.
LEMMA DetectionBeginSelected ==
    ASSUME IInv, cmd.family = "detection", Detection!BeginSelected
    PROVE  DetectionStep
<1>1. pc = "start" /\ cmd.op \in {"set_enabled", "delete_rules"}
        /\ UNCHANGED <<cmd, plan, stack, moved, writes, rows, faults, edits>>
  BY DEF Detection!BeginSelected
<1>2. /\ Planning
      /\ rows = {} /\ writes = {} /\ todo \in Seq(Ids)
  <2>1. Planning
    BY <1>1 DEF Planning
  <2>2. rows = {} /\ writes = {} /\ todo \in Seq(Ids)
    BY <2>1 DEF IInv, LoopInv, TodoOK, QuietPlanning
  <2> QED BY <2>1, <2>2
<1>3. Bounds'
  <2>1. faults' = faults
    BY <1>1
  <2>2. moved' \subseteq moved
    BY <1>1
  <2> QED BY <1>1, <2>1, <2>2, BoundsKept, CommandAssumption DEF IInv, TypeOK, Bounds
<1>4. stack' \in Detection!StackType /\ WritesWhatWasShown' /\ PlanOK'
  BY <1>1 DEF IInv, TypeOK, StackType, WritesWhatWasShown, PlanOK
<1>5. \/ pc' = "resolve" /\ todo' = cmd.selectors
  BY DEF Detection!BeginSelected, Report, Row, Guard
<1>6. CASE pc' = "resolve" /\ todo' = cmd.selectors
  <2>1. todo' \in Seq(Ids) /\ Range(todo') = cmd.targets
    BY <1>1, <1>6 DEF IInv, CmdOK
  <2>2. PlansOn
    BY <1>1, <1>2, <2>1, <1>6 DEF PlansOn, Planning, Ended, Wholesale
  <2>3. DetectionInv'
    BY <1>1, <2>1, <1>6 DEF DetectionInv
  <2> QED BY <1>1, <1>3, <1>4, <2>1, <2>2, <2>3 DEF DetectionStep, LoopStep
<1> QED BY <1>5, <1>6

\* The step ResolveRule of a detection command.
LEMMA DetectionResolveRule ==
    ASSUME IInv, cmd.family = "detection", Detection!ResolveRule
    PROVE  DetectionStep
<1>1. pc = "resolve" /\ todo # <<>> /\ UNCHANGED <<cmd, stack, writes, edits>>
  BY DEF Detection!ResolveRule
<1>2. /\ Planning
      /\ rows = {} /\ writes = {} /\ todo \in Seq(Ids)
      /\ Head(todo) \in Ids /\ Tail(todo) \in Seq(Ids)
  <2>1. Planning
    BY <1>1 DEF Planning
  <2>2. rows = {} /\ writes = {} /\ todo \in Seq(Ids)
    BY <2>1 DEF IInv, LoopInv, TodoOK, QuietPlanning
  <2>3. Head(todo) \in Ids /\ Tail(todo) \in Seq(Ids)
    BY <1>1, <2>2, TailFacts
  <2> QED BY <2>1, <2>2, <2>3
<1>3. Bounds'
  <2>1. faults' = faults \/ (faults > 0 /\ faults' = faults - 1)
    BY DEF Detection!ResolveRule, Detection!Read, Detection!Checked
  <2>2. moved' \subseteq moved
    BY DEF Detection!ResolveRule, Detection!Read, Detection!Checked
  <2> QED BY <1>1, <2>1, <2>2, BoundsKept, CommandAssumption DEF IInv, TypeOK, Bounds
<1>4. stack' \in Detection!StackType /\ WritesWhatWasShown'
  BY <1>1 DEF IInv, TypeOK, StackType, WritesWhatWasShown
<1>5. \/ /\ pc' = pc /\ rows' = rows /\ todo' = Tail(todo)
         /\ plan' = [plan EXCEPT !.before
              = Detection!Noted(@, Head(todo), stack.rule[Head(todo)])]
         /\ moved' = moved \ {Head(todo)}
      \/ Fail /\ plan' = plan
  BY DEF Detection!ResolveRule, Detection!Read, Detection!Checked, Detection!Fail, Fail,
     Detection!Goto, Goto, Report, Row, Guard
<1>6. CASE /\ pc' = pc /\ rows' = rows /\ todo' = Tail(todo)
           /\ plan' = [plan EXCEPT !.before
                = Detection!Noted(@, Head(todo), stack.rule[Head(todo)])]
           /\ moved' = moved \ {Head(todo)}
  <2>1. Range(todo) = {Head(todo)} \cup Range(Tail(todo))
    BY <1>1, <1>2, TailFacts
  <2>2. PlanOK'
    BY <1>1, <1>2, <1>6 DEF IInv, PlanOK, Detection!Noted
  <2>3. PlansOn
    BY <1>1, <1>2, <1>6 DEF PlansOn, Planning, Ended, Wholesale, Goto, Fail
  <2>4. DetectionInv'
    <3>1. /\ "before" \in DOMAIN plan /\ moved' = moved \ {Head(todo)} /\ writes' = writes
               /\ stack' = stack
          /\ plan'.before = Detection!Noted(plan.before, Head(todo), stack.rule[Head(todo)])
      BY <1>1, <1>2, <1>6 DEF IInv, PlanOK
    <3>2. \A o \in cmd.targets : o \in Range(todo)
            \/ (o \in DOMAIN plan.before /\ RuleSeen(o))
      BY <1>1 DEF IInv, DetectionInv
    <3>3. \A o \in cmd.targets : o \in Range(todo')
            \/ (o \in DOMAIN plan'.before /\ RuleSeen(o)')
      BY <2>1, <3>1, <3>2, <1>6 DEF Detection!Noted, RuleSeen, Excused, Unanswers
    <3> QED BY <1>1, <3>3, <1>6 DEF IInv, DetectionInv
  <2> QED BY <1>1, <1>3, <1>4, <2>1, <2>2, <2>3, <2>4 DEF DetectionStep, LoopStep
<1>7. CASE Fail /\ plan' = plan
  <2>1. PlanOK'
    BY <1>1, <1>7 DEF IInv, PlanOK
  <2>2. PlansOn
    BY <1>1, <1>2, <1>7 DEF PlansOn, Planning, Ended, Wholesale, Goto, Fail
  <2>3. DetectionInv'
    BY <1>1, <1>7 DEF IInv, DetectionInv, Goto, Fail
  <2> QED BY <1>1, <1>3, <1>4, <2>1, <2>2, <2>3 DEF DetectionStep, LoopStep
<1> QED BY <1>5, <1>6, <1>7

\* The step PlanSelected of a detection command.
LEMMA DetectionPlanSelected ==
    ASSUME IInv, cmd.family = "detection", Detection!PlanSelected
    PROVE  DetectionStep
<1>1. pc = "resolve" /\ todo = <<>> /\ UNCHANGED <<cmd, stack, moved, writes, faults, edits>>
  BY DEF Detection!PlanSelected
<1>2. /\ Planning
      /\ rows = {} /\ writes = {} /\ todo \in Seq(Ids)
  <2>1. Planning
    BY <1>1 DEF Planning
  <2>2. rows = {} /\ writes = {} /\ todo \in Seq(Ids)
    BY <2>1 DEF IInv, LoopInv, TodoOK, QuietPlanning
  <2> QED BY <2>1, <2>2
<1>3. Bounds'
  <2>1. faults' = faults
    BY <1>1
  <2>2. moved' \subseteq moved
    BY <1>1
  <2> QED BY <1>1, <2>1, <2>2, BoundsKept, CommandAssumption DEF IInv, TypeOK, Bounds
<1>4. stack' \in Detection!StackType /\ WritesWhatWasShown'
  BY <1>1 DEF IInv, TypeOK, StackType, WritesWhatWasShown
<1>5. \/ Guard(plan, cmd.selectors) /\ rows' = rows
  BY DEF Detection!PlanSelected, Report, Row, Detection!Guard, Guard
<1>6. CASE Guard(plan, cmd.selectors) /\ rows' = rows
  <2>1. PlanOK'
    BY <1>1, <1>6 DEF IInv, PlanOK, Guard
  <2>2. plan' = plan /\ pc' \in {"check", "done"}
    BY <1>6 DEF Guard
  <2>3. cmd.op \in {"set_enabled", "delete_rules"}
    BY <1>1 DEF IInv, DetectionInv
  <2>4. cmd.selectors \in Seq(Ids) /\ Range(cmd.selectors) \subseteq Touchable
    BY <2>3 DEF IInv, CmdOK, Touchable
  <2>5. Guarded
    BY <1>1, <1>2, <2>2, <2>3, <2>4, <1>6 DEF Guard, Guarded, Bulk, IInv, CmdOK
  <2>6. \A o \in cmd.targets : RuleSeen(o)'
    <3>1. \A o \in cmd.targets : RuleSeen(o)
      BY <1>1 DEF IInv, DetectionInv, Range
    <3> QED BY <1>1, <2>2, <3>1 DEF RuleSeen, Excused, Unanswers
  <2>7. DetectionInv'
    BY <1>1, <2>2, <2>3, <2>6 DEF DetectionInv
  <2> QED BY <1>1, <1>3, <1>4, <2>1, <2>2, <2>3, <2>4, <2>5, <2>6, <2>7 DEF DetectionStep,
         LoopStep
<1> QED BY <1>5, <1>6

\* The step SetEnabled of a detection command.
LEMMA DetectionSetEnabled ==
    ASSUME IInv, cmd.family = "detection", Detection!SetEnabled
    PROVE  DetectionStep
<1>1. pc = "check" /\ cmd.op = "set_enabled" /\ UNCHANGED <<cmd, plan, moved, edits>>
  BY DEF Detection!SetEnabled
<1>2. /\ rows = {}
      /\ stack \in Detection!StackType
      /\ cmd.targets \subseteq Ids /\ Touchable = cmd.targets
      /\ cmd.op # "delete_rules" /\ cmd.op # "import" /\ cmd.family # "agent_policies"
      /\ \A o \in cmd.targets : plan.before[o] = stack.rule[o] \/ moved \cap {o} # {}
           \/ Unanswers(o)
  <2>1. rows = {}
    BY <1>1 DEF IInv, LoopInv, BulkIsFirst, Bulk, BulkOps
  <2>2. stack \in Detection!StackType
    BY DEF IInv, TypeOK, StackType
  <2>3. cmd.targets \subseteq Ids /\ Touchable = cmd.targets
    BY <1>1 DEF IInv, CmdOK, Touchable
  <2>4. cmd.op # "delete_rules" /\ cmd.op # "import" /\ cmd.family # "agent_policies"
    BY <1>1
  <2>5. \A o \in cmd.targets : plan.before[o] = stack.rule[o] \/ moved \cap {o} # {}
          \/ Unanswers(o)
    BY <1>1 DEF IInv, DetectionInv, RuleSeen, Excused
  <2> QED BY <2>1, <2>2, <2>3, <2>4, <2>5
<1>3. PICK refused \in SUBSET {o \in cmd.targets : stack.rule[o] # Detection!Absent
             /\ stack.rule[o] # Detection!Desired} :
       LET there == {o \in cmd.targets : stack.rule[o] # Detection!Absent}
           same  == {o \in there : stack.rule[o] = Detection!Desired}
           done == there \ (same \cup refused)
           new  == [stack EXCEPT !.rule = [o \in Ids |->
                       IF o \in done THEN Detection!Desired ELSE stack.rule[o]]]
       IN Detection!MutateAll(new, {Detection!Write(o, plan.before[o], stack.rule[o], {o}) :
         o \in done},
                         Detection!ReportAll({Detection!Row(o, "changed", TRUE) : o \in done}
                                      \cup {Detection!Row(o, "failed", FALSE) : o \in refused}
                                      \cup {Detection!Row(o, "skipped", FALSE) : o \in same}),
                         Detection!Fail, TRUE)
  BY DEF Detection!SetEnabled
<1> DEFINE there == {o \in cmd.targets : stack.rule[o] # Detection!Absent}
           same == {o \in there : stack.rule[o] = Detection!Desired}
           D == there \ (same \cup refused)
           new == [stack EXCEPT !.rule = [o \in Ids |->
                     IF o \in D THEN Detection!Desired ELSE stack.rule[o]]]
           all == {Write(o, plan.before[o], stack.rule[o], {o}) : o \in D}
           lost == {Unanswered(w) : w \in all}
           R == {Row(o, "changed", TRUE) : o \in D}
             \cup {Row(o, "failed", FALSE) : o \in refused}
               \cup {Row(o, "skipped", FALSE) : o \in same}
<1>4. /\ faults' = faults \/ (faults > 0 /\ faults' = faults - 1)
      /\ \/ stack' = new /\ writes' = writes \cup all /\ ReportAll(rows \cup R)
         \/ stack' = stack /\ writes' = writes /\ Fail
         \/ stack' = new /\ writes' = writes \cup lost /\ Fail
         \/ stack' = new /\ writes' = writes \cup lost /\ UNCHANGED runVars
  BY <1>2, <1>3 DEF Detection!MutateAll, Detection!Write, Write, Detection!Unanswered,
     Unanswered, Detection!Row, Row, Detection!Fail, Fail, Detection!Goto, Goto,
     Detection!ReportAll, ReportAll, Detection!runVars, runVars
<1>5. new \in Detection!StackType
  BY <1>2 DEF Detection!StackType, Detection!Absent, Detection!Desired
<1>6. D \subseteq Ids /\ D \subseteq Touchable
  BY <1>2
<1>7. \A o \in Ids : o \notin D => new.rule[o] = stack.rule[o]
  BY <1>2 DEF Detection!StackType
<1>8. /\ \A w \in all : w.id \in D /\ w.answered = TRUE
      /\ \A w \in all : w.asShown = TRUE \/ Unanswers(w.id)
      /\ \A w \in lost : w.id \in D /\ w.answered = FALSE
      /\ \A o \in D : (\E w \in all : w.id = o) /\ \E w \in lost : w.id = o
  <2>1. \A w \in all : w.id \in D /\ w.answered = TRUE
    <3> SUFFICES ASSUME NEW o \in D
                 PROVE  Write(o, plan.before[o], stack.rule[o], {o}).id = o
                        /\ Write(o, plan.before[o], stack.rule[o], {o}).answered = TRUE
      OBVIOUS
    <3> QED BY DEF Write
  <2>2. \A w \in all : w.asShown = TRUE \/ Unanswers(w.id)
    <3> SUFFICES ASSUME NEW o \in D
                 PROVE  Write(o, plan.before[o], stack.rule[o], {o}).asShown = TRUE
                        \/ Unanswers(Write(o, plan.before[o], stack.rule[o], {o}).id)
      OBVIOUS
    <3>1. plan.before[o] = stack.rule[o] \/ moved \cap {o} # {} \/ Unanswers(o)
      BY <1>2
    <3> QED BY <3>1 DEF Write, Unanswers
  <2>3. \A w \in lost : w.id \in D /\ w.answered = FALSE
    <3> SUFFICES ASSUME NEW w \in all PROVE Unanswered(w).id \in D
                          /\ Unanswered(w).answered = FALSE
      OBVIOUS
    <3>1. DOMAIN w = {"id", "asShown", "answered"}
      BY DEF Write
    <3> QED BY <2>1, <3>1 DEF Unanswered
  <2>4. \A o \in D : \E w \in all : w.id = o
    <3> SUFFICES ASSUME NEW o \in D PROVE \E w \in all : w.id = o
      OBVIOUS
    <3>1. Write(o, plan.before[o], stack.rule[o], {o}) \in all
      OBVIOUS
    <3>2. Write(o, plan.before[o], stack.rule[o], {o}).id = o
      BY DEF Write
    <3> QED BY <3>1, <3>2
  <2>5. \A o \in D : \E w \in lost : w.id = o
    <3> SUFFICES ASSUME NEW w \in all PROVE Unanswered(w).id = w.id
      BY <2>4
    <3>1. DOMAIN w = {"id", "asShown", "answered"}
      BY DEF Write
    <3> QED BY <3>1 DEF Unanswered
  <2> QED BY <2>1, <2>2, <2>3, <2>4, <2>5
<1> HIDE DEF all, lost, new
<1>9. \A r \in R : GoodRow(r, all)
  <2>1. ASSUME NEW o \in D PROVE o \in Ids /\ GoodRow(Row(o, "changed", TRUE), all)
    <3>1. o \in Ids /\ o \in D
      BY <1>2, <1>3, <1>6
    <3> HIDE DEF D
    <3> QED BY <1>2, <1>8, <3>1 DEF GoodRow, Row, SaysUntouched, Results
  <2>2. ASSUME NEW o \in refused PROVE o \in Ids /\ GoodRow(Row(o, "failed", FALSE), all)
    <3>1. o \in Ids
      BY <1>2, <1>3, <1>6
    <3> HIDE DEF D
    <3> QED BY <1>2, <1>8, <3>1 DEF GoodRow, Row, SaysUntouched, Results
  <2>3. ASSUME NEW o \in same PROVE o \in Ids /\ GoodRow(Row(o, "skipped", FALSE), all)
    <3>1. o \in Ids /\ o \notin D
      BY <1>2, <1>3, <1>6
    <3> HIDE DEF D
    <3> QED BY <1>2, <1>8, <3>1 DEF GoodRow, Row, SaysUntouched, Results
  <2> QED BY <2>1, <2>2, <2>3
<1>10. \A w \in all : \E r \in R : r.id = w.id
  <2>1. D \subseteq (D \cup refused \cup same)
    <3> HIDE DEF D, there, same
    <3> QED OBVIOUS
  <2>2. ASSUME NEW o \in (D \cup refused \cup same) PROVE \E r \in R : r.id = o
    <3> HIDE DEF D, there, same
    <3>1. CASE o \in D
      <4>1. Row(o, "changed", TRUE) \in R
        BY <3>1
      <4>2. Row(o, "changed", TRUE).id = o
        BY DEF Row
      <4> HIDE DEF R
      <4> QED BY <4>1, <4>2
    <3>2. CASE o \in refused
      <4>1. Row(o, "failed", FALSE) \in R
        BY <3>2
      <4>2. Row(o, "failed", FALSE).id = o
        BY DEF Row
      <4> HIDE DEF R
      <4> QED BY <4>1, <4>2
    <3>3. CASE o \in same
      <4>1. Row(o, "skipped", FALSE) \in R
        BY <3>3
      <4>2. Row(o, "skipped", FALSE).id = o
        BY DEF Row
      <4> HIDE DEF R
      <4> QED BY <4>1, <4>2
    <3> QED BY <3>1, <3>2, <3>3
  <2> HIDE DEF R, D, there, same
  <2> QED BY <1>8, <2>1, <2>2
<1>11. \A r \in rows : SaysUntouched(r) => \A w \in all : w.id # r.id
  BY <1>2
<1> HIDE DEF R, D
<1>12. LoopStep
  <2>1. UNCHANGED cmd /\ pc \in {"check", "import_bundle"} /\ cmd.op # "delete_rules"
    BY <1>1, <1>2
  <2>2. WholeStep(all, lost, R)
    BY <1>4, <1>6, <1>8, <1>9, <1>10, <1>11, <2>1 DEF WholeStep
  <2> QED BY <2>2, WholeRequest, Zenon
<1>13. Bounds'
  BY <1>1, <1>4, BoundsKept, CommandAssumption DEF IInv, TypeOK, Bounds
<1>14. stack' \in Detection!StackType /\ PlanOK'
  <2>1. stack' \in Detection!StackType
    BY <1>2, <1>4, <1>5
  <2>2. PlanOK'
    BY <1>1 DEF IInv, PlanOK
  <2> QED BY <2>1, <2>2
<1>15. WritesWhatWasShown'
  <2>1. writes \subseteq writes' /\ \A w \in writes' : w \in writes \/ w \in all \/ w \in lost
    BY <1>4
  <2> QED BY <1>8, <2>1 DEF IInv, WritesWhatWasShown, Unanswers
<1>16. DetectionInv'
  <2>1. CASE pc' = "check"
    <3>1. stack' = new /\ writes' = writes \cup lost
      BY <1>1, <1>4, <2>1 DEF ReportAll, Fail, Goto, runVars
    <3>2. \A o \in cmd.targets : RuleSeen(o)'
      BY <1>1, <1>2, <1>7, <1>8, <3>1 DEF RuleSeen, Excused, Unanswers
    <3> QED BY <1>1, <2>1, <3>2 DEF DetectionInv
  <2>2. CASE pc' # "check"
    BY <1>1, <1>4, <2>2 DEF DetectionInv, ReportAll, Fail, Goto, runVars
  <2> QED BY <2>1, <2>2
<1> QED BY <1>12, <1>13, <1>14, <1>15, <1>16 DEF DetectionStep

\* The step DeleteRule of a detection command.
LEMMA DetectionDeleteRule ==
    ASSUME IInv, cmd.family = "detection", Detection!DeleteRule
    PROVE  DetectionStep
<1> DEFINE w == Write(Head(todo), TRUE, TRUE, {})
           u == Unanswered(w)
           new == [stack EXCEPT !.rule[Head(todo)] = Detection!Absent]
<1>1. pc = "check" /\ cmd.op = "delete_rules" /\ UNCHANGED <<cmd, plan, moved, edits>>
  BY DEF Detection!DeleteRule
<1>2. /\ Looping
      /\ todo # <<>> /\ todo \in Seq(Ids) /\ Head(todo) \in Ids /\ Head(todo) \in Touchable
           /\ ~Planning /\ ~Ended
      /\ cmd.op \notin BulkOps /\ cmd.op = "delete_rules" /\ cmd.family # "agent_policies"
           /\ cmd.op # "set_enabled"
  <2>1. Looping
    BY <1>1 DEF Looping, Ended, Planning, Wholesale
  <2>2. todo # <<>> /\ todo \in Seq(Ids) /\ Head(todo) \in Ids /\ Head(todo) \in Touchable
          /\ ~Planning /\ ~Ended
    BY <2>1, LoopFacts DEF IInv
  <2>3. cmd.op \notin BulkOps /\ cmd.op = "delete_rules" /\ cmd.family # "agent_policies"
          /\ cmd.op # "set_enabled"
    BY <1>1 DEF BulkOps
  <2> QED BY <2>1, <2>2, <2>3
<1>3. Bounds'
  <2>1. faults' = faults \/ (faults > 0 /\ faults' = faults - 1)
    BY DEF Detection!DeleteRule, Detection!Mutate, Detection!MutateAll
  <2>2. moved' \subseteq moved
    BY <1>1
  <2> QED BY <1>1, <2>1, <2>2, BoundsKept, CommandAssumption DEF IInv, TypeOK, Bounds
<1>4. PlanOK'
  BY <1>1 DEF IInv, PlanOK
<1>5. \/ /\ Report(Head(todo), "failed", FALSE)
         /\ stack' = stack /\ writes' = writes
      \/ /\ Report(Head(todo), "failed", FALSE)
         /\ stack' = new /\ writes' = writes \cup {u}
      \/ /\ Report(Head(todo), "deleted", TRUE)
         /\ stack' = new /\ writes' = writes \cup {w}
      \/ /\ pc' = pc /\ todo' = todo /\ rows' = rows
         /\ stack' = new /\ writes' = writes \cup {u}
  BY DEF Detection!DeleteRule, Detection!Mutate, Detection!MutateAll, Detection!Report,
     Report, Detection!Row, Row, Detection!runVars, runVars, Guard, Detection!Write, Write,
     Detection!Unanswered, Unanswered
<1>6. /\ w.id = Head(todo) /\ w.answered = TRUE /\ u.id = Head(todo) /\ u.answered = FALSE
      /\ w.asShown = TRUE \/ Unanswers(Head(todo))
  <2>1. (TRUE) = (TRUE) \/ moved \cap {} # {} \/ Unanswers(Head(todo))
    OBVIOUS
  <2> QED BY <2>1 DEF Write, Unanswered
<1>7. TRUE => new \in Detection!StackType
  <2>1. stack \in Detection!StackType
    BY DEF IInv, TypeOK, StackType
  <2> QED BY <1>2, <2>1 DEF Detection!StackType, Detection!Absent, Detection!Desired
<1> HIDE DEF w, u, new
<1>8. CASE /\ Report(Head(todo), "failed", FALSE)
           /\ stack' = stack /\ writes' = writes
  <2>1. stack' \in Detection!StackType
    BY <1>1, <1>8 DEF IInv, TypeOK, StackType
  <2>2. WritesWhatWasShown'
    BY <1>1, <1>8 DEF IInv, WritesWhatWasShown
  <2>3. Reported
    BY <1>1, <1>2, <1>8, RowOfRefusal
  <2>4. DetectionInv'
    BY <1>1, <1>8 DEF IInv, DetectionInv, Report
  <2> QED BY <1>1, <1>3, <1>4, <2>1, <2>2, <2>3, <2>4 DEF DetectionStep, LoopStep
<1>9. CASE /\ Report(Head(todo), "failed", FALSE)
           /\ stack' = new /\ writes' = writes \cup {u}
  <2>1. stack' \in Detection!StackType
    BY <1>7, <1>9
  <2>2. WritesWhatWasShown'
    BY <1>6, <1>9, ShownWrite DEF IInv
  <2>3. Reported
    BY <1>1, <1>2, <1>6, <1>9, RowOfRefusal
  <2>4. DetectionInv'
    BY <1>1, <1>9 DEF IInv, DetectionInv, Report
  <2> QED BY <1>1, <1>3, <1>4, <2>1, <2>2, <2>3, <2>4 DEF DetectionStep, LoopStep
<1>10. CASE /\ Report(Head(todo), "deleted", TRUE)
            /\ stack' = new /\ writes' = writes \cup {w}
  <2>1. stack' \in Detection!StackType
    BY <1>7, <1>10
  <2>2. WritesWhatWasShown'
    BY <1>6, <1>10, ShownWrite DEF IInv
  <2>3. Reported
    BY <1>1, <1>2, <1>6, <1>10, RowOfWrite DEF Results, AfterWrite
  <2>4. DetectionInv'
    BY <1>1, <1>10 DEF IInv, DetectionInv, Report
  <2> QED BY <1>1, <1>3, <1>4, <2>1, <2>2, <2>3, <2>4 DEF DetectionStep, LoopStep
<1>11. CASE /\ pc' = pc /\ todo' = todo /\ rows' = rows
            /\ stack' = new /\ writes' = writes \cup {u}
  <2>1. stack' \in Detection!StackType
    BY <1>7, <1>11
  <2>2. WritesWhatWasShown'
    BY <1>6, <1>11, ShownWrite DEF IInv
  <2>3. SendsAgain
    BY <1>1, <1>2, <1>6, <1>11 DEF SendsAgain, runVars, AfterWrite
  <2>4. DetectionInv'
    BY <1>1, <1>11 DEF IInv, DetectionInv, Report
  <2> QED BY <1>1, <1>3, <1>4, <2>1, <2>2, <2>3, <2>4 DEF DetectionStep, LoopStep
<1> QED BY <1>5, <1>8, <1>9, <1>10, <1>11

\* The step PlanImport of a detection command.
LEMMA DetectionPlanImport ==
    ASSUME IInv, cmd.family = "detection", Detection!PlanImport
    PROVE  DetectionStep
<1>1. pc = "start" /\ cmd.op \in {"import_rules", "import_lists"}
        /\ UNCHANGED <<cmd, stack, writes, edits>>
  BY DEF Detection!PlanImport, Detection!Imports
<1>2. /\ Planning
      /\ rows = {} /\ writes = {} /\ todo \in Seq(Ids)
  <2>1. Planning
    BY <1>1 DEF Planning
  <2>2. rows = {} /\ writes = {} /\ todo \in Seq(Ids)
    BY <2>1 DEF IInv, LoopInv, TodoOK, QuietPlanning
  <2> QED BY <2>1, <2>2
<1>3. Bounds'
  <2>1. faults' = faults \/ (faults > 0 /\ faults' = faults - 1)
    BY DEF Detection!PlanImport, Detection!Read, Detection!Checked, Detection!Imports
  <2>2. moved' \subseteq moved
    BY DEF Detection!PlanImport, Detection!Read, Detection!Checked, Detection!Imports
  <2> QED BY <1>1, <2>1, <2>2, BoundsKept, CommandAssumption DEF IInv, TypeOK, Bounds
<1>4. DOMAIN plan.before \subseteq cmd.targets /\ "before" \in DOMAIN plan
  BY <1>1 DEF IInv, PlanOK, DetectionInv
<1>5. stack' \in Detection!StackType /\ WritesWhatWasShown'
  BY <1>1 DEF IInv, TypeOK, StackType, WritesWhatWasShown
<1>6. \/ /\ Goto("bundle") /\ "before" \in DOMAIN plan'
         /\ DOMAIN plan'.before \subseteq cmd.targets
      \/ Fail /\ plan' = plan
  BY <1>4 DEF Detection!PlanImport, Detection!Read, Detection!Checked, Detection!Fail, Fail,
     Detection!Goto, Goto, Report, Row, Guard, Detection!Imports
<1>7. CASE /\ Goto("bundle") /\ "before" \in DOMAIN plan'
           /\ DOMAIN plan'.before \subseteq cmd.targets
  <2>1. PlanOK'
    BY <1>1, <1>7 DEF IInv, PlanOK, CmdOK
  <2>2. PlansOn
    BY <1>1, <1>2, <1>7 DEF PlansOn, Planning, Ended, Wholesale, Goto, Fail
  <2>3. DetectionInv'
    BY <1>1, <1>7 DEF DetectionInv, Goto
  <2> QED BY <1>1, <1>3, <1>5, <2>1, <2>2, <2>3 DEF DetectionStep, LoopStep
<1>8. CASE Fail /\ plan' = plan
  <2>1. PlanOK'
    BY <1>1, <1>8 DEF IInv, PlanOK
  <2>2. PlansOn
    BY <1>1, <1>2, <1>8 DEF PlansOn, Planning, Ended, Wholesale, Goto, Fail
  <2>3. DetectionInv'
    BY <1>1, <1>8 DEF IInv, DetectionInv, Goto, Fail
  <2> QED BY <1>1, <1>3, <1>5, <2>1, <2>2, <2>3 DEF DetectionStep, LoopStep
<1> QED BY <1>6, <1>7, <1>8

\* The step GuardImport of a detection command.
LEMMA DetectionGuardImport ==
    ASSUME IInv, cmd.family = "detection", Detection!GuardImport
    PROVE  DetectionStep
<1>1. pc = "bundle" /\ UNCHANGED <<cmd, stack, moved, writes, faults, edits>>
  BY DEF Detection!GuardImport, Detection!Row, Row
<1>2. /\ Planning
      /\ rows = {} /\ writes = {} /\ todo \in Seq(Ids)
      /\ cmd.op \notin BulkOps /\ cmd.op # "delete_rules"
           /\ cmd.op \in {"import_rules", "import_lists"}
  <2>1. Planning
    BY <1>1 DEF Planning
  <2>2. rows = {} /\ writes = {} /\ todo \in Seq(Ids)
    BY <2>1 DEF IInv, LoopInv, TodoOK, QuietPlanning
  <2>3. cmd.op \notin BulkOps /\ cmd.op # "delete_rules"
          /\ cmd.op \in {"import_rules", "import_lists"}
    BY <1>1 DEF IInv, DetectionInv, BulkOps
  <2> QED BY <2>1, <2>2, <2>3
<1>3. Bounds'
  <2>1. faults' = faults
    BY <1>1
  <2>2. moved' \subseteq moved
    BY <1>1
  <2> QED BY <1>1, <2>1, <2>2, BoundsKept, CommandAssumption DEF IInv, TypeOK, Bounds
<1>4. stack' \in Detection!StackType /\ WritesWhatWasShown'
  BY <1>1 DEF IInv, TypeOK, StackType, WritesWhatWasShown
<1>5. \/ /\ Guard(plan, Sorted((Detection!UploadedRules \cup Detection!UploadedLists)))
         /\ rows' = {Row(o, "skipped", FALSE) : o \in Detection!Skipped}
  BY SameOrder DEF Detection!GuardImport, Report, Detection!Row, Row, Detection!Guard, Guard
<1>6. CASE /\ Guard(plan, Sorted((Detection!UploadedRules \cup Detection!UploadedLists)))
           /\ rows' = {Row(o, "skipped", FALSE) : o \in Detection!Skipped}
  <2>1. (Detection!UploadedRules \cup Detection!UploadedLists) \in SUBSET Ids
          /\ (Detection!UploadedRules \cup Detection!UploadedLists) \subseteq Touchable
               /\ cmd.yes \in BOOLEAN
    BY <1>1, <1>2 DEF IInv, CmdOK, DetectionInv, Detection!UploadedRules,
       Detection!UploadedLists, Detection!Pending, Detection!Skipped, Touchable
  <2>2. \A r \in rows' : r.id \in Detection!Skipped /\ r.result = "skipped"
          /\ r.applied = FALSE
    BY <1>6 DEF Row
  <2>3. Detection!Skipped \subseteq Ids
          /\ Detection!Skipped \cap ((Detection!UploadedRules
               \cup Detection!UploadedLists)) = {}
    BY <1>1, <1>2 DEF IInv, PlanOK, CmdOK, DetectionInv, Detection!UploadedRules,
       Detection!UploadedLists, Detection!Pending, Detection!Skipped
  <2>4. \A r \in rows' : r.id
          \in Ids \ ((Detection!UploadedRules \cup Detection!UploadedLists))
            /\ r.result = "skipped" /\ r.applied = FALSE
    BY <2>2, <2>3
  <2>5. /\ Guarded /\ plan' = plan /\ pc' \in {"check", "done"}
        /\ pc' = "check" => Range(todo')
             = (Detection!UploadedRules \cup Detection!UploadedLists)
    BY <1>1, <1>2, <2>1, <2>4, <1>6, SortedGuard, CommandAssumption
  <2>6. PlanOK'
    BY <1>1, <2>1, <2>5 DEF IInv, PlanOK, CmdOK
  <2>7. DetectionInv'
    BY <1>1, <2>2, <2>5 DEF IInv, DetectionInv, Detection!Skipped
  <2> QED BY <1>1, <1>3, <1>4, <2>1, <2>2, <2>3, <2>4, <2>5, <2>6, <2>7 DEF DetectionStep,
         LoopStep
<1> QED BY <1>5, <1>6

\* The step Upload of a detection command.
LEMMA DetectionUpload ==
    ASSUME IInv, cmd.family = "detection", Detection!Upload
    PROVE  DetectionStep
<1>1. pc = "check" /\ cmd.op \in {"import_rules", "import_lists"}
        /\ UNCHANGED <<cmd, plan, moved, edits>>
  BY DEF Detection!Upload, Detection!Imports
<1>2. /\ stack \in Detection!StackType
      /\ cmd.op # "delete_rules" /\ cmd.op # "import" /\ cmd.family # "agent_policies"
      /\ \A r \in rows : r.id \in DOMAIN plan.before /\ ~r.applied
      /\ (Detection!UploadedRules \cup Detection!UploadedLists)
           \subseteq (Ids \cap Touchable) \ DOMAIN plan.before
  <2>1. stack \in Detection!StackType
    BY DEF IInv, TypeOK, StackType
  <2>2. cmd.op # "delete_rules" /\ cmd.op # "import" /\ cmd.family # "agent_policies"
    BY <1>1
  <2>3. \A r \in rows : r.id \in DOMAIN plan.before /\ ~r.applied
    BY <1>1 DEF IInv, DetectionInv
  <2>4. (Detection!UploadedRules \cup Detection!UploadedLists)
          \subseteq (Ids \cap Touchable) \ DOMAIN plan.before
    BY <1>1 DEF IInv, CmdOK, Touchable, Detection!UploadedRules, Detection!UploadedLists,
       Detection!Pending, Detection!Skipped
  <2> QED BY <2>1, <2>2, <2>3, <2>4
<1>3. PICK refused \in SUBSET (Detection!UploadedRules \cup Detection!UploadedLists) :
       LET keeps(s) == {o \in Ids : cmd.mode # "overwrite" /\ s[o] # Detection!Absent}
           rules == Detection!UploadedRules \ (refused \cup keeps(stack.rule))
           lists == Detection!UploadedLists \ (refused \cup keeps(stack.list))
           done  == rules \cup lists
           lost  == (Detection!UploadedRules \ rules) \cup (IF cmd.op = "import_lists"
                                                    THEN Detection!UploadedLists \ lists
                                                      ELSE {})
           new   == [rule |-> [o \in Ids |-> IF o \in rules THEN Detection!Desired
             ELSE stack.rule[o]],
                     list |-> [o \in Ids |-> IF o \in lists THEN Detection!Desired
                       ELSE stack.list[o]]]
       IN Detection!MutateAll(new, {Detection!Write(o, TRUE, TRUE, {}) : o \in done},
            Detection!ReportAll(rows
              \cup {Detection!Row(o, "created", TRUE) : o \in done \ lost}
                                     \cup {Detection!Row(o, "failed", FALSE) : o \in lost}),
            Detection!Fail, TRUE)
  BY DEF Detection!Upload, Detection!Imports
<1> DEFINE kept(s) == {o \in Ids : cmd.mode # "overwrite" /\ s[o] # Detection!Absent}
           rules == Detection!UploadedRules \ (refused \cup kept(stack.rule))
           lists == Detection!UploadedLists \ (refused \cup kept(stack.list))
           missed == (Detection!UploadedRules \ rules) \cup (IF cmd.op = "import_lists"
                           THEN Detection!UploadedLists \ lists ELSE {})
           D == rules \cup lists
           new == [rule |-> [o \in Ids |-> IF o \in rules THEN Detection!Desired
             ELSE stack.rule[o]],
                   list |-> [o \in Ids |-> IF o \in lists THEN Detection!Desired
                     ELSE stack.list[o]]]
           all == {Write(o, TRUE, TRUE, {}) : o \in D}
           lost == {Unanswered(w) : w \in all}
           R == {Row(o, "created", TRUE) : o \in D \ missed}
             \cup {Row(o, "failed", FALSE) : o \in missed}
<1>4. /\ faults' = faults \/ (faults > 0 /\ faults' = faults - 1)
      /\ \/ stack' = new /\ writes' = writes \cup all /\ ReportAll(rows \cup R)
         \/ stack' = stack /\ writes' = writes /\ Fail
         \/ stack' = new /\ writes' = writes \cup lost /\ Fail
         \/ stack' = new /\ writes' = writes \cup lost /\ UNCHANGED runVars
  BY <1>2, <1>3 DEF Detection!MutateAll, Detection!Write, Write, Detection!Unanswered,
     Unanswered, Detection!Row, Row, Detection!Fail, Fail, Detection!Goto, Goto,
     Detection!ReportAll, ReportAll, Detection!runVars, runVars
<1>5. new \in Detection!StackType
  BY <1>2 DEF Detection!StackType, Detection!Absent, Detection!Desired
<1>6. D \subseteq Ids /\ D \subseteq Touchable
  BY <1>2
<1>7. \A o \in D : o \notin DOMAIN plan.before
  BY <1>2
<1>8. /\ \A w \in all : w.id \in D /\ w.answered = TRUE
      /\ \A w \in all : w.asShown = TRUE \/ Unanswers(w.id)
      /\ \A w \in lost : w.id \in D /\ w.answered = FALSE
      /\ \A o \in D : (\E w \in all : w.id = o) /\ \E w \in lost : w.id = o
  <2>1. \A w \in all : w.id \in D /\ w.answered = TRUE
    <3> SUFFICES ASSUME NEW o \in D
                 PROVE  Write(o, TRUE, TRUE, {}).id = o
                        /\ Write(o, TRUE, TRUE, {}).answered = TRUE
      OBVIOUS
    <3> QED BY DEF Write
  <2>2. \A w \in all : w.asShown = TRUE \/ Unanswers(w.id)
    <3> SUFFICES ASSUME NEW o \in D
                 PROVE  Write(o, TRUE, TRUE, {}).asShown = TRUE
                        \/ Unanswers(Write(o, TRUE, TRUE, {}).id)
      OBVIOUS
    <3> QED BY DEF Write
  <2>3. \A w \in lost : w.id \in D /\ w.answered = FALSE
    <3> SUFFICES ASSUME NEW w \in all PROVE Unanswered(w).id \in D
                          /\ Unanswered(w).answered = FALSE
      OBVIOUS
    <3>1. DOMAIN w = {"id", "asShown", "answered"}
      BY DEF Write
    <3> QED BY <2>1, <3>1 DEF Unanswered
  <2>4. \A o \in D : \E w \in all : w.id = o
    <3> SUFFICES ASSUME NEW o \in D PROVE \E w \in all : w.id = o
      OBVIOUS
    <3>1. Write(o, TRUE, TRUE, {}) \in all
      OBVIOUS
    <3>2. Write(o, TRUE, TRUE, {}).id = o
      BY DEF Write
    <3> QED BY <3>1, <3>2
  <2>5. \A o \in D : \E w \in lost : w.id = o
    <3> SUFFICES ASSUME NEW w \in all PROVE Unanswered(w).id = w.id
      BY <2>4
    <3>1. DOMAIN w = {"id", "asShown", "answered"}
      BY DEF Write
    <3> QED BY <3>1 DEF Unanswered
  <2> QED BY <2>1, <2>2, <2>3, <2>4, <2>5
<1> HIDE DEF all, lost, new
<1>9. \A r \in R : GoodRow(r, all)
  <2>1. ASSUME NEW o \in D \ missed PROVE o \in Ids /\ GoodRow(Row(o, "created", TRUE), all)
    <3>1. o \in Ids /\ o \in D
      BY <1>2, <1>6
    <3> HIDE DEF D
    <3> QED BY <1>2, <1>8, <3>1 DEF GoodRow, Row, SaysUntouched, Results
  <2>2. ASSUME NEW o \in missed PROVE o \in Ids /\ GoodRow(Row(o, "failed", FALSE), all)
    <3>1. o \in Ids
      BY <1>2, <1>6
    <3> HIDE DEF D
    <3> QED BY <1>2, <1>8, <3>1 DEF GoodRow, Row, SaysUntouched, Results
  <2> QED BY <2>1, <2>2
<1>10. \A w \in all : \E r \in R : r.id = w.id
  <2>1. D \subseteq ((D \ missed) \cup missed)
    <3> HIDE DEF D, kept, rules, lists, missed
    <3> QED OBVIOUS
  <2>2. ASSUME NEW o \in ((D \ missed) \cup missed) PROVE \E r \in R : r.id = o
    <3> HIDE DEF D, kept, rules, lists, missed
    <3>1. CASE o \in (D \ missed)
      <4>1. Row(o, "created", TRUE) \in R
        BY <3>1
      <4>2. Row(o, "created", TRUE).id = o
        BY DEF Row
      <4> HIDE DEF R
      <4> QED BY <4>1, <4>2
    <3>2. CASE o \in missed
      <4>1. Row(o, "failed", FALSE) \in R
        BY <3>2
      <4>2. Row(o, "failed", FALSE).id = o
        BY DEF Row
      <4> HIDE DEF R
      <4> QED BY <4>1, <4>2
    <3> QED BY <3>1, <3>2
  <2> HIDE DEF R, D, kept, rules, lists, missed
  <2> QED BY <1>8, <2>1, <2>2
<1>11. \A r \in rows : SaysUntouched(r) => \A w \in all : w.id # r.id
  BY <1>2, <1>8, <1>7
<1> HIDE DEF R, D
<1>12. LoopStep
  <2>1. UNCHANGED cmd /\ pc \in {"check", "import_bundle"} /\ cmd.op # "delete_rules"
    BY <1>1, <1>2
  <2>2. WholeStep(all, lost, R)
    BY <1>4, <1>6, <1>8, <1>9, <1>10, <1>11, <2>1 DEF WholeStep
  <2> QED BY <2>2, WholeRequest, Zenon
<1>13. Bounds'
  BY <1>1, <1>4, BoundsKept, CommandAssumption DEF IInv, TypeOK, Bounds
<1>14. stack' \in Detection!StackType /\ PlanOK'
  <2>1. stack' \in Detection!StackType
    BY <1>2, <1>4, <1>5
  <2>2. PlanOK'
    BY <1>1 DEF IInv, PlanOK
  <2> QED BY <2>1, <2>2
<1>15. WritesWhatWasShown'
  <2>1. writes \subseteq writes' /\ \A w \in writes' : w \in writes \/ w \in all \/ w \in lost
    BY <1>4
  <2> QED BY <1>8, <2>1 DEF IInv, WritesWhatWasShown, Unanswers
<1>16. DetectionInv'
  BY <1>1, <1>4 DEF IInv, DetectionInv, ReportAll, Fail, Goto, runVars
<1> QED BY <1>12, <1>13, <1>14, <1>15, <1>16 DEF DetectionStep

\* The step BeginDeleteLists of a detection command.
LEMMA DetectionBeginDeleteLists ==
    ASSUME IInv, cmd.family = "detection", Detection!BeginDeleteLists
    PROVE  DetectionStep
<1>1. pc = "start" /\ cmd.op = "delete_lists"
        /\ UNCHANGED <<cmd, plan, stack, moved, writes, rows, faults, edits>>
  BY DEF Detection!BeginDeleteLists
<1>2. /\ Planning
      /\ rows = {} /\ writes = {} /\ todo \in Seq(Ids)
  <2>1. Planning
    BY <1>1 DEF Planning
  <2>2. rows = {} /\ writes = {} /\ todo \in Seq(Ids)
    BY <2>1 DEF IInv, LoopInv, TodoOK, QuietPlanning
  <2> QED BY <2>1, <2>2
<1>3. Bounds'
  <2>1. faults' = faults
    BY <1>1
  <2>2. moved' \subseteq moved
    BY <1>1
  <2> QED BY <1>1, <2>1, <2>2, BoundsKept, CommandAssumption DEF IInv, TypeOK, Bounds
<1>4. stack' \in Detection!StackType /\ WritesWhatWasShown' /\ PlanOK'
  BY <1>1 DEF IInv, TypeOK, StackType, WritesWhatWasShown, PlanOK
<1>5. \/ pc' = "lists" /\ todo' = Sorted(cmd.targets)
  BY SameOrder DEF Detection!BeginDeleteLists, Report, Row, Guard
<1>6. CASE pc' = "lists" /\ todo' = Sorted(cmd.targets)
  <2>1. todo' \in Seq(Ids)
    BY <1>1, <1>6, SortedFacts, CommandAssumption DEF IInv, CmdOK
  <2>2. PlansOn
    BY <1>1, <1>2, <2>1, <1>6 DEF PlansOn, Planning, Ended, Wholesale
  <2>3. DetectionInv'
    BY <1>1, <1>6 DEF IInv, DetectionInv
  <2> QED BY <1>1, <1>3, <1>4, <2>1, <2>2, <2>3 DEF DetectionStep, LoopStep
<1> QED BY <1>5, <1>6

\* The step ResolveList of a detection command.
LEMMA DetectionResolveList ==
    ASSUME IInv, cmd.family = "detection", Detection!ResolveList
    PROVE  DetectionStep
<1>1. pc = "lists" /\ todo # <<>> /\ UNCHANGED <<cmd, stack, writes, edits>>
  BY DEF Detection!ResolveList
<1>2. /\ Planning
      /\ rows = {} /\ writes = {} /\ todo \in Seq(Ids)
      /\ Head(todo) \in Ids /\ Tail(todo) \in Seq(Ids)
  <2>1. Planning
    BY <1>1 DEF Planning
  <2>2. rows = {} /\ writes = {} /\ todo \in Seq(Ids)
    BY <2>1 DEF IInv, LoopInv, TodoOK, QuietPlanning
  <2>3. Head(todo) \in Ids /\ Tail(todo) \in Seq(Ids)
    BY <1>1, <2>2, TailFacts
  <2> QED BY <2>1, <2>2, <2>3
<1>3. Bounds'
  <2>1. faults' = faults \/ (faults > 0 /\ faults' = faults - 1)
    BY DEF Detection!ResolveList, Detection!Read, Detection!Checked
  <2>2. moved' \subseteq moved
    BY DEF Detection!ResolveList, Detection!Read, Detection!Checked
  <2> QED BY <1>1, <2>1, <2>2, BoundsKept, CommandAssumption DEF IInv, TypeOK, Bounds
<1>4. stack' \in Detection!StackType /\ WritesWhatWasShown'
  BY <1>1 DEF IInv, TypeOK, StackType, WritesWhatWasShown
<1>5. \/ /\ pc' = pc /\ rows' = rows /\ todo' = Tail(todo)
         /\ plan' = [plan EXCEPT !.before
              = Detection!Noted(@, Head(todo), stack.list[Head(todo)])]
      \/ Fail /\ plan' = plan
  BY DEF Detection!ResolveList, Detection!Read, Detection!Checked, Detection!Fail, Fail,
     Detection!Goto, Goto, Report, Row, Guard
<1>6. CASE /\ pc' = pc /\ rows' = rows /\ todo' = Tail(todo)
           /\ plan' = [plan EXCEPT !.before
                = Detection!Noted(@, Head(todo), stack.list[Head(todo)])]
  <2>1. PlanOK'
    BY <1>1, <1>2, <1>6 DEF IInv, PlanOK, Detection!Noted
  <2>2. PlansOn
    BY <1>1, <1>2, <1>6 DEF PlansOn, Planning, Ended, Wholesale, Goto, Fail
  <2>3. DetectionInv'
    BY <1>1, <1>6 DEF IInv, DetectionInv, Goto, Fail
  <2> QED BY <1>1, <1>3, <1>4, <2>1, <2>2, <2>3 DEF DetectionStep, LoopStep
<1>7. CASE Fail /\ plan' = plan
  <2>1. PlanOK'
    BY <1>1, <1>7 DEF IInv, PlanOK
  <2>2. PlansOn
    BY <1>1, <1>2, <1>7 DEF PlansOn, Planning, Ended, Wholesale, Goto, Fail
  <2>3. DetectionInv'
    BY <1>1, <1>7 DEF IInv, DetectionInv, Goto, Fail
  <2> QED BY <1>1, <1>3, <1>4, <2>1, <2>2, <2>3 DEF DetectionStep, LoopStep
<1> QED BY <1>5, <1>6, <1>7

\* The step PlanDeleteLists of a detection command.
LEMMA DetectionPlanDeleteLists ==
    ASSUME IInv, cmd.family = "detection", Detection!PlanDeleteLists
    PROVE  DetectionStep
<1>1. pc = "lists" /\ todo = <<>> /\ UNCHANGED <<cmd, stack, moved, writes, faults, edits>>
  BY DEF Detection!PlanDeleteLists
<1>2. /\ Planning
      /\ rows = {} /\ writes = {} /\ todo \in Seq(Ids)
  <2>1. Planning
    BY <1>1 DEF Planning
  <2>2. rows = {} /\ writes = {} /\ todo \in Seq(Ids)
    BY <2>1 DEF IInv, LoopInv, TodoOK, QuietPlanning
  <2> QED BY <2>1, <2>2
<1>3. Bounds'
  <2>1. faults' = faults
    BY <1>1
  <2>2. moved' \subseteq moved
    BY <1>1
  <2> QED BY <1>1, <2>1, <2>2, BoundsKept, CommandAssumption DEF IInv, TypeOK, Bounds
<1>4. stack' \in Detection!StackType /\ WritesWhatWasShown'
  BY <1>1 DEF IInv, TypeOK, StackType, WritesWhatWasShown
<1>5. \/ /\ Guard(plan, Sorted(cmd.targets))
         /\ rows' = rows
  BY SameOrder DEF Detection!PlanDeleteLists, Report, Row, Detection!Guard, Guard
<1>6. CASE /\ Guard(plan, Sorted(cmd.targets))
           /\ rows' = rows
  <2>1. cmd.targets \in SUBSET Ids /\ cmd.targets \subseteq Touchable /\ cmd.yes \in BOOLEAN
    BY <1>1, <1>2 DEF IInv, CmdOK, DetectionInv, Touchable
  <2>2. /\ Guarded /\ plan' = plan /\ pc' \in {"check", "done"}
        /\ pc' = "check" => Range(todo') = cmd.targets
    BY <1>1, <1>2, <2>1, <1>6, SortedGuard, CommandAssumption
  <2>3. PlanOK'
    BY <1>1, <2>1, <2>2 DEF IInv, PlanOK, CmdOK
  <2>4. DetectionInv'
    BY <1>1, <2>2 DEF IInv, DetectionInv
  <2> QED BY <1>1, <1>3, <1>4, <2>1, <2>2, <2>3, <2>4 DEF DetectionStep, LoopStep
<1> QED BY <1>5, <1>6

\* The step DeleteList of a detection command.
LEMMA DetectionDeleteList ==
    ASSUME IInv, cmd.family = "detection", Detection!DeleteList
    PROVE  DetectionStep
<1> DEFINE w == Write(Head(todo), TRUE, TRUE, {})
           u == Unanswered(w)
           new == [stack EXCEPT !.list[Head(todo)] = Detection!Absent]
<1>1. pc = "check" /\ cmd.op = "delete_lists" /\ UNCHANGED <<cmd, plan, moved, edits>>
  BY DEF Detection!DeleteList
<1>2. /\ Looping
      /\ todo # <<>> /\ todo \in Seq(Ids) /\ Head(todo) \in Ids /\ Head(todo) \in Touchable
           /\ ~Planning /\ ~Ended
      /\ cmd.op \notin BulkOps /\ cmd.op # "delete_rules" /\ cmd.op # "set_enabled"
  <2>1. Looping
    BY <1>1 DEF Looping, Ended, Planning, Wholesale
  <2>2. todo # <<>> /\ todo \in Seq(Ids) /\ Head(todo) \in Ids /\ Head(todo) \in Touchable
          /\ ~Planning /\ ~Ended
    BY <2>1, LoopFacts DEF IInv
  <2>3. cmd.op \notin BulkOps /\ cmd.op # "delete_rules" /\ cmd.op # "set_enabled"
    BY <1>1 DEF BulkOps
  <2> QED BY <2>1, <2>2, <2>3
<1>3. Bounds'
  <2>1. faults' = faults \/ (faults > 0 /\ faults' = faults - 1)
    BY DEF Detection!DeleteList, Detection!Mutate, Detection!MutateAll
  <2>2. moved' \subseteq moved
    BY <1>1
  <2> QED BY <1>1, <2>1, <2>2, BoundsKept, CommandAssumption DEF IInv, TypeOK, Bounds
<1>4. PlanOK'
  BY <1>1 DEF IInv, PlanOK
<1>5. \/ /\ Report(Head(todo), "failed", FALSE)
         /\ stack' = stack /\ writes' = writes
      \/ /\ Report(Head(todo), "failed", FALSE)
         /\ stack' = new /\ writes' = writes \cup {u}
      \/ /\ Report(Head(todo), "deleted", TRUE)
         /\ stack' = new /\ writes' = writes \cup {w}
      \/ /\ pc' = pc /\ todo' = todo /\ rows' = rows
         /\ stack' = new /\ writes' = writes \cup {u}
  BY DEF Detection!DeleteList, Detection!Mutate, Detection!MutateAll, Detection!Report,
     Report, Detection!Row, Row, Detection!runVars, runVars, Guard, Detection!Write, Write,
     Detection!Unanswered, Unanswered
<1>6. /\ w.id = Head(todo) /\ w.answered = TRUE /\ u.id = Head(todo) /\ u.answered = FALSE
      /\ w.asShown = TRUE \/ Unanswers(Head(todo))
  <2>1. (TRUE) = (TRUE) \/ moved \cap {} # {} \/ Unanswers(Head(todo))
    OBVIOUS
  <2> QED BY <2>1 DEF Write, Unanswered
<1>7. TRUE => new \in Detection!StackType
  <2>1. stack \in Detection!StackType
    BY DEF IInv, TypeOK, StackType
  <2> QED BY <1>2, <2>1 DEF Detection!StackType, Detection!Absent, Detection!Desired
<1> HIDE DEF w, u, new
<1>8. CASE /\ Report(Head(todo), "failed", FALSE)
           /\ stack' = stack /\ writes' = writes
  <2>1. stack' \in Detection!StackType
    BY <1>1, <1>8 DEF IInv, TypeOK, StackType
  <2>2. WritesWhatWasShown'
    BY <1>1, <1>8 DEF IInv, WritesWhatWasShown
  <2>3. Reported
    BY <1>1, <1>2, <1>8, RowWithoutWrite DEF Results, AfterWrite
  <2>4. DetectionInv'
    BY <1>1, <1>8 DEF IInv, DetectionInv, Report
  <2> QED BY <1>1, <1>3, <1>4, <2>1, <2>2, <2>3, <2>4 DEF DetectionStep, LoopStep
<1>9. CASE /\ Report(Head(todo), "failed", FALSE)
           /\ stack' = new /\ writes' = writes \cup {u}
  <2>1. stack' \in Detection!StackType
    BY <1>7, <1>9
  <2>2. WritesWhatWasShown'
    BY <1>6, <1>9, ShownWrite DEF IInv
  <2>3. Reported
    BY <1>1, <1>2, <1>6, <1>9, RowOfLostWrite DEF Results, AfterWrite
  <2>4. DetectionInv'
    BY <1>1, <1>9 DEF IInv, DetectionInv, Report
  <2> QED BY <1>1, <1>3, <1>4, <2>1, <2>2, <2>3, <2>4 DEF DetectionStep, LoopStep
<1>10. CASE /\ Report(Head(todo), "deleted", TRUE)
            /\ stack' = new /\ writes' = writes \cup {w}
  <2>1. stack' \in Detection!StackType
    BY <1>7, <1>10
  <2>2. WritesWhatWasShown'
    BY <1>6, <1>10, ShownWrite DEF IInv
  <2>3. Reported
    BY <1>1, <1>2, <1>6, <1>10, RowOfWrite DEF Results, AfterWrite
  <2>4. DetectionInv'
    BY <1>1, <1>10 DEF IInv, DetectionInv, Report
  <2> QED BY <1>1, <1>3, <1>4, <2>1, <2>2, <2>3, <2>4 DEF DetectionStep, LoopStep
<1>11. CASE /\ pc' = pc /\ todo' = todo /\ rows' = rows
            /\ stack' = new /\ writes' = writes \cup {u}
  <2>1. stack' \in Detection!StackType
    BY <1>7, <1>11
  <2>2. WritesWhatWasShown'
    BY <1>6, <1>11, ShownWrite DEF IInv
  <2>3. SendsAgain
    BY <1>1, <1>2, <1>6, <1>11 DEF SendsAgain, runVars, AfterWrite
  <2>4. DetectionInv'
    BY <1>1, <1>11 DEF IInv, DetectionInv, Report
  <2> QED BY <1>1, <1>3, <1>4, <2>1, <2>2, <2>3, <2>4 DEF DetectionStep, LoopStep
<1> QED BY <1>5, <1>8, <1>9, <1>10, <1>11

\* The step PlanPrebuilt of a detection command.
LEMMA DetectionPlanPrebuilt ==
    ASSUME IInv, cmd.family = "detection", Detection!PlanPrebuilt
    PROVE  DetectionStep
<1>1. pc = "start" /\ cmd.op = "prebuilt" /\ UNCHANGED <<cmd, stack, writes, edits>>
  BY DEF Detection!PlanPrebuilt
<1>2. /\ Planning
      /\ rows = {} /\ writes = {} /\ todo \in Seq(Ids)
  <2>1. Planning
    BY <1>1 DEF Planning
  <2>2. rows = {} /\ writes = {} /\ todo \in Seq(Ids)
    BY <2>1 DEF IInv, LoopInv, TodoOK, QuietPlanning
  <2> QED BY <2>1, <2>2
<1>3. Bounds'
  <2>1. faults' = faults \/ (faults > 0 /\ faults' = faults - 1)
    BY DEF Detection!PlanPrebuilt, Detection!Read, Detection!Checked
  <2>2. moved' \subseteq moved
    BY DEF Detection!PlanPrebuilt, Detection!Read, Detection!Checked
  <2> QED BY <1>1, <2>1, <2>2, BoundsKept, CommandAssumption DEF IInv, TypeOK, Bounds
<1>4. stack' \in Detection!StackType /\ WritesWhatWasShown'
  BY <1>1 DEF IInv, TypeOK, StackType, WritesWhatWasShown
<1>5. \/ /\ Guard([before |-> stack.rule], Sorted(Ids))
         /\ moved' = moved \ Ids
         /\ rows' = rows
      \/ Fail /\ plan' = plan
  BY SameOrder DEF Detection!PlanPrebuilt, Detection!Read, Detection!Checked,
     Detection!Fail, Fail, Detection!Goto, Goto, Report, Row, Detection!Guard, Guard
<1>6. CASE /\ Guard([before |-> stack.rule], Sorted(Ids))
           /\ moved' = moved \ Ids
           /\ rows' = rows
  <2>1. Ids \in SUBSET Ids /\ Ids \subseteq Touchable /\ cmd.yes \in BOOLEAN
    BY <1>1, <1>2 DEF IInv, CmdOK, Touchable
  <2>2. /\ Guarded /\ plan' = [before |-> stack.rule] /\ pc' \in {"check", "done"}
        /\ pc' = "check" => Range(todo') = Ids
    BY <1>1, <1>2, <2>1, <1>6, SortedGuard, CommandAssumption
  <2>3. PlanOK'
    BY <1>1, <2>1, <2>2 DEF IInv, PlanOK, CmdOK, TypeOK, StackType, Detection!StackType
  <2>4. cmd.targets = Ids
    BY <1>1 DEF IInv, CmdOK
  <2>5. DetectionInv'
    BY <1>1, <2>2, <2>4 DEF IInv, DetectionInv, RuleSeen, Excused
  <2> QED BY <1>1, <1>3, <1>4, <2>1, <2>2, <2>3, <2>4, <2>5 DEF DetectionStep, LoopStep
<1>7. CASE Fail /\ plan' = plan
  <2>1. PlanOK'
    BY <1>1, <1>7 DEF IInv, PlanOK
  <2>2. PlansOn
    BY <1>1, <1>2, <1>7 DEF PlansOn, Planning, Ended, Wholesale, Goto, Fail
  <2>3. DetectionInv'
    BY <1>1, <1>7 DEF IInv, DetectionInv, Goto, Fail
  <2> QED BY <1>1, <1>3, <1>4, <2>1, <2>2, <2>3 DEF DetectionStep, LoopStep
<1> QED BY <1>5, <1>6, <1>7

\* The step InstallPrebuilt of a detection command.
LEMMA DetectionInstallPrebuilt ==
    ASSUME IInv, cmd.family = "detection", Detection!InstallPrebuilt
    PROVE  DetectionStep
<1>1. pc = "check" /\ cmd.op = "prebuilt" /\ UNCHANGED <<cmd, plan, moved, edits>>
  BY DEF Detection!InstallPrebuilt
<1>2. /\ rows = {}
      /\ stack \in Detection!StackType
      /\ cmd.targets \subseteq Ids /\ Touchable = cmd.targets
      /\ cmd.op # "delete_rules" /\ cmd.op # "import" /\ cmd.family # "agent_policies"
      /\ \A o \in cmd.targets : plan.before[o] = stack.rule[o] \/ moved \cap {o} # {}
           \/ Unanswers(o)
      /\ cmd.targets = Ids
  <2>1. rows = {}
    BY <1>1 DEF IInv, LoopInv, BulkIsFirst, Bulk, BulkOps
  <2>2. stack \in Detection!StackType
    BY DEF IInv, TypeOK, StackType
  <2>3. cmd.targets \subseteq Ids /\ Touchable = cmd.targets
    BY <1>1 DEF IInv, CmdOK, Touchable
  <2>4. cmd.op # "delete_rules" /\ cmd.op # "import" /\ cmd.family # "agent_policies"
    BY <1>1
  <2>5. \A o \in cmd.targets : plan.before[o] = stack.rule[o] \/ moved \cap {o} # {}
          \/ Unanswers(o)
    BY <1>1 DEF IInv, DetectionInv, RuleSeen, Excused
  <2>6. cmd.targets = Ids
    BY <1>1 DEF IInv, CmdOK
  <2> QED BY <2>1, <2>2, <2>3, <2>4, <2>5, <2>6
<1> DEFINE D == {o \in Ids : stack.rule[o] # Detection!Desired}
           new == [stack EXCEPT !.rule = [o \in Ids |-> Detection!Desired]]
           all == {Write(o, plan.before[o], stack.rule[o], {o}) : o \in D}
           lost == {Unanswered(w) : w \in all}
           R == {Row(o, "created", TRUE) : o \in D}
<1>3. /\ faults' = faults \/ (faults > 0 /\ faults' = faults - 1)
      /\ \/ stack' = new /\ writes' = writes \cup all /\ ReportAll(rows \cup R)
         \/ stack' = stack /\ writes' = writes /\ Fail
         \/ stack' = new /\ writes' = writes \cup lost /\ Fail
         \/ stack' = new /\ writes' = writes \cup lost /\ UNCHANGED runVars
  BY <1>2 DEF Detection!InstallPrebuilt, Detection!MutateAll, Detection!Write, Write,
     Detection!Unanswered, Unanswered, Detection!Row, Row, Detection!Fail, Fail,
     Detection!Goto, Goto, Detection!ReportAll, ReportAll, Detection!runVars, runVars
<1>4. new \in Detection!StackType
  BY <1>2 DEF Detection!StackType, Detection!Absent, Detection!Desired
<1>5. D \subseteq Ids /\ D \subseteq Touchable
  BY <1>2
<1>6. \A o \in Ids : o \notin D => new.rule[o] = stack.rule[o]
  BY <1>2 DEF Detection!StackType
<1>7. /\ \A w \in all : w.id \in D /\ w.answered = TRUE
      /\ \A w \in all : w.asShown = TRUE \/ Unanswers(w.id)
      /\ \A w \in lost : w.id \in D /\ w.answered = FALSE
      /\ \A o \in D : (\E w \in all : w.id = o) /\ \E w \in lost : w.id = o
  <2>1. \A w \in all : w.id \in D /\ w.answered = TRUE
    <3> SUFFICES ASSUME NEW o \in D
                 PROVE  Write(o, plan.before[o], stack.rule[o], {o}).id = o
                        /\ Write(o, plan.before[o], stack.rule[o], {o}).answered = TRUE
      OBVIOUS
    <3> QED BY DEF Write
  <2>2. \A w \in all : w.asShown = TRUE \/ Unanswers(w.id)
    <3> SUFFICES ASSUME NEW o \in D
                 PROVE  Write(o, plan.before[o], stack.rule[o], {o}).asShown = TRUE
                        \/ Unanswers(Write(o, plan.before[o], stack.rule[o], {o}).id)
      OBVIOUS
    <3>1. plan.before[o] = stack.rule[o] \/ moved \cap {o} # {} \/ Unanswers(o)
      BY <1>2
    <3> QED BY <3>1 DEF Write, Unanswers
  <2>3. \A w \in lost : w.id \in D /\ w.answered = FALSE
    <3> SUFFICES ASSUME NEW w \in all PROVE Unanswered(w).id \in D
                          /\ Unanswered(w).answered = FALSE
      OBVIOUS
    <3>1. DOMAIN w = {"id", "asShown", "answered"}
      BY DEF Write
    <3> QED BY <2>1, <3>1 DEF Unanswered
  <2>4. \A o \in D : \E w \in all : w.id = o
    <3> SUFFICES ASSUME NEW o \in D PROVE \E w \in all : w.id = o
      OBVIOUS
    <3>1. Write(o, plan.before[o], stack.rule[o], {o}) \in all
      OBVIOUS
    <3>2. Write(o, plan.before[o], stack.rule[o], {o}).id = o
      BY DEF Write
    <3> QED BY <3>1, <3>2
  <2>5. \A o \in D : \E w \in lost : w.id = o
    <3> SUFFICES ASSUME NEW w \in all PROVE Unanswered(w).id = w.id
      BY <2>4
    <3>1. DOMAIN w = {"id", "asShown", "answered"}
      BY DEF Write
    <3> QED BY <3>1 DEF Unanswered
  <2> QED BY <2>1, <2>2, <2>3, <2>4, <2>5
<1> HIDE DEF all, lost, new
<1>8. \A r \in R : GoodRow(r, all)
  <2>1. ASSUME NEW o \in D PROVE o \in Ids /\ GoodRow(Row(o, "created", TRUE), all)
    <3>1. o \in Ids /\ o \in D
      BY <1>2, <1>5
    <3> HIDE DEF D
    <3> QED BY <1>2, <1>7, <3>1 DEF GoodRow, Row, SaysUntouched, Results
  <2> QED BY <2>1
<1>9. \A w \in all : \E r \in R : r.id = w.id
  <2>1. D \subseteq D
    <3> HIDE DEF D
    <3> QED OBVIOUS
  <2>2. ASSUME NEW o \in D PROVE \E r \in R : r.id = o
    <3> HIDE DEF D
    <3>1. CASE o \in D
      <4>1. Row(o, "created", TRUE) \in R
        BY <3>1
      <4>2. Row(o, "created", TRUE).id = o
        BY DEF Row
      <4> HIDE DEF R
      <4> QED BY <4>1, <4>2
    <3> QED BY <3>1
  <2> HIDE DEF R, D
  <2> QED BY <1>7, <2>1, <2>2
<1>10. \A r \in rows : SaysUntouched(r) => \A w \in all : w.id # r.id
  BY <1>2
<1> HIDE DEF R, D
<1>11. LoopStep
  <2>1. UNCHANGED cmd /\ pc \in {"check", "import_bundle"} /\ cmd.op # "delete_rules"
    BY <1>1, <1>2
  <2>2. WholeStep(all, lost, R)
    BY <1>3, <1>5, <1>7, <1>8, <1>9, <1>10, <2>1 DEF WholeStep
  <2> QED BY <2>2, WholeRequest, Zenon
<1>12. Bounds'
  BY <1>1, <1>3, BoundsKept, CommandAssumption DEF IInv, TypeOK, Bounds
<1>13. stack' \in Detection!StackType /\ PlanOK'
  <2>1. stack' \in Detection!StackType
    BY <1>2, <1>3, <1>4
  <2>2. PlanOK'
    BY <1>1 DEF IInv, PlanOK
  <2> QED BY <2>1, <2>2
<1>14. WritesWhatWasShown'
  <2>1. writes \subseteq writes' /\ \A w \in writes' : w \in writes \/ w \in all \/ w \in lost
    BY <1>3
  <2> QED BY <1>7, <2>1 DEF IInv, WritesWhatWasShown, Unanswers
<1>15. DetectionInv'
  <2>1. CASE pc' = "check"
    <3>1. stack' = new /\ writes' = writes \cup lost
      BY <1>1, <1>3, <2>1 DEF ReportAll, Fail, Goto, runVars
    <3>2. \A o \in cmd.targets : RuleSeen(o)'
      BY <1>1, <1>2, <1>6, <1>7, <3>1 DEF RuleSeen, Excused, Unanswers
    <3> QED BY <1>1, <2>1, <3>2 DEF DetectionInv
  <2>2. CASE pc' # "check"
    BY <1>1, <1>3, <2>2 DEF DetectionInv, ReportAll, Fail, Goto, runVars
  <2> QED BY <2>1, <2>2
<1> QED BY <1>11, <1>12, <1>13, <1>14, <1>15 DEF DetectionStep

\* Another client at work during a detection command.
LEMMA DetectionOthersEdit ==
    ASSUME IInv, cmd.family = "detection", Detection!OthersEdit
    PROVE  DetectionStep
<1>1. ~Ended /\ edits > 0 /\ edits' = edits - 1
        /\ UNCHANGED <<cmd, pc, todo, plan, writes, rows, faults>>
  BY DEF Detection!OthersEdit, Detection!Edit, Detection!Ended, Ended
<1>2. \/ \E o \in Ids, v \in {Detection!Absent, Detection!Other} :
           stack' = [stack EXCEPT !.rule[o] = v] /\ moved' = moved \cup {o}
      \/ \E o \in Ids, v \in {Detection!Absent, Detection!Other} :
           stack' = [stack EXCEPT !.list[o] = v] /\ moved' = moved \cup {o}
  BY DEF Detection!OthersEdit, Detection!Edit
<1>3. Watches
  BY <1>1 DEF Watches
<1>4. WritesWhatWasShown' /\ PlanOK'
  BY <1>1 DEF IInv, WritesWhatWasShown, PlanOK
<1>5. stack \in Detection!StackType /\ Bounds /\ DetectionInv
  BY DEF IInv, TypeOK, StackType, Bounds
<1>6. CASE \E o \in Ids, v \in {Detection!Absent, Detection!Other} :
             stack' = [stack EXCEPT !.rule[o] = v] /\ moved' = moved \cup {o}
  <2>1. PICK o \in Ids, v \in {Detection!Absent, Detection!Other} :
               stack' = [stack EXCEPT !.rule[o] = v] /\ moved' = moved \cup {o}
    BY <1>6
  <2>2. stack' \in Detection!StackType
    BY <1>5, <2>1 DEF Detection!StackType, Detection!Absent, Detection!Other,
       Detection!Desired
  <2>3. Bounds'
    BY <1>1, <1>5, <2>1, CommandAssumption DEF Bounds, CommandAssumption
  <2>4. DetectionInv'
    BY <1>1, <1>5, <2>1 DEF DetectionInv, RuleSeen, Excused, Unanswers, Detection!StackType
  <2> QED BY <1>1, <1>3, <1>4, <2>2, <2>3, <2>4 DEF DetectionStep, LoopStep
<1>7. CASE \E o \in Ids, v \in {Detection!Absent, Detection!Other} :
             stack' = [stack EXCEPT !.list[o] = v] /\ moved' = moved \cup {o}
  <2>1. PICK o \in Ids, v \in {Detection!Absent, Detection!Other} :
               stack' = [stack EXCEPT !.list[o] = v] /\ moved' = moved \cup {o}
    BY <1>7
  <2>2. stack' \in Detection!StackType
    BY <1>5, <2>1 DEF Detection!StackType, Detection!Absent, Detection!Other,
       Detection!Desired
  <2>3. Bounds'
    BY <1>1, <1>5, <2>1, CommandAssumption DEF Bounds, CommandAssumption
  <2>4. DetectionInv'
    BY <1>1, <1>5, <2>1 DEF DetectionInv, RuleSeen, Excused, Unanswers, Detection!StackType
  <2> QED BY <1>1, <1>3, <1>4, <2>2, <2>3, <2>4 DEF DetectionStep, LoopStep
<1> QED BY <1>2, <1>6, <1>7

-----------------------------------------------------------------------------
(* Agent policies.                                                           *)

\* What every step of an agent policy command does.
AgentPoliciesStep ==
    /\ LoopStep /\ stack' \in AgentPolicies!StackType /\ Bounds' /\ PlanOK'
    /\ WritesWhatWasShown' /\ AgentPoliciesInv'

\* The step BeginImport of an agent policy command.
LEMMA AgentPoliciesBeginImport ==
    ASSUME IInv, cmd.family = "agent_policies", AgentPolicies!BeginImport
    PROVE  AgentPoliciesStep
<1>1. pc = "start" /\ cmd.op = "import"
        /\ UNCHANGED <<cmd, plan, stack, moved, writes, rows, faults, edits>>
  BY DEF AgentPolicies!BeginImport
<1>2. /\ Planning
      /\ rows = {} /\ writes = {} /\ todo \in Seq(Ids)
      /\ cmd.op \notin BulkOps /\ cmd.op # "delete_rules" /\ cmd.op # "set_enabled"
  <2>1. Planning
    BY <1>1 DEF Planning
  <2>2. rows = {} /\ writes = {} /\ todo \in Seq(Ids)
    BY <2>1 DEF IInv, LoopInv, TodoOK, QuietPlanning
  <2>3. cmd.op \notin BulkOps /\ cmd.op # "delete_rules" /\ cmd.op # "set_enabled"
    BY DEF IInv, OpOK, BulkOps
  <2> QED BY <2>1, <2>2, <2>3
<1>3. Bounds'
  <2>1. faults' = faults
    BY <1>1
  <2>2. moved' \subseteq moved
    BY <1>1
  <2> QED BY <1>1, <2>1, <2>2, BoundsKept, CommandAssumption DEF IInv, TypeOK, Bounds
<1>4. stack' \in AgentPolicies!StackType /\ WritesWhatWasShown' /\ PlanOK'
  BY <1>1 DEF IInv, TypeOK, StackType, WritesWhatWasShown, PlanOK
<1>5. \/ pc' = "preflight" /\ todo' = Sorted(cmd.targets)
  BY SameOrder DEF AgentPolicies!BeginImport, Report, Row, Guard
<1>6. CASE pc' = "preflight" /\ todo' = Sorted(cmd.targets)
  <2>1. todo' \in Seq(Ids)
    BY <1>1, <1>6, SortedFacts, CommandAssumption DEF IInv, CmdOK
  <2>2. PlansOn
    BY <1>1, <1>2, <2>1, <1>6 DEF PlansOn, Planning, Ended, Wholesale
  <2>3. AgentPoliciesInv'
    BY <1>1, <1>6 DEF IInv, AgentPoliciesInv
  <2> QED BY <1>1, <1>3, <1>4, <2>1, <2>2, <2>3 DEF AgentPoliciesStep, LoopStep
<1> QED BY <1>5, <1>6

\* The step Preflight of an agent policy command.
LEMMA AgentPoliciesPreflight ==
    ASSUME IInv, cmd.family = "agent_policies", AgentPolicies!Preflight
    PROVE  AgentPoliciesStep
<1>1. pc = "preflight" /\ todo # <<>> /\ UNCHANGED <<cmd, stack, writes, edits>>
  BY DEF AgentPolicies!Preflight
<1>2. /\ Planning
      /\ rows = {} /\ writes = {} /\ todo \in Seq(Ids)
      /\ Head(todo) \in Ids /\ Tail(todo) \in Seq(Ids)
      /\ cmd.op \notin BulkOps /\ cmd.op # "delete_rules" /\ cmd.op # "set_enabled"
  <2>1. Planning
    BY <1>1 DEF Planning
  <2>2. rows = {} /\ writes = {} /\ todo \in Seq(Ids)
    BY <2>1 DEF IInv, LoopInv, TodoOK, QuietPlanning
  <2>3. Head(todo) \in Ids /\ Tail(todo) \in Seq(Ids)
    BY <1>1, <2>2, TailFacts
  <2>4. cmd.op \notin BulkOps /\ cmd.op # "delete_rules" /\ cmd.op # "set_enabled"
    BY DEF IInv, OpOK, BulkOps
  <2> QED BY <2>1, <2>2, <2>3, <2>4
<1>3. Bounds'
  <2>1. faults' = faults \/ (faults > 0 /\ faults' = faults - 1)
    BY DEF AgentPolicies!Preflight, AgentPolicies!Read, AgentPolicies!Checked
  <2>2. moved' \subseteq moved
    BY DEF AgentPolicies!Preflight, AgentPolicies!Read, AgentPolicies!Checked
  <2> QED BY <1>1, <2>1, <2>2, BoundsKept, CommandAssumption DEF IInv, TypeOK, Bounds
<1>4. stack' \in AgentPolicies!StackType /\ WritesWhatWasShown'
  BY <1>1 DEF IInv, TypeOK, StackType, WritesWhatWasShown
<1>5. \/ /\ pc' = pc /\ rows' = rows /\ todo' = Tail(todo)
         /\ plan' = [plan EXCEPT !.before
              = AgentPolicies!Noted(@, Head(todo), stack.policy[Head(todo)])]
      \/ Fail /\ plan' = plan
  BY DEF AgentPolicies!Preflight, AgentPolicies!Read, AgentPolicies!Checked,
     AgentPolicies!Fail, Fail, AgentPolicies!Goto, Goto, Report, Row, Guard
<1>6. CASE /\ pc' = pc /\ rows' = rows /\ todo' = Tail(todo)
           /\ plan' = [plan EXCEPT !.before
                = AgentPolicies!Noted(@, Head(todo), stack.policy[Head(todo)])]
  <2>1. PlanOK'
    BY <1>1, <1>2, <1>6 DEF IInv, PlanOK, AgentPolicies!Noted
  <2>2. PlansOn
    BY <1>1, <1>2, <1>6 DEF PlansOn, Planning, Ended, Wholesale, Goto, Fail
  <2>3. AgentPoliciesInv'
    BY <1>1, <1>6 DEF IInv, AgentPoliciesInv, Goto, Fail
  <2> QED BY <1>1, <1>3, <1>4, <2>1, <2>2, <2>3 DEF AgentPoliciesStep, LoopStep
<1>7. CASE Fail /\ plan' = plan
  <2>1. PlanOK'
    BY <1>1, <1>7 DEF IInv, PlanOK
  <2>2. PlansOn
    BY <1>1, <1>2, <1>7 DEF PlansOn, Planning, Ended, Wholesale, Goto, Fail
  <2>3. AgentPoliciesInv'
    BY <1>1, <1>7 DEF IInv, AgentPoliciesInv, Goto, Fail
  <2> QED BY <1>1, <1>3, <1>4, <2>1, <2>2, <2>3 DEF AgentPoliciesStep, LoopStep
<1> QED BY <1>5, <1>6, <1>7

\* The step PlanNames of an agent policy command.
LEMMA AgentPoliciesPlanNames ==
    ASSUME IInv, cmd.family = "agent_policies", AgentPolicies!PlanNames
    PROVE  AgentPoliciesStep
<1>1. pc = "preflight" /\ todo = <<>> /\ UNCHANGED <<cmd, plan, stack, writes, edits>>
  BY DEF AgentPolicies!PlanNames
<1>2. /\ Planning
      /\ rows = {} /\ writes = {} /\ todo \in Seq(Ids)
      /\ cmd.op \notin BulkOps /\ cmd.op # "delete_rules" /\ cmd.op # "set_enabled"
  <2>1. Planning
    BY <1>1 DEF Planning
  <2>2. rows = {} /\ writes = {} /\ todo \in Seq(Ids)
    BY <2>1 DEF IInv, LoopInv, TodoOK, QuietPlanning
  <2>3. cmd.op \notin BulkOps /\ cmd.op # "delete_rules" /\ cmd.op # "set_enabled"
    BY DEF IInv, OpOK, BulkOps
  <2> QED BY <2>1, <2>2, <2>3
<1>3. Bounds'
  <2>1. faults' = faults \/ (faults > 0 /\ faults' = faults - 1)
    BY DEF AgentPolicies!PlanNames, AgentPolicies!Read
  <2>2. moved' \subseteq moved
    BY DEF AgentPolicies!PlanNames, AgentPolicies!Read
  <2> QED BY <1>1, <2>1, <2>2, BoundsKept, CommandAssumption DEF IInv, TypeOK, Bounds
<1>4. stack' \in AgentPolicies!StackType /\ WritesWhatWasShown' /\ PlanOK'
  BY <1>1 DEF IInv, TypeOK, StackType, WritesWhatWasShown, PlanOK
<1>5. \/ Goto("package")
      \/ Fail
  BY DEF AgentPolicies!PlanNames, AgentPolicies!Read, AgentPolicies!Fail, Fail,
     AgentPolicies!Goto, Goto, Report, Row, Guard
<1>6. CASE Goto("package")
  <2>1. PlansOn
    BY <1>1, <1>2, <1>6 DEF PlansOn, Planning, Ended, Wholesale, Goto, Fail
  <2>2. AgentPoliciesInv'
    BY <1>1, <1>6 DEF IInv, AgentPoliciesInv, Goto, Fail
  <2> QED BY <1>1, <1>3, <1>4, <2>1, <2>2 DEF AgentPoliciesStep, LoopStep
<1>7. CASE Fail
  <2>1. PlansOn
    BY <1>1, <1>2, <1>7 DEF PlansOn, Planning, Ended, Wholesale, Goto, Fail
  <2>2. AgentPoliciesInv'
    BY <1>1, <1>7 DEF IInv, AgentPoliciesInv, Goto, Fail
  <2> QED BY <1>1, <1>3, <1>4, <2>1, <2>2 DEF AgentPoliciesStep, LoopStep
<1> QED BY <1>5, <1>6, <1>7

\* The step PlanPackage of an agent policy command.
LEMMA AgentPoliciesPlanPackage ==
    ASSUME IInv, cmd.family = "agent_policies", AgentPolicies!PlanPackage
    PROVE  AgentPoliciesStep
<1>1. pc = "package" /\ UNCHANGED <<cmd, stack, writes, edits>>
  BY DEF AgentPolicies!PlanPackage, AgentPolicies!Row, Row, AgentPolicies!Pending
<1>2. /\ Planning
      /\ rows = {} /\ writes = {} /\ todo \in Seq(Ids)
      /\ cmd.op \notin BulkOps /\ cmd.op # "delete_rules" /\ cmd.op # "set_enabled"
  <2>1. Planning
    BY <1>1 DEF Planning
  <2>2. rows = {} /\ writes = {} /\ todo \in Seq(Ids)
    BY <2>1 DEF IInv, LoopInv, TodoOK, QuietPlanning
  <2>3. cmd.op \notin BulkOps /\ cmd.op # "delete_rules" /\ cmd.op # "set_enabled"
    BY DEF IInv, OpOK, BulkOps
  <2> QED BY <2>1, <2>2, <2>3
<1>3. Bounds'
  <2>1. faults' = faults \/ (faults > 0 /\ faults' = faults - 1)
    BY DEF AgentPolicies!PlanPackage, AgentPolicies!Read, AgentPolicies!Checked,
       AgentPolicies!Row, Row, AgentPolicies!Pending
  <2>2. moved' \subseteq moved
    BY DEF AgentPolicies!PlanPackage, AgentPolicies!Read, AgentPolicies!Checked,
       AgentPolicies!Row, Row, AgentPolicies!Pending
  <2> QED BY <1>1, <2>1, <2>2, BoundsKept, CommandAssumption DEF IInv, TypeOK, Bounds
<1>4. stack' \in AgentPolicies!StackType /\ WritesWhatWasShown'
  BY <1>1 DEF IInv, TypeOK, StackType, WritesWhatWasShown
<1>5. \/ Fail /\ plan' = plan
      \/ /\ Guard([[plan EXCEPT !.before
              = [o \in cmd.targets \ AgentPolicies!Skipped |-> plan.before[o]]]
              EXCEPT !.package = stack.package], Sorted(cmd.targets \ AgentPolicies!Skipped))
         /\ rows' = {Row(o, "skipped", FALSE) : o \in AgentPolicies!Skipped}
      \/ /\ Guard([plan EXCEPT !.before
              = [o \in cmd.targets \ AgentPolicies!Skipped |-> plan.before[o]]],
                Sorted(cmd.targets \ AgentPolicies!Skipped))
         /\ rows' = {Row(o, "skipped", FALSE) : o \in AgentPolicies!Skipped}
  BY SameOrder DEF AgentPolicies!PlanPackage, AgentPolicies!Read, AgentPolicies!Checked,
     AgentPolicies!Fail, Fail, AgentPolicies!Goto, Goto, Report, AgentPolicies!Row, Row,
     AgentPolicies!Guard, Guard, AgentPolicies!Pending
<1>6. CASE Fail /\ plan' = plan
  <2>1. PlanOK'
    BY <1>1, <1>6 DEF IInv, PlanOK
  <2>2. PlansOn
    BY <1>1, <1>2, <1>6 DEF PlansOn, Planning, Ended, Wholesale, Goto, Fail
  <2>3. AgentPoliciesInv'
    BY <1>1, <1>6 DEF IInv, AgentPoliciesInv, Goto, Fail
  <2> QED BY <1>1, <1>3, <1>4, <2>1, <2>2, <2>3 DEF AgentPoliciesStep, LoopStep
<1>7. CASE /\ Guard([[plan EXCEPT !.before
                = [o \in cmd.targets \ AgentPolicies!Skipped |-> plan.before[o]]]
                EXCEPT !.package = stack.package], Sorted(cmd.targets \ AgentPolicies!Skipped))
           /\ rows' = {Row(o, "skipped", FALSE) : o \in AgentPolicies!Skipped}
  <2>1. cmd.targets \ AgentPolicies!Skipped \in SUBSET Ids
          /\ cmd.targets \ AgentPolicies!Skipped \subseteq Touchable /\ cmd.yes \in BOOLEAN
    BY <1>1, <1>2 DEF IInv, CmdOK, OpOK, Touchable
  <2>2. \A r \in rows' : r.id \in AgentPolicies!Skipped /\ r.result = "skipped"
          /\ r.applied = FALSE
    BY <1>7 DEF Row
  <2>3. AgentPolicies!Skipped \subseteq Ids
          /\ AgentPolicies!Skipped \cap (cmd.targets \ AgentPolicies!Skipped) = {}
    BY <1>1, <1>2 DEF IInv, PlanOK, AgentPolicies!Skipped, AgentPolicies!Existing
  <2>4. \A r \in rows' : r.id \in Ids \ (cmd.targets \ AgentPolicies!Skipped)
          /\ r.result = "skipped" /\ r.applied = FALSE
    BY <2>2, <2>3
  <2>5. /\ Guarded /\ plan'
             = [[plan EXCEPT !.before
               = [o \in cmd.targets \ AgentPolicies!Skipped |-> plan.before[o]]]
               EXCEPT !.package = stack.package] /\ pc' \in {"check", "done"}
        /\ pc' = "check" => Range(todo') = cmd.targets \ AgentPolicies!Skipped
    BY <1>1, <1>2, <2>1, <2>4, <1>7, SortedGuard, CommandAssumption
  <2>6. PlanOK'
    BY <1>1, <2>1, <2>5 DEF IInv, PlanOK, CmdOK
  <2>7. AgentPoliciesInv'
    BY <1>1, <2>5 DEF IInv, AgentPoliciesInv
  <2> QED BY <1>1, <1>3, <1>4, <2>1, <2>2, <2>3, <2>4, <2>5, <2>6, <2>7 DEF
         AgentPoliciesStep, LoopStep
<1>8. CASE /\ Guard([plan EXCEPT !.before
                = [o \in cmd.targets \ AgentPolicies!Skipped |-> plan.before[o]]],
                  Sorted(cmd.targets \ AgentPolicies!Skipped))
           /\ rows' = {Row(o, "skipped", FALSE) : o \in AgentPolicies!Skipped}
  <2>1. cmd.targets \ AgentPolicies!Skipped \in SUBSET Ids
          /\ cmd.targets \ AgentPolicies!Skipped \subseteq Touchable /\ cmd.yes \in BOOLEAN
    BY <1>1, <1>2 DEF IInv, CmdOK, OpOK, Touchable
  <2>2. \A r \in rows' : r.id \in AgentPolicies!Skipped /\ r.result = "skipped"
          /\ r.applied = FALSE
    BY <1>8 DEF Row
  <2>3. AgentPolicies!Skipped \subseteq Ids
          /\ AgentPolicies!Skipped \cap (cmd.targets \ AgentPolicies!Skipped) = {}
    BY <1>1, <1>2 DEF IInv, PlanOK, AgentPolicies!Skipped, AgentPolicies!Existing
  <2>4. \A r \in rows' : r.id \in Ids \ (cmd.targets \ AgentPolicies!Skipped)
          /\ r.result = "skipped" /\ r.applied = FALSE
    BY <2>2, <2>3
  <2>5. /\ Guarded /\ plan'
             = [plan EXCEPT !.before
               = [o \in cmd.targets \ AgentPolicies!Skipped |-> plan.before[o]]]
                 /\ pc' \in {"check", "done"}
        /\ pc' = "check" => Range(todo') = cmd.targets \ AgentPolicies!Skipped
    BY <1>1, <1>2, <2>1, <2>4, <1>8, SortedGuard, CommandAssumption
  <2>6. PlanOK'
    BY <1>1, <2>1, <2>5 DEF IInv, PlanOK, CmdOK
  <2>7. AgentPoliciesInv'
    BY <1>1, <2>5 DEF IInv, AgentPoliciesInv
  <2> QED BY <1>1, <1>3, <1>4, <2>1, <2>2, <2>3, <2>4, <2>5, <2>6, <2>7 DEF
         AgentPoliciesStep, LoopStep
<1> QED BY <1>5, <1>6, <1>7, <1>8

\* The step CheckPolicy of an agent policy command.
LEMMA AgentPoliciesCheckPolicy ==
    ASSUME IInv, cmd.family = "agent_policies", AgentPolicies!CheckPolicy
    PROVE  AgentPoliciesStep
<1>1. pc = "check" /\ UNCHANGED <<cmd, plan, stack, writes, edits>>
  BY DEF AgentPolicies!CheckPolicy
<1>2. /\ Looping
      /\ todo # <<>> /\ todo \in Seq(Ids) /\ Head(todo) \in Ids /\ Head(todo) \in Touchable
           /\ ~Planning /\ ~Ended
      /\ cmd.op \notin BulkOps /\ cmd.op # "delete_rules" /\ cmd.op # "set_enabled"
  <2>1. Looping
    BY <1>1 DEF Looping, Ended, Planning, Wholesale
  <2>2. todo # <<>> /\ todo \in Seq(Ids) /\ Head(todo) \in Ids /\ Head(todo) \in Touchable
          /\ ~Planning /\ ~Ended
    BY <2>1, LoopFacts DEF IInv
  <2>3. cmd.op \notin BulkOps /\ cmd.op # "delete_rules" /\ cmd.op # "set_enabled"
    BY DEF IInv, OpOK, BulkOps
  <2> QED BY <2>1, <2>2, <2>3
<1>3. Bounds'
  <2>1. faults' = faults \/ (faults > 0 /\ faults' = faults - 1)
    BY DEF AgentPolicies!CheckPolicy, AgentPolicies!Read, AgentPolicies!Checked
  <2>2. moved' \subseteq moved
    BY DEF AgentPolicies!CheckPolicy, AgentPolicies!Read, AgentPolicies!Checked
  <2> QED BY <1>1, <2>1, <2>2, BoundsKept, CommandAssumption DEF IInv, TypeOK, Bounds
<1>4. stack' \in AgentPolicies!StackType /\ WritesWhatWasShown' /\ PlanOK'
  BY <1>1 DEF IInv, TypeOK, StackType, WritesWhatWasShown, PlanOK
<1>5. \/ \E res \in {"failed", "unchanged"} : Report(Head(todo), res, FALSE)
      \/ /\ Goto("delete")
         /\ stack.policy[Head(todo)] = plan.before[Head(todo)]
      \/ /\ Goto("check_package")
         /\ stack.policy[Head(todo)] = plan.before[Head(todo)]
      \/ /\ Goto("check_name")
         /\ stack.policy[Head(todo)] = plan.before[Head(todo)]
              /\ ~AgentPolicies!CanInstall(Head(todo))
      \/ /\ Goto("update")
         /\ stack.policy[Head(todo)] = plan.before[Head(todo)]
              /\ ~AgentPolicies!CanInstall(Head(todo))
  BY DEF AgentPolicies!CheckPolicy, AgentPolicies!Read, AgentPolicies!Checked,
     AgentPolicies!Goto, Goto, AgentPolicies!Report, Report, AgentPolicies!Row, Row, Guard
<1>6. CASE \E res \in {"failed", "unchanged"} : Report(Head(todo), res, FALSE)
  <2>1. Reported
    BY <1>1, <1>2, <1>6, RowWithoutWrite DEF Results, AfterWrite
  <2>2. AgentPoliciesInv'
    BY <1>1, <1>6 DEF IInv, AgentPoliciesInv, Report
  <2> QED BY <1>1, <1>3, <1>4, <2>1, <2>2 DEF AgentPoliciesStep, LoopStep
<1>7. CASE /\ Goto("delete")
           /\ stack.policy[Head(todo)] = plan.before[Head(todo)]
  <2>1. HandlesOn
    BY <1>1, <1>2, <1>7 DEF HandlesOn, Goto, Looping, Ended, Planning, Wholesale, Bulk,
       AfterWrite
  <2>2. AgentPoliciesInv'
    BY <1>1, <1>7 DEF IInv, AgentPoliciesInv, Goto, Excused, Unanswers
  <2> QED BY <1>1, <1>3, <1>4, <2>1, <2>2 DEF AgentPoliciesStep, LoopStep
<1>8. CASE /\ Goto("check_package")
           /\ stack.policy[Head(todo)] = plan.before[Head(todo)]
  <2>1. HandlesOn
    BY <1>1, <1>2, <1>8 DEF HandlesOn, Goto, Looping, Ended, Planning, Wholesale, Bulk,
       AfterWrite
  <2>2. AgentPoliciesInv'
    BY <1>1, <1>8 DEF IInv, AgentPoliciesInv, Goto, Excused, Unanswers
  <2> QED BY <1>1, <1>3, <1>4, <2>1, <2>2 DEF AgentPoliciesStep, LoopStep
<1>9. CASE /\ Goto("check_name")
           /\ stack.policy[Head(todo)] = plan.before[Head(todo)]
                /\ ~AgentPolicies!CanInstall(Head(todo))
  <2>1. HandlesOn
    BY <1>1, <1>2, <1>9 DEF HandlesOn, Goto, Looping, Ended, Planning, Wholesale, Bulk,
       AfterWrite
  <2>2. AgentPoliciesInv'
    BY <1>1, <1>9 DEF IInv, AgentPoliciesInv, Goto, Excused, Unanswers,
       AgentPolicies!CanInstall
  <2> QED BY <1>1, <1>3, <1>4, <2>1, <2>2 DEF AgentPoliciesStep, LoopStep
<1>10. CASE /\ Goto("update")
            /\ stack.policy[Head(todo)] = plan.before[Head(todo)]
                 /\ ~AgentPolicies!CanInstall(Head(todo))
  <2>1. HandlesOn
    BY <1>1, <1>2, <1>10 DEF HandlesOn, Goto, Looping, Ended, Planning, Wholesale, Bulk,
       AfterWrite
  <2>2. AgentPoliciesInv'
    BY <1>1, <1>10 DEF IInv, AgentPoliciesInv, Goto, Excused, Unanswers,
       AgentPolicies!CanInstall
  <2> QED BY <1>1, <1>3, <1>4, <2>1, <2>2 DEF AgentPoliciesStep, LoopStep
<1> QED BY <1>5, <1>6, <1>7, <1>8, <1>9, <1>10

\* The step CheckPackage of an agent policy command.
LEMMA AgentPoliciesCheckPackage ==
    ASSUME IInv, cmd.family = "agent_policies", AgentPolicies!CheckPackage
    PROVE  AgentPoliciesStep
<1>1. pc = "check_package" /\ UNCHANGED <<cmd, plan, stack, writes, edits>>
  BY DEF AgentPolicies!CheckPackage, AgentPolicies!Package
<1>2. /\ Looping
      /\ todo # <<>> /\ todo \in Seq(Ids) /\ Head(todo) \in Ids /\ Head(todo) \in Touchable
           /\ ~Planning /\ ~Ended
      /\ cmd.op \notin BulkOps /\ cmd.op # "delete_rules" /\ cmd.op # "set_enabled"
  <2>1. Looping
    BY <1>1 DEF Looping, Ended, Planning, Wholesale
  <2>2. todo # <<>> /\ todo \in Seq(Ids) /\ Head(todo) \in Ids /\ Head(todo) \in Touchable
          /\ ~Planning /\ ~Ended
    BY <2>1, LoopFacts DEF IInv
  <2>3. cmd.op \notin BulkOps /\ cmd.op # "delete_rules" /\ cmd.op # "set_enabled"
    BY DEF IInv, OpOK, BulkOps
  <2> QED BY <2>1, <2>2, <2>3
<1>3. Bounds'
  <2>1. faults' = faults \/ (faults > 0 /\ faults' = faults - 1)
    BY DEF AgentPolicies!CheckPackage, AgentPolicies!Read, AgentPolicies!Checked,
       AgentPolicies!Package
  <2>2. moved' \subseteq moved
    BY DEF AgentPolicies!CheckPackage, AgentPolicies!Read, AgentPolicies!Checked,
       AgentPolicies!Package
  <2> QED BY <1>1, <2>1, <2>2, BoundsKept, CommandAssumption DEF IInv, TypeOK, Bounds
<1>4. stack' \in AgentPolicies!StackType /\ WritesWhatWasShown' /\ PlanOK'
  BY <1>1 DEF IInv, TypeOK, StackType, WritesWhatWasShown, PlanOK
<1>5. \/ Report(Head(todo), "failed", FALSE)
      \/ /\ Goto("check_name")
         /\ stack.package = plan.package /\ moved' = moved \ {0}
      \/ /\ Goto("update")
         /\ stack.package = plan.package /\ moved' = moved \ {0}
  BY DEF AgentPolicies!CheckPackage, AgentPolicies!Read, AgentPolicies!Checked,
     AgentPolicies!Goto, Goto, AgentPolicies!Report, Report, AgentPolicies!Row, Row, Guard,
     AgentPolicies!Package
<1>6. CASE Report(Head(todo), "failed", FALSE)
  <2>1. Reported
    BY <1>1, <1>2, <1>6, RowWithoutWrite DEF Results, AfterWrite
  <2>2. AgentPoliciesInv'
    BY <1>1, <1>6 DEF IInv, AgentPoliciesInv, Report
  <2> QED BY <1>1, <1>3, <1>4, <2>1, <2>2 DEF AgentPoliciesStep, LoopStep
<1>7. CASE /\ Goto("check_name")
           /\ stack.package = plan.package /\ moved' = moved \ {0}
  <2>1. Head(todo) # 0
    BY <1>2, CommandAssumption DEF CommandAssumption
  <2>2. moved \cap {Head(todo)} # {} => moved' \cap {Head(todo)} # {}
    BY <2>1, <1>7
  <2>3. HandlesOn
    BY <1>1, <1>2, <1>7 DEF HandlesOn, Goto, Looping, Ended, Planning, Wholesale, Bulk,
       AfterWrite
  <2>4. AgentPoliciesInv'
    BY <1>1, <2>2, <1>7 DEF IInv, AgentPoliciesInv, Goto, Excused, Unanswers
  <2> QED BY <1>1, <1>3, <1>4, <2>1, <2>2, <2>3, <2>4 DEF AgentPoliciesStep, LoopStep
<1>8. CASE /\ Goto("update")
           /\ stack.package = plan.package /\ moved' = moved \ {0}
  <2>1. Head(todo) # 0
    BY <1>2, CommandAssumption DEF CommandAssumption
  <2>2. moved \cap {Head(todo)} # {} => moved' \cap {Head(todo)} # {}
    BY <2>1, <1>8
  <2>3. HandlesOn
    BY <1>1, <1>2, <1>8 DEF HandlesOn, Goto, Looping, Ended, Planning, Wholesale, Bulk,
       AfterWrite
  <2>4. AgentPoliciesInv'
    BY <1>1, <2>2, <1>8 DEF IInv, AgentPoliciesInv, Goto, Excused, Unanswers
  <2> QED BY <1>1, <1>3, <1>4, <2>1, <2>2, <2>3, <2>4 DEF AgentPoliciesStep, LoopStep
<1> QED BY <1>5, <1>6, <1>7, <1>8

\* The step CheckName of an agent policy command.
LEMMA AgentPoliciesCheckName ==
    ASSUME IInv, cmd.family = "agent_policies", AgentPolicies!CheckName
    PROVE  AgentPoliciesStep
<1>1. pc = "check_name" /\ UNCHANGED <<cmd, plan, stack, writes, edits>>
  BY DEF AgentPolicies!CheckName
<1>2. /\ Looping
      /\ todo # <<>> /\ todo \in Seq(Ids) /\ Head(todo) \in Ids /\ Head(todo) \in Touchable
           /\ ~Planning /\ ~Ended
      /\ cmd.op \notin BulkOps /\ cmd.op # "delete_rules" /\ cmd.op # "set_enabled"
  <2>1. Looping
    BY <1>1 DEF Looping, Ended, Planning, Wholesale
  <2>2. todo # <<>> /\ todo \in Seq(Ids) /\ Head(todo) \in Ids /\ Head(todo) \in Touchable
          /\ ~Planning /\ ~Ended
    BY <2>1, LoopFacts DEF IInv
  <2>3. cmd.op \notin BulkOps /\ cmd.op # "delete_rules" /\ cmd.op # "set_enabled"
    BY DEF IInv, OpOK, BulkOps
  <2> QED BY <2>1, <2>2, <2>3
<1>3. Bounds'
  <2>1. faults' = faults \/ (faults > 0 /\ faults' = faults - 1)
    BY DEF AgentPolicies!CheckName, AgentPolicies!Read
  <2>2. moved' \subseteq moved
    BY DEF AgentPolicies!CheckName, AgentPolicies!Read
  <2> QED BY <1>1, <2>1, <2>2, BoundsKept, CommandAssumption DEF IInv, TypeOK, Bounds
<1>4. stack' \in AgentPolicies!StackType /\ WritesWhatWasShown' /\ PlanOK'
  BY <1>1 DEF IInv, TypeOK, StackType, WritesWhatWasShown, PlanOK
<1>5. \/ Report(Head(todo), "failed", FALSE)
      \/ /\ Goto("create")
         /\ moved' = moved
  BY DEF AgentPolicies!CheckName, AgentPolicies!Read, AgentPolicies!Goto, Goto,
     AgentPolicies!Report, Report, AgentPolicies!Row, Row, Guard
<1>6. CASE Report(Head(todo), "failed", FALSE)
  <2>1. Reported
    BY <1>1, <1>2, <1>6, RowWithoutWrite DEF Results, AfterWrite
  <2>2. AgentPoliciesInv'
    BY <1>1, <1>6 DEF IInv, AgentPoliciesInv, Report
  <2> QED BY <1>1, <1>3, <1>4, <2>1, <2>2 DEF AgentPoliciesStep, LoopStep
<1>7. CASE /\ Goto("create")
           /\ moved' = moved
  <2>1. HandlesOn
    BY <1>1, <1>2, <1>7 DEF HandlesOn, Goto, Looping, Ended, Planning, Wholesale, Bulk,
       AfterWrite
  <2>2. AgentPoliciesInv'
    BY <1>1, <1>7 DEF IInv, AgentPoliciesInv, Goto, Excused, Unanswers,
       AgentPolicies!CanInstall
  <2> QED BY <1>1, <1>3, <1>4, <2>1, <2>2 DEF AgentPoliciesStep, LoopStep
<1> QED BY <1>5, <1>6, <1>7

\* The step Create of an agent policy command.
LEMMA AgentPoliciesCreate ==
    ASSUME IInv, cmd.family = "agent_policies", AgentPolicies!Create
    PROVE  AgentPoliciesStep
<1> DEFINE w == Write(Head(todo),
             AgentPolicies!Shown(Head(todo)), <<stack.policy[Head(todo)],
               TRUE>>, {Head(todo), 0})
           u == Unanswered(w)
           new == {AgentPolicies!Written(Head(todo), p) :
             p \in AgentPolicies!Installed(Head(todo))}
<1>1. pc = "create" /\ DOMAIN plan = {"before", "package", "applied", "bad"}
        /\ UNCHANGED <<cmd, moved, edits>>
  BY DEF IInv, AgentPoliciesInv, AgentPolicies!Create, AgentPolicies!Send,
     AgentPolicies!Resend, AgentPolicies!Routed, AgentPolicies!Package, AgentPolicies!runVars,
     runVars, AgentPolicies!Goto, Goto, AgentPolicies!Report, Report
<1>2. /\ Looping
      /\ todo # <<>> /\ todo \in Seq(Ids) /\ Head(todo) \in Ids /\ Head(todo) \in Touchable
           /\ ~Planning /\ ~Ended
      /\ cmd.op \notin BulkOps /\ cmd.op # "delete_rules" /\ cmd.op # "set_enabled"
  <2>1. Looping
    BY <1>1 DEF Looping, Ended, Planning, Wholesale
  <2>2. todo # <<>> /\ todo \in Seq(Ids) /\ Head(todo) \in Ids /\ Head(todo) \in Touchable
          /\ ~Planning /\ ~Ended
    BY <2>1, LoopFacts DEF IInv
  <2>3. cmd.op \notin BulkOps /\ cmd.op # "delete_rules" /\ cmd.op # "set_enabled"
    BY DEF IInv, OpOK, BulkOps
  <2> QED BY <2>1, <2>2, <2>3
<1>3. Bounds'
  <2>1. faults' = faults \/ (faults > 0 /\ faults' = faults - 1)
    BY DEF AgentPolicies!Create, AgentPolicies!Mutate, AgentPolicies!MutateAll,
       AgentPolicies!Send, AgentPolicies!Resend, AgentPolicies!Routed, AgentPolicies!Package,
       AgentPolicies!runVars, runVars, AgentPolicies!Goto, Goto, AgentPolicies!Report, Report
  <2>2. moved' \subseteq moved
    BY <1>1
  <2> QED BY <1>1, <2>1, <2>2, BoundsKept, CommandAssumption DEF IInv, TypeOK, Bounds
<1>4. \/ /\ Goto("observe") /\ plan'.applied = FALSE /\ plan'.before = plan.before
              /\ plan'.package = plan.package
         /\ DOMAIN plan' = DOMAIN plan
         /\ stack' = stack /\ writes' = writes
      \/ /\ Report(Head(todo), "failed", FALSE) /\ plan'.before = plan.before
              /\ plan'.package = plan.package
         /\ DOMAIN plan' = DOMAIN plan
         /\ stack' = stack /\ writes' = writes
      \/ /\ Goto("observe") /\ plan'.applied = FALSE /\ plan'.before = plan.before
              /\ plan'.package = plan.package
         /\ DOMAIN plan' = DOMAIN plan
         /\ stack' \in new /\ writes' = writes \cup {u}
      \/ /\ Report(Head(todo), "failed", FALSE) /\ plan'.before = plan.before
              /\ plan'.package = plan.package
         /\ DOMAIN plan' = DOMAIN plan
         /\ stack' \in new /\ writes' = writes \cup {u}
      \/ /\ Goto("verify") /\ plan'.applied = TRUE /\ plan'.before = plan.before
              /\ plan'.package = plan.package
         /\ DOMAIN plan' = DOMAIN plan
         /\ stack' \in new /\ writes' = writes \cup {w}
      \/ /\ pc' = pc /\ todo' = todo /\ rows' = rows /\ plan' = plan
         /\ stack' \in new /\ writes' = writes \cup {u}
  <2>1. ASSUME AgentPolicies!Routed(Head(todo), FALSE)
        PROVE  /\ Goto("observe") \/ Report(Head(todo), "failed", FALSE)
               /\ plan'.applied = FALSE /\ plan'.before = plan.before
               /\ plan'.package = plan.package /\ DOMAIN plan' = DOMAIN plan
    BY <1>1, <2>1 DEF AgentPolicies!Routed, AgentPolicies!Goto, Goto, AgentPolicies!Report,
       Report, AgentPolicies!Row, Row
  <2>2. ASSUME AgentPolicies!Routed(Head(todo), TRUE)
        PROVE  /\ Goto("verify") /\ plan'.applied = TRUE /\ plan'.before = plan.before
               /\ plan'.package = plan.package /\ DOMAIN plan' = DOMAIN plan
    BY <1>1, <2>2 DEF AgentPolicies!Routed, AgentPolicies!Goto, Goto
  <2>3. \/ AgentPolicies!Routed(Head(todo), FALSE) /\ stack' = stack /\ writes' = writes
        \/ AgentPolicies!Routed(Head(todo), FALSE) /\ stack' \in new
             /\ writes' = writes \cup {u}
        \/ AgentPolicies!Routed(Head(todo), TRUE) /\ stack' \in new
             /\ writes' = writes \cup {w}
        \/ /\ pc' = pc /\ todo' = todo /\ rows' = rows /\ plan' = plan
           /\ stack' \in new /\ writes' = writes \cup {u}
    BY DEF AgentPolicies!Create, AgentPolicies!Send, AgentPolicies!Resend,
       AgentPolicies!Mutate, AgentPolicies!MutateAll, AgentPolicies!runVars,
       AgentPolicies!Write, Write, AgentPolicies!Unanswered, Unanswered, AgentPolicies!Package
  <2> QED BY <2>1, <2>2, <2>3
<1>5. /\ w.id = Head(todo) /\ w.answered = TRUE /\ u.id = Head(todo) /\ u.answered = FALSE
      /\ w.asShown = TRUE \/ Unanswers(Head(todo))
  <2>1. (<<stack.policy[Head(todo)], TRUE>>) = (AgentPolicies!Shown(Head(todo)))
          \/ moved \cap {Head(todo), 0} # {} \/ Unanswers(Head(todo))
    <3>1. stack.policy[Head(todo)] = plan.before[Head(todo)]
            \/ moved \cap {Head(todo), 0} # {} \/ Unanswers(Head(todo))
      BY <1>1 DEF IInv, AgentPoliciesInv, Excused
    <3>2. (AgentPolicies!CanInstall(Head(todo)) => plan.package = stack.package)
            \/ moved \cap {Head(todo), 0} # {} \/ Unanswers(Head(todo))
      BY <1>1 DEF IInv, AgentPoliciesInv, Excused
    <3> QED BY <3>1, <3>2 DEF AgentPolicies!Shown
  <2> QED BY <2>1 DEF Write, Unanswered
<1>6. TRUE => new \subseteq AgentPolicies!StackType
  <2>1. stack \in AgentPolicies!StackType /\ Head(todo) \in Ids
    BY <1>2 DEF IInv, TypeOK, StackType
  <2>2. stack.policy[Head(todo)] \in AgentPolicies!Policies \cup {AgentPolicies!Absent}
    BY <2>1 DEF AgentPolicies!StackType
  <2> DEFINE stored == [stack.policy[Head(todo)] EXCEPT !.spec = AgentPolicies!Desired]
  <2>3. stored \in AgentPolicies!Policies
    <3>1. stack.policy[Head(todo)] \in [spec : {0, 1, AgentPolicies!Desired}, busy : BOOLEAN]
      <4>1. CASE stack.policy[Head(todo)] \in AgentPolicies!Policies
        BY <4>1 DEF AgentPolicies!Policies
      <4>2. CASE stack.policy[Head(todo)] = AgentPolicies!Absent
        BY <4>2 DEF AgentPolicies!Absent
      <4> QED BY <2>2, <4>1, <4>2
    <3> QED BY <3>1 DEF AgentPolicies!Policies
  <2>4. \A p \in AgentPolicies!Installed(Head(todo)) : p \in BOOLEAN
    BY <2>1 DEF AgentPolicies!StackType, AgentPolicies!Installed
  <2>5. ASSUME NEW p \in BOOLEAN
                 PROVE AgentPolicies!Written(Head(todo), p) \in AgentPolicies!StackType
    <3>1. AgentPolicies!Written(Head(todo), p)
            = [stack EXCEPT !.policy = [stack.policy EXCEPT ![Head(todo)] = stored],
              !.package = p]
      BY <2>1 DEF AgentPolicies!StackType, AgentPolicies!Written
    <3> HIDE DEF stored
    <3>2. [stack.policy EXCEPT ![Head(todo)] = stored]
            \in [Ids -> AgentPolicies!Policies \cup {AgentPolicies!Absent}]
      BY <2>1, <2>3 DEF AgentPolicies!StackType
    <3> QED BY <2>1, <3>1, <3>2 DEF AgentPolicies!StackType
  <2> QED BY <2>4, <2>5
<1> HIDE DEF w, u, new
<1>7. CASE /\ Goto("observe") /\ plan'.applied = FALSE /\ plan'.before = plan.before
                /\ plan'.package = plan.package
           /\ DOMAIN plan' = DOMAIN plan
           /\ stack' = stack /\ writes' = writes
  <2>1. stack' \in AgentPolicies!StackType
    BY <1>7 DEF IInv, TypeOK, StackType
  <2>2. WritesWhatWasShown'
    BY <1>7 DEF IInv, WritesWhatWasShown
  <2>3. PlanOK'
    BY <1>1, <1>7 DEF IInv, PlanOK
  <2>4. HandlesOn
    BY <1>1, <1>2, <1>7 DEF HandlesOn, Goto, Looping, Ended, Planning, Wholesale, Bulk,
       AfterWrite
  <2>5. AgentPoliciesInv'
    BY <1>1, <1>2, <1>5, <1>7 DEF IInv, AgentPoliciesInv, Goto, Report, Excused, Unanswers,
       AgentPolicies!CanInstall
  <2> QED BY <1>1, <1>3, <2>1, <2>2, <2>3, <2>4, <2>5 DEF AgentPoliciesStep, LoopStep
<1>8. CASE /\ Report(Head(todo), "failed", FALSE) /\ plan'.before = plan.before
                /\ plan'.package = plan.package
           /\ DOMAIN plan' = DOMAIN plan
           /\ stack' = stack /\ writes' = writes
  <2>1. stack' \in AgentPolicies!StackType
    BY <1>8 DEF IInv, TypeOK, StackType
  <2>2. WritesWhatWasShown'
    BY <1>8 DEF IInv, WritesWhatWasShown
  <2>3. PlanOK'
    BY <1>1, <1>8 DEF IInv, PlanOK
  <2>4. Reported
    BY <1>1, <1>2, <1>8, RowWithoutWrite DEF Results, AfterWrite
  <2>5. AgentPoliciesInv'
    BY <1>1, <1>2, <1>5, <1>8 DEF IInv, AgentPoliciesInv, Goto, Report, Excused, Unanswers,
       AgentPolicies!CanInstall
  <2> QED BY <1>1, <1>3, <2>1, <2>2, <2>3, <2>4, <2>5 DEF AgentPoliciesStep, LoopStep
<1>9. CASE /\ Goto("observe") /\ plan'.applied = FALSE /\ plan'.before = plan.before
                /\ plan'.package = plan.package
           /\ DOMAIN plan' = DOMAIN plan
           /\ stack' \in new /\ writes' = writes \cup {u}
  <2>1. stack' \in AgentPolicies!StackType
    BY <1>6, <1>9
  <2>2. WritesWhatWasShown'
    BY <1>5, <1>9, ShownWrite DEF IInv
  <2>3. PlanOK'
    BY <1>1, <1>9 DEF IInv, PlanOK
  <2>4. HandlesOn
    BY <1>1, <1>2, <1>5, <1>9 DEF HandlesOn, Goto, Looping, Ended, Planning, Wholesale,
       Bulk, AfterWrite
  <2>5. AgentPoliciesInv'
    BY <1>1, <1>2, <1>5, <1>9 DEF IInv, AgentPoliciesInv, Goto, Report, Excused, Unanswers,
       AgentPolicies!CanInstall
  <2> QED BY <1>1, <1>3, <2>1, <2>2, <2>3, <2>4, <2>5 DEF AgentPoliciesStep, LoopStep
<1>10. CASE /\ Report(Head(todo), "failed", FALSE) /\ plan'.before = plan.before
                 /\ plan'.package = plan.package
            /\ DOMAIN plan' = DOMAIN plan
            /\ stack' \in new /\ writes' = writes \cup {u}
  <2>1. stack' \in AgentPolicies!StackType
    BY <1>6, <1>10
  <2>2. WritesWhatWasShown'
    BY <1>5, <1>10, ShownWrite DEF IInv
  <2>3. PlanOK'
    BY <1>1, <1>10 DEF IInv, PlanOK
  <2>4. Reported
    BY <1>1, <1>2, <1>5, <1>10, RowOfLostWrite DEF Results, AfterWrite
  <2>5. AgentPoliciesInv'
    BY <1>1, <1>2, <1>5, <1>10 DEF IInv, AgentPoliciesInv, Goto, Report, Excused, Unanswers,
       AgentPolicies!CanInstall
  <2> QED BY <1>1, <1>3, <2>1, <2>2, <2>3, <2>4, <2>5 DEF AgentPoliciesStep, LoopStep
<1>11. CASE /\ Goto("verify") /\ plan'.applied = TRUE /\ plan'.before = plan.before
                 /\ plan'.package = plan.package
            /\ DOMAIN plan' = DOMAIN plan
            /\ stack' \in new /\ writes' = writes \cup {w}
  <2>1. stack' \in AgentPolicies!StackType
    BY <1>6, <1>11
  <2>2. WritesWhatWasShown'
    BY <1>5, <1>11, ShownWrite DEF IInv
  <2>3. PlanOK'
    BY <1>1, <1>11 DEF IInv, PlanOK
  <2>4. HandlesOn
    BY <1>1, <1>2, <1>5, <1>11 DEF HandlesOn, Goto, Looping, Ended, Planning, Wholesale,
       Bulk, AfterWrite
  <2>5. AgentPoliciesInv'
    BY <1>1, <1>2, <1>5, <1>11 DEF IInv, AgentPoliciesInv, Goto, Report, Excused, Unanswers,
       AgentPolicies!CanInstall
  <2> QED BY <1>1, <1>3, <2>1, <2>2, <2>3, <2>4, <2>5 DEF AgentPoliciesStep, LoopStep
<1>12. CASE /\ pc' = pc /\ todo' = todo /\ rows' = rows /\ plan' = plan
            /\ stack' \in new /\ writes' = writes \cup {u}
  <2>1. stack' \in AgentPolicies!StackType
    BY <1>6, <1>12
  <2>2. WritesWhatWasShown'
    BY <1>5, <1>12, ShownWrite DEF IInv
  <2>3. PlanOK'
    BY <1>1, <1>12 DEF IInv, PlanOK
  <2>4. SendsAgain
    BY <1>1, <1>2, <1>5, <1>12 DEF SendsAgain, runVars, AfterWrite
  <2>5. AgentPoliciesInv'
    BY <1>1, <1>2, <1>5, <1>12 DEF IInv, AgentPoliciesInv, Goto, Report, Excused, Unanswers,
       AgentPolicies!CanInstall
  <2> QED BY <1>1, <1>3, <2>1, <2>2, <2>3, <2>4, <2>5 DEF AgentPoliciesStep, LoopStep
<1> QED BY <1>4, <1>7, <1>8, <1>9, <1>10, <1>11, <1>12

\* The step Update of an agent policy command.
LEMMA AgentPoliciesUpdate ==
    ASSUME IInv, cmd.family = "agent_policies", AgentPolicies!Update
    PROVE  AgentPoliciesStep
<1> DEFINE w == Write(Head(todo),
             AgentPolicies!Shown(Head(todo)), <<stack.policy[Head(todo)],
               TRUE>>, {Head(todo), 0})
           u == Unanswered(w)
           new == {AgentPolicies!Written(Head(todo), p) :
             p \in AgentPolicies!Installed(Head(todo))}
<1>1. pc = "update" /\ DOMAIN plan = {"before", "package", "applied", "bad"}
        /\ UNCHANGED <<cmd, moved, edits>>
  BY DEF IInv, AgentPoliciesInv, AgentPolicies!Update, AgentPolicies!Send,
     AgentPolicies!Resend, AgentPolicies!Routed, AgentPolicies!Package, AgentPolicies!runVars,
     runVars, AgentPolicies!Goto, Goto, AgentPolicies!Report, Report
<1>2. /\ Looping
      /\ todo # <<>> /\ todo \in Seq(Ids) /\ Head(todo) \in Ids /\ Head(todo) \in Touchable
           /\ ~Planning /\ ~Ended
      /\ cmd.op \notin BulkOps /\ cmd.op # "delete_rules" /\ cmd.op # "set_enabled"
  <2>1. Looping
    BY <1>1 DEF Looping, Ended, Planning, Wholesale
  <2>2. todo # <<>> /\ todo \in Seq(Ids) /\ Head(todo) \in Ids /\ Head(todo) \in Touchable
          /\ ~Planning /\ ~Ended
    BY <2>1, LoopFacts DEF IInv
  <2>3. cmd.op \notin BulkOps /\ cmd.op # "delete_rules" /\ cmd.op # "set_enabled"
    BY DEF IInv, OpOK, BulkOps
  <2> QED BY <2>1, <2>2, <2>3
<1>3. Bounds'
  <2>1. faults' = faults \/ (faults > 0 /\ faults' = faults - 1)
    BY DEF AgentPolicies!Update, AgentPolicies!Mutate, AgentPolicies!MutateAll,
       AgentPolicies!Send, AgentPolicies!Resend, AgentPolicies!Routed, AgentPolicies!Package,
       AgentPolicies!runVars, runVars, AgentPolicies!Goto, Goto, AgentPolicies!Report, Report
  <2>2. moved' \subseteq moved
    BY <1>1
  <2> QED BY <1>1, <2>1, <2>2, BoundsKept, CommandAssumption DEF IInv, TypeOK, Bounds
<1>4. \/ /\ Goto("observe") /\ plan'.applied = FALSE /\ plan'.before = plan.before
              /\ plan'.package = plan.package
         /\ DOMAIN plan' = DOMAIN plan
         /\ stack' = stack /\ writes' = writes
      \/ /\ Report(Head(todo), "failed", FALSE) /\ plan'.before = plan.before
              /\ plan'.package = plan.package
         /\ DOMAIN plan' = DOMAIN plan
         /\ stack' = stack /\ writes' = writes
      \/ /\ Goto("observe") /\ plan'.applied = FALSE /\ plan'.before = plan.before
              /\ plan'.package = plan.package
         /\ DOMAIN plan' = DOMAIN plan
         /\ stack' \in new /\ writes' = writes \cup {u}
      \/ /\ Report(Head(todo), "failed", FALSE) /\ plan'.before = plan.before
              /\ plan'.package = plan.package
         /\ DOMAIN plan' = DOMAIN plan
         /\ stack' \in new /\ writes' = writes \cup {u}
      \/ /\ Goto("verify") /\ plan'.applied = TRUE /\ plan'.before = plan.before
              /\ plan'.package = plan.package
         /\ DOMAIN plan' = DOMAIN plan
         /\ stack' \in new /\ writes' = writes \cup {w}
      \/ /\ pc' = pc /\ todo' = todo /\ rows' = rows /\ plan' = plan
         /\ stack' \in new /\ writes' = writes \cup {u}
  <2>1. ASSUME AgentPolicies!Routed(Head(todo), FALSE)
        PROVE  /\ Goto("observe") \/ Report(Head(todo), "failed", FALSE)
               /\ plan'.applied = FALSE /\ plan'.before = plan.before
               /\ plan'.package = plan.package /\ DOMAIN plan' = DOMAIN plan
    BY <1>1, <2>1 DEF AgentPolicies!Routed, AgentPolicies!Goto, Goto, AgentPolicies!Report,
       Report, AgentPolicies!Row, Row
  <2>2. ASSUME AgentPolicies!Routed(Head(todo), TRUE)
        PROVE  /\ Goto("verify") /\ plan'.applied = TRUE /\ plan'.before = plan.before
               /\ plan'.package = plan.package /\ DOMAIN plan' = DOMAIN plan
    BY <1>1, <2>2 DEF AgentPolicies!Routed, AgentPolicies!Goto, Goto
  <2>3. \/ AgentPolicies!Routed(Head(todo), FALSE) /\ stack' = stack /\ writes' = writes
        \/ AgentPolicies!Routed(Head(todo), FALSE) /\ stack' \in new
             /\ writes' = writes \cup {u}
        \/ AgentPolicies!Routed(Head(todo), TRUE) /\ stack' \in new
             /\ writes' = writes \cup {w}
        \/ /\ pc' = pc /\ todo' = todo /\ rows' = rows /\ plan' = plan
           /\ stack' \in new /\ writes' = writes \cup {u}
    BY DEF AgentPolicies!Update, AgentPolicies!Send, AgentPolicies!Resend,
       AgentPolicies!Mutate, AgentPolicies!MutateAll, AgentPolicies!runVars,
       AgentPolicies!Write, Write, AgentPolicies!Unanswered, Unanswered, AgentPolicies!Package
  <2> QED BY <2>1, <2>2, <2>3
<1>5. /\ w.id = Head(todo) /\ w.answered = TRUE /\ u.id = Head(todo) /\ u.answered = FALSE
      /\ w.asShown = TRUE \/ Unanswers(Head(todo))
  <2>1. (<<stack.policy[Head(todo)], TRUE>>) = (AgentPolicies!Shown(Head(todo)))
          \/ moved \cap {Head(todo), 0} # {} \/ Unanswers(Head(todo))
    <3>1. stack.policy[Head(todo)] = plan.before[Head(todo)]
            \/ moved \cap {Head(todo), 0} # {} \/ Unanswers(Head(todo))
      BY <1>1 DEF IInv, AgentPoliciesInv, Excused
    <3>2. (AgentPolicies!CanInstall(Head(todo)) => plan.package = stack.package)
            \/ moved \cap {Head(todo), 0} # {} \/ Unanswers(Head(todo))
      BY <1>1 DEF IInv, AgentPoliciesInv, Excused
    <3> QED BY <3>1, <3>2 DEF AgentPolicies!Shown
  <2> QED BY <2>1 DEF Write, Unanswered
<1>6. TRUE => new \subseteq AgentPolicies!StackType
  <2>1. stack \in AgentPolicies!StackType /\ Head(todo) \in Ids
    BY <1>2 DEF IInv, TypeOK, StackType
  <2>2. stack.policy[Head(todo)] \in AgentPolicies!Policies \cup {AgentPolicies!Absent}
    BY <2>1 DEF AgentPolicies!StackType
  <2> DEFINE stored == [stack.policy[Head(todo)] EXCEPT !.spec = AgentPolicies!Desired]
  <2>3. stored \in AgentPolicies!Policies
    <3>1. stack.policy[Head(todo)] \in [spec : {0, 1, AgentPolicies!Desired}, busy : BOOLEAN]
      <4>1. CASE stack.policy[Head(todo)] \in AgentPolicies!Policies
        BY <4>1 DEF AgentPolicies!Policies
      <4>2. CASE stack.policy[Head(todo)] = AgentPolicies!Absent
        BY <4>2 DEF AgentPolicies!Absent
      <4> QED BY <2>2, <4>1, <4>2
    <3> QED BY <3>1 DEF AgentPolicies!Policies
  <2>4. \A p \in AgentPolicies!Installed(Head(todo)) : p \in BOOLEAN
    BY <2>1 DEF AgentPolicies!StackType, AgentPolicies!Installed
  <2>5. ASSUME NEW p \in BOOLEAN
                 PROVE AgentPolicies!Written(Head(todo), p) \in AgentPolicies!StackType
    <3>1. AgentPolicies!Written(Head(todo), p)
            = [stack EXCEPT !.policy = [stack.policy EXCEPT ![Head(todo)] = stored],
              !.package = p]
      BY <2>1 DEF AgentPolicies!StackType, AgentPolicies!Written
    <3> HIDE DEF stored
    <3>2. [stack.policy EXCEPT ![Head(todo)] = stored]
            \in [Ids -> AgentPolicies!Policies \cup {AgentPolicies!Absent}]
      BY <2>1, <2>3 DEF AgentPolicies!StackType
    <3> QED BY <2>1, <3>1, <3>2 DEF AgentPolicies!StackType
  <2> QED BY <2>4, <2>5
<1> HIDE DEF w, u, new
<1>7. CASE /\ Goto("observe") /\ plan'.applied = FALSE /\ plan'.before = plan.before
                /\ plan'.package = plan.package
           /\ DOMAIN plan' = DOMAIN plan
           /\ stack' = stack /\ writes' = writes
  <2>1. stack' \in AgentPolicies!StackType
    BY <1>7 DEF IInv, TypeOK, StackType
  <2>2. WritesWhatWasShown'
    BY <1>7 DEF IInv, WritesWhatWasShown
  <2>3. PlanOK'
    BY <1>1, <1>7 DEF IInv, PlanOK
  <2>4. HandlesOn
    BY <1>1, <1>2, <1>7 DEF HandlesOn, Goto, Looping, Ended, Planning, Wholesale, Bulk,
       AfterWrite
  <2>5. AgentPoliciesInv'
    BY <1>1, <1>2, <1>5, <1>7 DEF IInv, AgentPoliciesInv, Goto, Report, Excused, Unanswers,
       AgentPolicies!CanInstall
  <2> QED BY <1>1, <1>3, <2>1, <2>2, <2>3, <2>4, <2>5 DEF AgentPoliciesStep, LoopStep
<1>8. CASE /\ Report(Head(todo), "failed", FALSE) /\ plan'.before = plan.before
                /\ plan'.package = plan.package
           /\ DOMAIN plan' = DOMAIN plan
           /\ stack' = stack /\ writes' = writes
  <2>1. stack' \in AgentPolicies!StackType
    BY <1>8 DEF IInv, TypeOK, StackType
  <2>2. WritesWhatWasShown'
    BY <1>8 DEF IInv, WritesWhatWasShown
  <2>3. PlanOK'
    BY <1>1, <1>8 DEF IInv, PlanOK
  <2>4. Reported
    BY <1>1, <1>2, <1>8, RowWithoutWrite DEF Results, AfterWrite
  <2>5. AgentPoliciesInv'
    BY <1>1, <1>2, <1>5, <1>8 DEF IInv, AgentPoliciesInv, Goto, Report, Excused, Unanswers,
       AgentPolicies!CanInstall
  <2> QED BY <1>1, <1>3, <2>1, <2>2, <2>3, <2>4, <2>5 DEF AgentPoliciesStep, LoopStep
<1>9. CASE /\ Goto("observe") /\ plan'.applied = FALSE /\ plan'.before = plan.before
                /\ plan'.package = plan.package
           /\ DOMAIN plan' = DOMAIN plan
           /\ stack' \in new /\ writes' = writes \cup {u}
  <2>1. stack' \in AgentPolicies!StackType
    BY <1>6, <1>9
  <2>2. WritesWhatWasShown'
    BY <1>5, <1>9, ShownWrite DEF IInv
  <2>3. PlanOK'
    BY <1>1, <1>9 DEF IInv, PlanOK
  <2>4. HandlesOn
    BY <1>1, <1>2, <1>5, <1>9 DEF HandlesOn, Goto, Looping, Ended, Planning, Wholesale,
       Bulk, AfterWrite
  <2>5. AgentPoliciesInv'
    BY <1>1, <1>2, <1>5, <1>9 DEF IInv, AgentPoliciesInv, Goto, Report, Excused, Unanswers,
       AgentPolicies!CanInstall
  <2> QED BY <1>1, <1>3, <2>1, <2>2, <2>3, <2>4, <2>5 DEF AgentPoliciesStep, LoopStep
<1>10. CASE /\ Report(Head(todo), "failed", FALSE) /\ plan'.before = plan.before
                 /\ plan'.package = plan.package
            /\ DOMAIN plan' = DOMAIN plan
            /\ stack' \in new /\ writes' = writes \cup {u}
  <2>1. stack' \in AgentPolicies!StackType
    BY <1>6, <1>10
  <2>2. WritesWhatWasShown'
    BY <1>5, <1>10, ShownWrite DEF IInv
  <2>3. PlanOK'
    BY <1>1, <1>10 DEF IInv, PlanOK
  <2>4. Reported
    BY <1>1, <1>2, <1>5, <1>10, RowOfLostWrite DEF Results, AfterWrite
  <2>5. AgentPoliciesInv'
    BY <1>1, <1>2, <1>5, <1>10 DEF IInv, AgentPoliciesInv, Goto, Report, Excused, Unanswers,
       AgentPolicies!CanInstall
  <2> QED BY <1>1, <1>3, <2>1, <2>2, <2>3, <2>4, <2>5 DEF AgentPoliciesStep, LoopStep
<1>11. CASE /\ Goto("verify") /\ plan'.applied = TRUE /\ plan'.before = plan.before
                 /\ plan'.package = plan.package
            /\ DOMAIN plan' = DOMAIN plan
            /\ stack' \in new /\ writes' = writes \cup {w}
  <2>1. stack' \in AgentPolicies!StackType
    BY <1>6, <1>11
  <2>2. WritesWhatWasShown'
    BY <1>5, <1>11, ShownWrite DEF IInv
  <2>3. PlanOK'
    BY <1>1, <1>11 DEF IInv, PlanOK
  <2>4. HandlesOn
    BY <1>1, <1>2, <1>5, <1>11 DEF HandlesOn, Goto, Looping, Ended, Planning, Wholesale,
       Bulk, AfterWrite
  <2>5. AgentPoliciesInv'
    BY <1>1, <1>2, <1>5, <1>11 DEF IInv, AgentPoliciesInv, Goto, Report, Excused, Unanswers,
       AgentPolicies!CanInstall
  <2> QED BY <1>1, <1>3, <2>1, <2>2, <2>3, <2>4, <2>5 DEF AgentPoliciesStep, LoopStep
<1>12. CASE /\ pc' = pc /\ todo' = todo /\ rows' = rows /\ plan' = plan
            /\ stack' \in new /\ writes' = writes \cup {u}
  <2>1. stack' \in AgentPolicies!StackType
    BY <1>6, <1>12
  <2>2. WritesWhatWasShown'
    BY <1>5, <1>12, ShownWrite DEF IInv
  <2>3. PlanOK'
    BY <1>1, <1>12 DEF IInv, PlanOK
  <2>4. SendsAgain
    BY <1>1, <1>2, <1>5, <1>12 DEF SendsAgain, runVars, AfterWrite
  <2>5. AgentPoliciesInv'
    BY <1>1, <1>2, <1>5, <1>12 DEF IInv, AgentPoliciesInv, Goto, Report, Excused, Unanswers,
       AgentPolicies!CanInstall
  <2> QED BY <1>1, <1>3, <2>1, <2>2, <2>3, <2>4, <2>5 DEF AgentPoliciesStep, LoopStep
<1> QED BY <1>4, <1>7, <1>8, <1>9, <1>10, <1>11, <1>12

\* The step Verify of an agent policy command.
LEMMA AgentPoliciesVerify ==
    ASSUME IInv, cmd.family = "agent_policies", AgentPolicies!Verify
    PROVE  AgentPoliciesStep
<1>1. pc = "verify" /\ plan.applied = TRUE
        /\ DOMAIN plan = {"before", "package", "applied", "bad"}
             /\ UNCHANGED <<cmd, stack, writes, edits>>
  BY DEF IInv, AgentPoliciesInv, AgentPolicies!Verify
<1>2. /\ Looping
      /\ todo # <<>> /\ todo \in Seq(Ids) /\ Head(todo) \in Ids /\ Head(todo) \in Touchable
           /\ ~Planning /\ ~Ended
      /\ cmd.op \notin BulkOps /\ cmd.op # "delete_rules" /\ cmd.op # "set_enabled"
  <2>1. Looping
    BY <1>1 DEF Looping, Ended, Planning, Wholesale
  <2>2. todo # <<>> /\ todo \in Seq(Ids) /\ Head(todo) \in Ids /\ Head(todo) \in Touchable
          /\ ~Planning /\ ~Ended
    BY <2>1, LoopFacts DEF IInv
  <2>3. cmd.op \notin BulkOps /\ cmd.op # "delete_rules" /\ cmd.op # "set_enabled"
    BY DEF IInv, OpOK, BulkOps
  <2> QED BY <2>1, <2>2, <2>3
<1>3. Bounds'
  <2>1. faults' = faults \/ (faults > 0 /\ faults' = faults - 1)
    BY DEF AgentPolicies!Verify, AgentPolicies!Read
  <2>2. moved' \subseteq moved
    BY DEF AgentPolicies!Verify, AgentPolicies!Read
  <2> QED BY <1>1, <2>1, <2>2, BoundsKept, CommandAssumption DEF IInv, TypeOK, Bounds
<1>4. stack' \in AgentPolicies!StackType /\ WritesWhatWasShown'
  BY <1>1 DEF IInv, TypeOK, StackType, WritesWhatWasShown
<1>5. \/ /\ Goto("observe") /\ plan'.applied = TRUE /\ plan'.before = plan.before
              /\ plan'.package = plan.package
         /\ DOMAIN plan' = DOMAIN plan
      \/ /\ Goto("report") /\ plan'.applied = TRUE /\ plan'.before = plan.before
              /\ plan'.package = plan.package
         /\ DOMAIN plan' = DOMAIN plan
  BY <1>1 DEF AgentPolicies!Verify, AgentPolicies!Read, AgentPolicies!Goto, Goto, Report,
     Row, Guard
<1>6. CASE /\ Goto("observe") /\ plan'.applied = TRUE /\ plan'.before = plan.before
                /\ plan'.package = plan.package
           /\ DOMAIN plan' = DOMAIN plan
  <2>1. PlanOK'
    BY <1>1, <1>6 DEF IInv, PlanOK
  <2>2. HandlesOn
    BY <1>1, <1>2, <1>6 DEF HandlesOn, Goto, Looping, Ended, Planning, Wholesale, Bulk,
       AfterWrite, IInv, LoopInv, HeadWritten
  <2>3. AgentPoliciesInv'
    BY <1>1, <1>6 DEF IInv, AgentPoliciesInv, Goto, Report
  <2> QED BY <1>1, <1>3, <1>4, <2>1, <2>2, <2>3 DEF AgentPoliciesStep, LoopStep
<1>7. CASE /\ Goto("report") /\ plan'.applied = TRUE /\ plan'.before = plan.before
                /\ plan'.package = plan.package
           /\ DOMAIN plan' = DOMAIN plan
  <2>1. PlanOK'
    BY <1>1, <1>7 DEF IInv, PlanOK
  <2>2. HandlesOn
    BY <1>1, <1>2, <1>7 DEF HandlesOn, Goto, Looping, Ended, Planning, Wholesale, Bulk,
       AfterWrite, IInv, LoopInv, HeadWritten
  <2>3. AgentPoliciesInv'
    BY <1>1, <1>7 DEF IInv, AgentPoliciesInv, Goto, Report
  <2> QED BY <1>1, <1>3, <1>4, <2>1, <2>2, <2>3 DEF AgentPoliciesStep, LoopStep
<1> QED BY <1>5, <1>6, <1>7

\* The step Observe of an agent policy command.
LEMMA AgentPoliciesObserve ==
    ASSUME IInv, cmd.family = "agent_policies", AgentPolicies!Observe
    PROVE  AgentPoliciesStep
<1>1. pc = "observe" /\ plan.applied \in BOOLEAN
        /\ DOMAIN plan = {"before", "package", "applied", "bad"}
             /\ UNCHANGED <<cmd, stack, writes, edits>>
  BY DEF IInv, AgentPoliciesInv, AgentPolicies!Observe, AgentPolicies!Outcome,
     AgentPolicies!RowResult
<1>2. /\ Looping
      /\ todo # <<>> /\ todo \in Seq(Ids) /\ Head(todo) \in Ids /\ Head(todo) \in Touchable
           /\ ~Planning /\ ~Ended
      /\ cmd.op \notin BulkOps /\ cmd.op # "delete_rules" /\ cmd.op # "set_enabled"
  <2>1. Looping
    BY <1>1 DEF Looping, Ended, Planning, Wholesale
  <2>2. todo # <<>> /\ todo \in Seq(Ids) /\ Head(todo) \in Ids /\ Head(todo) \in Touchable
          /\ ~Planning /\ ~Ended
    BY <2>1, LoopFacts DEF IInv
  <2>3. cmd.op \notin BulkOps /\ cmd.op # "delete_rules" /\ cmd.op # "set_enabled"
    BY DEF IInv, OpOK, BulkOps
  <2> QED BY <2>1, <2>2, <2>3
<1>3. Bounds'
  <2>1. faults' = faults \/ (faults > 0 /\ faults' = faults - 1)
    BY DEF AgentPolicies!Observe, AgentPolicies!Read, AgentPolicies!Checked,
       AgentPolicies!Outcome, AgentPolicies!RowResult
  <2>2. moved' \subseteq moved
    BY DEF AgentPolicies!Observe, AgentPolicies!Read, AgentPolicies!Checked,
       AgentPolicies!Outcome, AgentPolicies!RowResult
  <2> QED BY <1>1, <2>1, <2>2, BoundsKept, CommandAssumption DEF IInv, TypeOK, Bounds
<1>4. stack' \in AgentPolicies!StackType /\ WritesWhatWasShown'
  BY <1>1 DEF IInv, TypeOK, StackType, WritesWhatWasShown
<1>5. \/ /\ \E res \in {"failed", "created", "replaced"} : Report(Head(todo), res, TRUE)
         /\ plan.applied = TRUE
         /\ plan'.before = plan.before /\ DOMAIN plan' = DOMAIN plan
      \/ /\ \E res \in {"failed", "created", "replaced"} : Report(Head(todo), res, FALSE)
         /\ plan.applied = FALSE
         /\ plan'.before = plan.before /\ DOMAIN plan' = DOMAIN plan
  BY <1>1 DEF AgentPolicies!Observe, AgentPolicies!Read, AgentPolicies!Checked,
     AgentPolicies!Report, Report, AgentPolicies!Row, Row, Guard, AgentPolicies!Outcome,
     AgentPolicies!RowResult
<1>6. CASE /\ \E res \in {"failed", "created", "replaced"} : Report(Head(todo), res, TRUE)
           /\ plan.applied = TRUE
           /\ plan'.before = plan.before /\ DOMAIN plan' = DOMAIN plan
  <2>1. PlanOK'
    BY <1>1, <1>6 DEF IInv, PlanOK
  <2>2. Reported
    BY <1>1, <1>2, <1>6, RowAfterWrite DEF Results, AfterWrite, IInv, LoopInv
  <2>3. AgentPoliciesInv'
    BY <1>1, <1>6 DEF IInv, AgentPoliciesInv, Report
  <2> QED BY <1>1, <1>3, <1>4, <2>1, <2>2, <2>3 DEF AgentPoliciesStep, LoopStep
<1>7. CASE /\ \E res \in {"failed", "created", "replaced"} : Report(Head(todo), res, FALSE)
           /\ plan.applied = FALSE
           /\ plan'.before = plan.before /\ DOMAIN plan' = DOMAIN plan
  <2>1. PlanOK'
    BY <1>1, <1>7 DEF IInv, PlanOK
  <2>2. Reported
    BY <1>1, <1>2, <1>7, RowWithoutWrite DEF Results, AfterWrite
  <2>3. AgentPoliciesInv'
    BY <1>1, <1>7 DEF IInv, AgentPoliciesInv, Report
  <2> QED BY <1>1, <1>3, <1>4, <2>1, <2>2, <2>3 DEF AgentPoliciesStep, LoopStep
<1> QED BY <1>5, <1>6, <1>7

\* The step ReportRow of an agent policy command.
LEMMA AgentPoliciesReportRow ==
    ASSUME IInv, cmd.family = "agent_policies", AgentPolicies!ReportRow
    PROVE  AgentPoliciesStep
<1>1. pc = "report" /\ plan.applied \in BOOLEAN
        /\ DOMAIN plan = {"before", "package", "applied", "bad"}
             /\ UNCHANGED <<cmd, plan, stack, moved, writes, faults, edits>>
  BY DEF IInv, AgentPoliciesInv, AgentPolicies!ReportRow, AgentPolicies!Outcome,
     AgentPolicies!RowResult
<1>2. /\ Looping
      /\ todo # <<>> /\ todo \in Seq(Ids) /\ Head(todo) \in Ids /\ Head(todo) \in Touchable
           /\ ~Planning /\ ~Ended
      /\ cmd.op \notin BulkOps /\ cmd.op # "delete_rules" /\ cmd.op # "set_enabled"
  <2>1. Looping
    BY <1>1 DEF Looping, Ended, Planning, Wholesale
  <2>2. todo # <<>> /\ todo \in Seq(Ids) /\ Head(todo) \in Ids /\ Head(todo) \in Touchable
          /\ ~Planning /\ ~Ended
    BY <2>1, LoopFacts DEF IInv
  <2>3. cmd.op \notin BulkOps /\ cmd.op # "delete_rules" /\ cmd.op # "set_enabled"
    BY DEF IInv, OpOK, BulkOps
  <2> QED BY <2>1, <2>2, <2>3
<1>3. Bounds'
  <2>1. faults' = faults
    BY <1>1
  <2>2. moved' \subseteq moved
    BY <1>1
  <2> QED BY <1>1, <2>1, <2>2, BoundsKept, CommandAssumption DEF IInv, TypeOK, Bounds
<1>4. stack' \in AgentPolicies!StackType /\ WritesWhatWasShown' /\ PlanOK'
  BY <1>1 DEF IInv, TypeOK, StackType, WritesWhatWasShown, PlanOK
<1>5. \/ /\ \E res \in {"failed", "created", "replaced"} : Report(Head(todo), res, TRUE)
         /\ plan.applied = TRUE
      \/ /\ \E res \in {"failed", "created", "replaced"} : Report(Head(todo), res, FALSE)
         /\ plan.applied = FALSE
  BY <1>1 DEF AgentPolicies!ReportRow, AgentPolicies!Report, Report, AgentPolicies!Row, Row,
     Guard, AgentPolicies!Outcome, AgentPolicies!RowResult
<1>6. CASE /\ \E res \in {"failed", "created", "replaced"} : Report(Head(todo), res, TRUE)
           /\ plan.applied = TRUE
  <2>1. Reported
    BY <1>1, <1>2, <1>6, RowAfterWrite DEF Results, AfterWrite, IInv, LoopInv
  <2>2. AgentPoliciesInv'
    BY <1>1, <1>6 DEF IInv, AgentPoliciesInv, Report
  <2> QED BY <1>1, <1>3, <1>4, <2>1, <2>2 DEF AgentPoliciesStep, LoopStep
<1>7. CASE /\ \E res \in {"failed", "created", "replaced"} : Report(Head(todo), res, FALSE)
           /\ plan.applied = FALSE
  <2>1. Reported
    BY <1>1, <1>2, <1>7, RowWithoutWrite DEF Results, AfterWrite
  <2>2. AgentPoliciesInv'
    BY <1>1, <1>7 DEF IInv, AgentPoliciesInv, Report
  <2> QED BY <1>1, <1>3, <1>4, <2>1, <2>2 DEF AgentPoliciesStep, LoopStep
<1> QED BY <1>5, <1>6, <1>7

\* The step BeginDelete of an agent policy command.
LEMMA AgentPoliciesBeginDelete ==
    ASSUME IInv, cmd.family = "agent_policies", AgentPolicies!BeginDelete
    PROVE  AgentPoliciesStep
<1>1. pc = "start" /\ cmd.op = "delete"
        /\ UNCHANGED <<cmd, plan, stack, moved, writes, rows, faults, edits>>
  BY DEF AgentPolicies!BeginDelete
<1>2. /\ Planning
      /\ rows = {} /\ writes = {} /\ todo \in Seq(Ids)
      /\ cmd.op \notin BulkOps /\ cmd.op # "delete_rules" /\ cmd.op # "set_enabled"
  <2>1. Planning
    BY <1>1 DEF Planning
  <2>2. rows = {} /\ writes = {} /\ todo \in Seq(Ids)
    BY <2>1 DEF IInv, LoopInv, TodoOK, QuietPlanning
  <2>3. cmd.op \notin BulkOps /\ cmd.op # "delete_rules" /\ cmd.op # "set_enabled"
    BY DEF IInv, OpOK, BulkOps
  <2> QED BY <2>1, <2>2, <2>3
<1>3. Bounds'
  <2>1. faults' = faults
    BY <1>1
  <2>2. moved' \subseteq moved
    BY <1>1
  <2> QED BY <1>1, <2>1, <2>2, BoundsKept, CommandAssumption DEF IInv, TypeOK, Bounds
<1>4. stack' \in AgentPolicies!StackType /\ WritesWhatWasShown' /\ PlanOK'
  BY <1>1 DEF IInv, TypeOK, StackType, WritesWhatWasShown, PlanOK
<1>5. \/ pc' = "resolve" /\ todo' = Sorted(cmd.targets)
  BY SameOrder DEF AgentPolicies!BeginDelete, Report, Row, Guard
<1>6. CASE pc' = "resolve" /\ todo' = Sorted(cmd.targets)
  <2>1. todo' \in Seq(Ids)
    BY <1>1, <1>6, SortedFacts, CommandAssumption DEF IInv, CmdOK
  <2>2. PlansOn
    BY <1>1, <1>2, <2>1, <1>6 DEF PlansOn, Planning, Ended, Wholesale
  <2>3. AgentPoliciesInv'
    BY <1>1, <1>6 DEF IInv, AgentPoliciesInv
  <2> QED BY <1>1, <1>3, <1>4, <2>1, <2>2, <2>3 DEF AgentPoliciesStep, LoopStep
<1> QED BY <1>5, <1>6

\* The step Resolve of an agent policy command.
LEMMA AgentPoliciesResolve ==
    ASSUME IInv, cmd.family = "agent_policies", AgentPolicies!Resolve
    PROVE  AgentPoliciesStep
<1>1. pc = "resolve" /\ todo # <<>> /\ UNCHANGED <<cmd, stack, writes, edits>>
  BY DEF AgentPolicies!Resolve
<1>2. /\ Planning
      /\ rows = {} /\ writes = {} /\ todo \in Seq(Ids)
      /\ Head(todo) \in Ids /\ Tail(todo) \in Seq(Ids)
      /\ cmd.op \notin BulkOps /\ cmd.op # "delete_rules" /\ cmd.op # "set_enabled"
  <2>1. Planning
    BY <1>1 DEF Planning
  <2>2. rows = {} /\ writes = {} /\ todo \in Seq(Ids)
    BY <2>1 DEF IInv, LoopInv, TodoOK, QuietPlanning
  <2>3. Head(todo) \in Ids /\ Tail(todo) \in Seq(Ids)
    BY <1>1, <2>2, TailFacts
  <2>4. cmd.op \notin BulkOps /\ cmd.op # "delete_rules" /\ cmd.op # "set_enabled"
    BY DEF IInv, OpOK, BulkOps
  <2> QED BY <2>1, <2>2, <2>3, <2>4
<1>3. Bounds'
  <2>1. faults' = faults \/ (faults > 0 /\ faults' = faults - 1)
    BY DEF AgentPolicies!Resolve, AgentPolicies!Read, AgentPolicies!Checked
  <2>2. moved' \subseteq moved
    BY DEF AgentPolicies!Resolve, AgentPolicies!Read, AgentPolicies!Checked
  <2> QED BY <1>1, <2>1, <2>2, BoundsKept, CommandAssumption DEF IInv, TypeOK, Bounds
<1>4. stack' \in AgentPolicies!StackType /\ WritesWhatWasShown'
  BY <1>1 DEF IInv, TypeOK, StackType, WritesWhatWasShown
<1>5. \/ /\ pc' = pc /\ rows' = rows /\ todo' = Tail(todo)
         /\ plan' = [plan EXCEPT !.before
              = AgentPolicies!Noted(@, Head(todo), stack.policy[Head(todo)])]
      \/ Fail /\ plan' = plan
  BY DEF AgentPolicies!Resolve, AgentPolicies!Read, AgentPolicies!Checked,
     AgentPolicies!Fail, Fail, AgentPolicies!Goto, Goto, Report, Row, Guard
<1>6. CASE /\ pc' = pc /\ rows' = rows /\ todo' = Tail(todo)
           /\ plan' = [plan EXCEPT !.before
                = AgentPolicies!Noted(@, Head(todo), stack.policy[Head(todo)])]
  <2>1. PlanOK'
    BY <1>1, <1>2, <1>6 DEF IInv, PlanOK, AgentPolicies!Noted
  <2>2. PlansOn
    BY <1>1, <1>2, <1>6 DEF PlansOn, Planning, Ended, Wholesale, Goto, Fail
  <2>3. AgentPoliciesInv'
    BY <1>1, <1>6 DEF IInv, AgentPoliciesInv, Goto, Fail
  <2> QED BY <1>1, <1>3, <1>4, <2>1, <2>2, <2>3 DEF AgentPoliciesStep, LoopStep
<1>7. CASE Fail /\ plan' = plan
  <2>1. PlanOK'
    BY <1>1, <1>7 DEF IInv, PlanOK
  <2>2. PlansOn
    BY <1>1, <1>2, <1>7 DEF PlansOn, Planning, Ended, Wholesale, Goto, Fail
  <2>3. AgentPoliciesInv'
    BY <1>1, <1>7 DEF IInv, AgentPoliciesInv, Goto, Fail
  <2> QED BY <1>1, <1>3, <1>4, <2>1, <2>2, <2>3 DEF AgentPoliciesStep, LoopStep
<1> QED BY <1>5, <1>6, <1>7

\* The step PlanDelete of an agent policy command.
LEMMA AgentPoliciesPlanDelete ==
    ASSUME IInv, cmd.family = "agent_policies", AgentPolicies!PlanDelete
    PROVE  AgentPoliciesStep
<1>1. pc = "resolve" /\ todo = <<>> /\ UNCHANGED <<cmd, stack, moved, writes, faults, edits>>
  BY DEF AgentPolicies!PlanDelete
<1>2. /\ Planning
      /\ rows = {} /\ writes = {} /\ todo \in Seq(Ids)
      /\ cmd.op \notin BulkOps /\ cmd.op # "delete_rules" /\ cmd.op # "set_enabled"
  <2>1. Planning
    BY <1>1 DEF Planning
  <2>2. rows = {} /\ writes = {} /\ todo \in Seq(Ids)
    BY <2>1 DEF IInv, LoopInv, TodoOK, QuietPlanning
  <2>3. cmd.op \notin BulkOps /\ cmd.op # "delete_rules" /\ cmd.op # "set_enabled"
    BY DEF IInv, OpOK, BulkOps
  <2> QED BY <2>1, <2>2, <2>3
<1>3. Bounds'
  <2>1. faults' = faults
    BY <1>1
  <2>2. moved' \subseteq moved
    BY <1>1
  <2> QED BY <1>1, <2>1, <2>2, BoundsKept, CommandAssumption DEF IInv, TypeOK, Bounds
<1>4. stack' \in AgentPolicies!StackType /\ WritesWhatWasShown'
  BY <1>1 DEF IInv, TypeOK, StackType, WritesWhatWasShown
<1>5. \/ Fail /\ plan' = plan
      \/ /\ Guard(plan, Sorted(cmd.targets))
         /\ rows' = rows
  BY SameOrder DEF AgentPolicies!PlanDelete, AgentPolicies!Fail, Fail, AgentPolicies!Goto,
     Goto, Report, Row, AgentPolicies!Guard, Guard
<1>6. CASE Fail /\ plan' = plan
  <2>1. PlanOK'
    BY <1>1, <1>6 DEF IInv, PlanOK
  <2>2. PlansOn
    BY <1>1, <1>2, <1>6 DEF PlansOn, Planning, Ended, Wholesale, Goto, Fail
  <2>3. AgentPoliciesInv'
    BY <1>1, <1>6 DEF IInv, AgentPoliciesInv, Goto, Fail
  <2> QED BY <1>1, <1>3, <1>4, <2>1, <2>2, <2>3 DEF AgentPoliciesStep, LoopStep
<1>7. CASE /\ Guard(plan, Sorted(cmd.targets))
           /\ rows' = rows
  <2>1. cmd.targets \in SUBSET Ids /\ cmd.targets \subseteq Touchable /\ cmd.yes \in BOOLEAN
    BY <1>1, <1>2 DEF IInv, CmdOK, OpOK, Touchable
  <2>2. /\ Guarded /\ plan' = plan /\ pc' \in {"check", "done"}
        /\ pc' = "check" => Range(todo') = cmd.targets
    BY <1>1, <1>2, <2>1, <1>7, SortedGuard, CommandAssumption
  <2>3. PlanOK'
    BY <1>1, <2>1, <2>2 DEF IInv, PlanOK, CmdOK
  <2>4. AgentPoliciesInv'
    BY <1>1, <2>2 DEF IInv, AgentPoliciesInv
  <2> QED BY <1>1, <1>3, <1>4, <2>1, <2>2, <2>3, <2>4 DEF AgentPoliciesStep, LoopStep
<1> QED BY <1>5, <1>6, <1>7

\* The step Delete of an agent policy command.
LEMMA AgentPoliciesDelete ==
    ASSUME IInv, cmd.family = "agent_policies", AgentPolicies!Delete
    PROVE  AgentPoliciesStep
<1> DEFINE w == Write(Head(todo), plan.before[Head(todo)],
             stack.policy[Head(todo)], {Head(todo)})
           u == Unanswered(w)
           new == [stack EXCEPT !.policy[Head(todo)] = AgentPolicies!Absent]
<1>1. pc = "delete" /\ UNCHANGED <<cmd, plan, moved, edits>>
  BY DEF AgentPolicies!Delete
<1>2. /\ Looping
      /\ todo # <<>> /\ todo \in Seq(Ids) /\ Head(todo) \in Ids /\ Head(todo) \in Touchable
           /\ ~Planning /\ ~Ended
      /\ cmd.op \notin BulkOps /\ cmd.op # "delete_rules" /\ cmd.op # "set_enabled"
  <2>1. Looping
    BY <1>1 DEF Looping, Ended, Planning, Wholesale
  <2>2. todo # <<>> /\ todo \in Seq(Ids) /\ Head(todo) \in Ids /\ Head(todo) \in Touchable
          /\ ~Planning /\ ~Ended
    BY <2>1, LoopFacts DEF IInv
  <2>3. cmd.op \notin BulkOps /\ cmd.op # "delete_rules" /\ cmd.op # "set_enabled"
    BY DEF IInv, OpOK, BulkOps
  <2> QED BY <2>1, <2>2, <2>3
<1>3. Bounds'
  <2>1. faults' = faults \/ (faults > 0 /\ faults' = faults - 1)
    BY DEF AgentPolicies!Delete, AgentPolicies!Mutate, AgentPolicies!MutateAll
  <2>2. moved' \subseteq moved
    BY <1>1
  <2> QED BY <1>1, <2>1, <2>2, BoundsKept, CommandAssumption DEF IInv, TypeOK, Bounds
<1>4. PlanOK'
  BY <1>1 DEF IInv, PlanOK
<1>5. \/ /\ Report(Head(todo), "failed", FALSE)
         /\ stack' = stack /\ writes' = writes
      \/ /\ Report(Head(todo), "failed", FALSE)
         /\ stack' = new /\ writes' = writes \cup {u}
      \/ /\ Report(Head(todo), "deleted", TRUE)
         /\ stack' = new /\ writes' = writes \cup {w}
      \/ /\ pc' = pc /\ todo' = todo /\ rows' = rows
         /\ stack' = new /\ writes' = writes \cup {u}
  BY DEF AgentPolicies!Delete, AgentPolicies!Mutate, AgentPolicies!MutateAll,
     AgentPolicies!Report, Report, AgentPolicies!Row, Row, AgentPolicies!runVars, runVars,
     Guard, AgentPolicies!Write, Write, AgentPolicies!Unanswered, Unanswered
<1>6. /\ w.id = Head(todo) /\ w.answered = TRUE /\ u.id = Head(todo) /\ u.answered = FALSE
      /\ w.asShown = TRUE \/ Unanswers(Head(todo))
  <2>1. (stack.policy[Head(todo)]) = (plan.before[Head(todo)])
          \/ moved \cap {Head(todo)} # {} \/ Unanswers(Head(todo))
    BY <1>1 DEF IInv, AgentPoliciesInv, Excused
  <2> QED BY <2>1 DEF Write, Unanswered
<1>7. TRUE => new \in AgentPolicies!StackType
  <2>1. stack \in AgentPolicies!StackType
    BY DEF IInv, TypeOK, StackType
  <2> QED BY <1>2, <2>1 DEF AgentPolicies!StackType, AgentPolicies!Absent
<1> HIDE DEF w, u, new
<1>8. CASE /\ Report(Head(todo), "failed", FALSE)
           /\ stack' = stack /\ writes' = writes
  <2>1. stack' \in AgentPolicies!StackType
    BY <1>1, <1>8 DEF IInv, TypeOK, StackType
  <2>2. WritesWhatWasShown'
    BY <1>1, <1>8 DEF IInv, WritesWhatWasShown
  <2>3. Reported
    BY <1>1, <1>2, <1>8, RowWithoutWrite DEF Results, AfterWrite
  <2>4. AgentPoliciesInv'
    BY <1>1, <1>6, <1>8 DEF IInv, AgentPoliciesInv, Excused, Unanswers, Report
  <2> QED BY <1>1, <1>3, <1>4, <2>1, <2>2, <2>3, <2>4 DEF AgentPoliciesStep, LoopStep
<1>9. CASE /\ Report(Head(todo), "failed", FALSE)
           /\ stack' = new /\ writes' = writes \cup {u}
  <2>1. stack' \in AgentPolicies!StackType
    BY <1>7, <1>9
  <2>2. WritesWhatWasShown'
    BY <1>6, <1>9, ShownWrite DEF IInv
  <2>3. Reported
    BY <1>1, <1>2, <1>6, <1>9, RowOfLostWrite DEF Results, AfterWrite
  <2>4. AgentPoliciesInv'
    BY <1>1, <1>6, <1>9 DEF IInv, AgentPoliciesInv, Excused, Unanswers, Report
  <2> QED BY <1>1, <1>3, <1>4, <2>1, <2>2, <2>3, <2>4 DEF AgentPoliciesStep, LoopStep
<1>10. CASE /\ Report(Head(todo), "deleted", TRUE)
            /\ stack' = new /\ writes' = writes \cup {w}
  <2>1. stack' \in AgentPolicies!StackType
    BY <1>7, <1>10
  <2>2. WritesWhatWasShown'
    BY <1>6, <1>10, ShownWrite DEF IInv
  <2>3. Reported
    BY <1>1, <1>2, <1>6, <1>10, RowOfWrite DEF Results, AfterWrite
  <2>4. AgentPoliciesInv'
    BY <1>1, <1>6, <1>10 DEF IInv, AgentPoliciesInv, Excused, Unanswers, Report
  <2> QED BY <1>1, <1>3, <1>4, <2>1, <2>2, <2>3, <2>4 DEF AgentPoliciesStep, LoopStep
<1>11. CASE /\ pc' = pc /\ todo' = todo /\ rows' = rows
            /\ stack' = new /\ writes' = writes \cup {u}
  <2>1. stack' \in AgentPolicies!StackType
    BY <1>7, <1>11
  <2>2. WritesWhatWasShown'
    BY <1>6, <1>11, ShownWrite DEF IInv
  <2>3. SendsAgain
    BY <1>1, <1>2, <1>6, <1>11 DEF SendsAgain, runVars, AfterWrite
  <2>4. AgentPoliciesInv'
    BY <1>1, <1>6, <1>11 DEF IInv, AgentPoliciesInv, Excused, Unanswers, Report
  <2> QED BY <1>1, <1>3, <1>4, <2>1, <2>2, <2>3, <2>4 DEF AgentPoliciesStep, LoopStep
<1> QED BY <1>5, <1>8, <1>9, <1>10, <1>11

\* Another client at work during an agent policy command.
LEMMA AgentPoliciesOthersEdit ==
    ASSUME IInv, cmd.family = "agent_policies", AgentPolicies!OthersEdit
    PROVE  AgentPoliciesStep
<1>1. ~Ended /\ edits > 0 /\ edits' = edits - 1
        /\ UNCHANGED <<cmd, pc, todo, plan, writes, rows, faults>>
  BY DEF AgentPolicies!OthersEdit, AgentPolicies!Edit, AgentPolicies!Ended, Ended
<1>2. \/ \E o \in Ids, v \in {AgentPolicies!Absent} \cup [spec : {1}, busy : BOOLEAN] :
            stack' = [stack EXCEPT !.policy[o] = v] /\ moved' = moved \cup {o}
      \/ \E o \in Ids :  stack' = [stack EXCEPT !.taken = @ \cup {o}]
           /\ moved' = moved \cup {}
      \/ stack' = [stack EXCEPT !.package = ~@] /\ moved' = moved \cup {0}
  BY DEF AgentPolicies!OthersEdit, AgentPolicies!Edit, AgentPolicies!Package
<1>3. Watches
  BY <1>1 DEF Watches
<1>4. WritesWhatWasShown' /\ PlanOK'
  BY <1>1 DEF IInv, WritesWhatWasShown, PlanOK
<1>5. stack \in AgentPolicies!StackType /\ Bounds /\ AgentPoliciesInv
  BY DEF IInv, TypeOK, StackType, Bounds
<1>6. CASE \E o \in Ids, v \in {AgentPolicies!Absent} \cup [spec : {1}, busy : BOOLEAN] :
              stack' = [stack EXCEPT !.policy[o] = v] /\ moved' = moved \cup {o}
  <2>1. PICK o \in Ids, v \in {AgentPolicies!Absent} \cup [spec : {1}, busy : BOOLEAN] :
                stack' = [stack EXCEPT !.policy[o] = v] /\ moved' = moved \cup {o}
    BY <1>6
  <2>2. stack' \in AgentPolicies!StackType
    BY <1>5, <2>1 DEF AgentPolicies!StackType, AgentPolicies!Policies, AgentPolicies!Absent,
       AgentPolicies!Desired
  <2>3. Bounds'
    BY <1>1, <1>5, <2>1, CommandAssumption DEF Bounds, CommandAssumption,
       AgentPolicies!Package
  <2>4. AgentPoliciesInv'
    BY <1>1, <1>5, <2>1 DEF AgentPoliciesInv, Excused, Unanswers, AgentPolicies!CanInstall,
       AgentPolicies!StackType, AgentPolicies!Package
  <2> QED BY <1>1, <1>3, <1>4, <2>2, <2>3, <2>4 DEF AgentPoliciesStep, LoopStep
<1>7. CASE \E o \in Ids :  stack' = [stack EXCEPT !.taken = @ \cup {o}]
             /\ moved' = moved \cup {}
  <2>1. PICK o \in Ids :  stack' = [stack EXCEPT !.taken = @ \cup {o}]
               /\ moved' = moved \cup {}
    BY <1>7
  <2>2. stack' \in AgentPolicies!StackType
    BY <1>5, <2>1 DEF AgentPolicies!StackType, AgentPolicies!Policies, AgentPolicies!Absent,
       AgentPolicies!Desired
  <2>3. Bounds'
    BY <1>1, <1>5, <2>1, CommandAssumption DEF Bounds, CommandAssumption,
       AgentPolicies!Package
  <2>4. AgentPoliciesInv'
    BY <1>1, <1>5, <2>1 DEF AgentPoliciesInv, Excused, Unanswers, AgentPolicies!CanInstall,
       AgentPolicies!StackType, AgentPolicies!Package
  <2> QED BY <1>1, <1>3, <1>4, <2>2, <2>3, <2>4 DEF AgentPoliciesStep, LoopStep
<1>8. CASE stack' = [stack EXCEPT !.package = ~@] /\ moved' = moved \cup {0}
  <2>1. stack' = [stack EXCEPT !.package = ~@] /\ moved' = moved \cup {0}
    BY <1>8
  <2>2. stack' \in AgentPolicies!StackType
    BY <1>5, <2>1 DEF AgentPolicies!StackType, AgentPolicies!Policies, AgentPolicies!Absent,
       AgentPolicies!Desired
  <2>3. Bounds'
    BY <1>1, <1>5, <2>1, CommandAssumption DEF Bounds, CommandAssumption,
       AgentPolicies!Package
  <2>4. AgentPoliciesInv'
    BY <1>1, <1>5, <2>1 DEF AgentPoliciesInv, Excused, Unanswers, AgentPolicies!CanInstall,
       AgentPolicies!StackType, AgentPolicies!Package
  <2> QED BY <1>1, <1>3, <1>4, <2>2, <2>3, <2>4 DEF AgentPoliciesStep, LoopStep
<1> QED BY <1>2, <1>6, <1>7, <1>8

-----------------------------------------------------------------------------
(* What a read has seen.                                                      *)

\* A sequence in order has nothing twice, and its last element is its greatest.
LEMMA OrderFacts ==
    ASSUME NEW S \in SUBSET Nat, NEW s \in Seq(S), InOrder(s)
    PROVE  /\ IsInjective(s) /\ LastOf(s) \in Nat /\ Range(s) \subseteq S
           /\ Range(s) = {s[i] : i \in 1..Len(s)}
           /\ s # <<>> => LastOf(s) = s[Len(s)] /\ Len(s) \in 1..Len(s)
<1>1. /\ DOMAIN s = 1..Len(s) /\ Len(s) \in Nat
      /\ \A i \in 1..Len(s) : s[i] \in S /\ s[i] \in Nat
      /\ s # <<>> => Len(s) \in 1..Len(s)
  <2>1. DOMAIN s = 1..Len(s) /\ Len(s) \in Nat /\ \A i \in 1..Len(s) : s[i] \in S
    OBVIOUS
  <2>2. s # <<>> => Len(s) \in 1..Len(s)
    OBVIOUS
  <2> QED BY <2>1, <2>2
<1>2. \A i, j \in 1..Len(s) : s[i] = s[j] => i = j
  <2> SUFFICES ASSUME NEW i \in 1..Len(s), NEW j \in 1..Len(s), i # j PROVE s[i] # s[j]
    OBVIOUS
  <2>1. i < j \/ j < i
    BY <1>1
  <2> QED BY <1>1, <2>1 DEF InOrder
<1>3. IsInjective(s)
  BY <1>1, <1>2 DEF IsInjective
<1>4. Range(s) \subseteq S /\ Range(s) = {s[i] : i \in 1..Len(s)}
  BY <1>1 DEF Range
<1>5. LastOf(s) \in Nat /\ (s # <<>> => LastOf(s) = s[Len(s)])
  BY <1>1 DEF LastOf
<1> QED BY <1>1, <1>3, <1>4, <1>5

\* What a sequence and the next one hold together.
LEMMA JoinFacts ==
    ASSUME NEW S, NEW s \in Seq(S), NEW t \in Seq(S)
    PROVE  /\ s \o t \in Seq(S) /\ Len(s \o t) = Len(s) + Len(t)
           /\ Range(s \o t) = Range(s) \cup Range(t)
           /\ \A i \in 1..Len(s) : (s \o t)[i] = s[i]
           /\ \A i \in 1..Len(t) : (s \o t)[Len(s) + i] = t[i]
<1>1. /\ s \o t \in Seq(S) /\ Len(s \o t) = Len(s) + Len(t)
      /\ Len(s) \in Nat /\ Len(t) \in Nat
      /\ DOMAIN s = 1..Len(s) /\ DOMAIN t = 1..Len(t) /\ DOMAIN (s \o t) = 1..(Len(s) + Len(t))
  OBVIOUS
<1>2. /\ \A i \in 1..Len(s) : (s \o t)[i] = s[i]
      /\ \A i \in 1..Len(t) : (s \o t)[Len(s) + i] = t[i]
  BY <1>1
<1>3. \A k \in 1..(Len(s) + Len(t)) : k \in 1..Len(s) \/ \E i \in 1..Len(t) : k = Len(s) + i
  <2> SUFFICES ASSUME NEW k \in 1..(Len(s) + Len(t)), k \notin 1..Len(s)
               PROVE  \E i \in 1..Len(t) : k = Len(s) + i
    OBVIOUS
  <2>1. k - Len(s) \in 1..Len(t) /\ k = Len(s) + (k - Len(s))
    BY <1>1
  <2> QED BY <2>1
<1>4. /\ \A i \in 1..Len(s) : i \in 1..(Len(s) + Len(t))
      /\ \A i \in 1..Len(t) : Len(s) + i \in 1..(Len(s) + Len(t))
  BY <1>1
<1>5. Range(s \o t) \subseteq Range(s) \cup Range(t)
  <2> SUFFICES ASSUME NEW k \in 1..(Len(s) + Len(t))
               PROVE  (s \o t)[k] \in Range(s) \cup Range(t)
    BY <1>1 DEF Range
  <2>1. CASE k \in 1..Len(s)
    BY <1>1, <1>2, <2>1 DEF Range
  <2>2. CASE \E i \in 1..Len(t) : k = Len(s) + i
    BY <1>1, <1>2, <2>2 DEF Range
  <2> QED BY <1>3, <2>1, <2>2
<1>6. Range(s) \cup Range(t) \subseteq Range(s \o t)
  <2> DEFINE u == s \o t
  <2>1. /\ DOMAIN u = 1..(Len(s) + Len(t)) /\ \A i \in 1..Len(s) : u[i] = s[i]
        /\ \A i \in 1..Len(t) : u[Len(s) + i] = t[i]
    BY <1>1, <1>2
  <2> HIDE DEF u
  <2>2. \A i \in 1..Len(s) : s[i] \in Range(u)
    BY <1>4, <2>1 DEF Range
  <2>3. \A i \in 1..Len(t) : t[i] \in Range(u)
    BY <1>4, <2>1 DEF Range
  <2>4. Range(s) \cup Range(t) \subseteq Range(u)
    BY <1>1, <2>2, <2>3 DEF Range
  <2> QED BY <2>4 DEF u
<1> QED BY <1>1, <1>2, <1>5, <1>6

\* Nothing comes twice in two sequences that share nothing.
LEMMA JoinInjective ==
    ASSUME NEW S, NEW s \in Seq(S), NEW t \in Seq(S), IsInjective(s), IsInjective(t),
           Range(s) \cap Range(t) = {}
    PROVE  IsInjective(s \o t)
<1> DEFINE u == s \o t
<1>1. /\ Len(s) \in Nat /\ Len(t) \in Nat /\ DOMAIN s = 1..Len(s) /\ DOMAIN t = 1..Len(t)
      /\ DOMAIN u = 1..(Len(s) + Len(t))
  OBVIOUS
<1>2. /\ \A i \in 1..Len(s) : u[i] = s[i]
      /\ \A i \in 1..Len(t) : u[Len(s) + i] = t[i]
  BY JoinFacts
<1> HIDE DEF u
<1>3. /\ \A i \in 1..Len(s) : u[i] \in Range(s)
      /\ \A i \in 1..Len(t) : u[Len(s) + i] \in Range(t)
  BY <1>1, <1>2 DEF Range
<1>4. ASSUME NEW k \in DOMAIN u, k \notin 1..Len(s)
      PROVE  k - Len(s) \in 1..Len(t) /\ u[k] = t[k - Len(s)] /\ u[k] \in Range(t)
  <2>1. k - Len(s) \in 1..Len(t) /\ Len(s) + (k - Len(s)) = k
    BY <1>1, <1>4
  <2> QED BY <1>2, <1>3, <2>1
<1>5. ASSUME NEW i \in DOMAIN u, NEW j \in DOMAIN u, u[i] = u[j] PROVE i = j
  <2>1. CASE i \in 1..Len(s) /\ j \in 1..Len(s)
    BY <1>1, <1>2, <1>5, <2>1 DEF IsInjective
  <2>2. CASE i \in 1..Len(s) /\ j \notin 1..Len(s)
    BY <1>3, <1>4, <1>5, <2>2
  <2>3. CASE i \notin 1..Len(s) /\ j \in 1..Len(s)
    BY <1>3, <1>4, <1>5, <2>3
  <2>4. CASE i \notin 1..Len(s) /\ j \notin 1..Len(s)
    <3>1. /\ i - Len(s) \in DOMAIN t /\ j - Len(s) \in DOMAIN t
          /\ t[i - Len(s)] = t[j - Len(s)]
      BY <1>1, <1>4, <1>5, <2>4
    <3>2. i - Len(s) = j - Len(s)
      BY <3>1 DEF IsInjective
    <3> QED BY <1>1, <3>2
  <2> QED BY <2>1, <2>2, <2>3, <2>4
<1>6. IsInjective(u)
  BY <1>5 DEF IsInjective
<1> QED BY <1>6 DEF u

\* A page behind the last element goes on in order.
LEMMA JoinInOrder ==
    ASSUME NEW S \in SUBSET Nat, NEW s \in Seq(S), NEW t \in Seq(S), InOrder(s), InOrder(t),
           \A e \in Range(t) : e > LastOf(s)
    PROVE  /\ InOrder(s \o t)
           /\ LastOf(s \o t) = IF t = <<>> THEN LastOf(s) ELSE LastOf(t)
<1> DEFINE u == s \o t
<1>1. /\ u \in Seq(S) /\ Len(s) \in Nat /\ Len(t) \in Nat /\ Len(u) = Len(s) + Len(t)
      /\ DOMAIN t = 1..Len(t)
      /\ \A i \in 1..Len(s) : s[i] \in Nat
      /\ \A i \in 1..Len(t) : t[i] \in Nat
  <2>1. /\ u \in Seq(S) /\ Len(s) \in Nat /\ Len(t) \in Nat /\ Len(u) = Len(s) + Len(t)
        /\ DOMAIN t = 1..Len(t)
    BY JoinFacts
  <2>2. (\A i \in 1..Len(s) : s[i] \in S) /\ \A i \in 1..Len(t) : t[i] \in S
    OBVIOUS
  <2> QED BY <2>1, <2>2
<1>2. /\ \A i \in 1..Len(s) : u[i] = s[i]
      /\ \A i \in 1..Len(t) : u[Len(s) + i] = t[i]
  BY JoinFacts
<1> HIDE DEF u
<1>3. \A i \in 1..Len(s) : s[i] <= LastOf(s)
  <2> SUFFICES ASSUME NEW i \in 1..Len(s) PROVE s[i] <= LastOf(s)
    OBVIOUS
  <2>1. s # <<>> /\ Len(s) \in 1..Len(s) /\ (i < Len(s) \/ i = Len(s))
    BY <1>1
  <2>2. LastOf(s) = s[Len(s)]
    BY <2>1 DEF LastOf
  <2>3. i < Len(s) => s[i] < s[Len(s)]
    BY <2>1 DEF InOrder
  <2> QED BY <1>1, <2>1, <2>2, <2>3
<1>4. \A i \in 1..Len(t) : t[i] > LastOf(s)
  BY <1>1 DEF Range
<1>5. LastOf(s) \in Nat
  BY OrderFacts
<1>6. ASSUME NEW k \in 1..Len(u), k \notin 1..Len(s)
      PROVE  k - Len(s) \in 1..Len(t) /\ u[k] = t[k - Len(s)]
  <2>1. k - Len(s) \in 1..Len(t) /\ Len(s) + (k - Len(s)) = k
    BY <1>1, <1>6
  <2> QED BY <1>2, <2>1
<1>7. ASSUME NEW i \in 1..Len(u), NEW j \in 1..Len(u), i < j PROVE u[i] < u[j]
  <2>1. CASE j \in 1..Len(s)
    <3>1. i \in 1..Len(s)
      BY <1>1, <1>7, <2>1
    <3> QED BY <1>2, <1>7, <2>1, <3>1 DEF InOrder
  <2>2. CASE i \in 1..Len(s) /\ j \notin 1..Len(s)
    <3>1. u[i] = s[i] /\ s[i] <= LastOf(s) /\ u[j] > LastOf(s) /\ u[j] \in Nat /\ s[i] \in Nat
      BY <1>1, <1>2, <1>3, <1>4, <1>6, <2>2
    <3> QED BY <1>5, <3>1
  <2>3. CASE i \notin 1..Len(s) /\ j \notin 1..Len(s)
    <3>1. i - Len(s) \in 1..Len(t) /\ j - Len(s) \in 1..Len(t)
            /\ u[i] = t[i - Len(s)] /\ u[j] = t[j - Len(s)]
      BY <1>6, <2>3
    <3>2. i - Len(s) < j - Len(s)
      BY <1>1, <1>7
    <3> QED BY <3>1, <3>2 DEF InOrder
  <2> QED BY <1>1, <1>7, <2>1, <2>2, <2>3
<1>8. InOrder(u)
  BY <1>7 DEF InOrder
<1>9. CASE t = <<>>
  <2>1. u = s
    BY <1>9 DEF u
  <2> QED BY <1>8, <1>9, <2>1 DEF u
<1>10. CASE t # <<>>
  <2>1. Len(t) \in 1..Len(t) /\ Len(t) > 0
    BY <1>1, <1>10
  <2>2. u # <<>> /\ u[Len(u)] = t[Len(t)]
    BY <1>1, <1>2, <2>1
  <2>3. LastOf(u) = LastOf(t)
    BY <1>10, <2>2 DEF LastOf
  <2> QED BY <1>8, <1>10, <2>3 DEF u
<1> QED BY <1>9, <1>10

\* What the first elements of a sequence in order are.
LEMMA PrefixFacts ==
    ASSUME NEW S \in SUBSET (Nat \ {0}), NEW s \in Seq(S), InOrder(s),
           NEW n \in 0..Len(s)
    PROVE  LET p == SubSeq(s, 1, n)
           IN  /\ p \in Seq(S) /\ Len(p) = n /\ InOrder(p) /\ Range(p) \subseteq Range(s)
               /\ n = Len(s) => p = s
               /\ UpTo(Range(s), LastOf(p)) \subseteq Range(p)
<1> DEFINE p == SubSeq(s, 1, n)
<1>1. /\ Len(s) \in Nat /\ DOMAIN s = 1..Len(s) /\ \A i \in 1..Len(s) : s[i] \in S
  OBVIOUS
<1>2. n \in Nat /\ n <= Len(s) /\ n \in Int /\ \A i \in 1..n : i \in 1..Len(s) /\ s[i] \in S
  BY <1>1
<1>3. p \in Seq(S) /\ Len(p) = n /\ \A i \in 1..n : p[i] = s[i]
  <2>1. /\ p \in Seq(S)
        /\ Len(p) = IF 1 <= n THEN n - 1 + 1 ELSE 0
        /\ \A i \in 1..(n - 1 + 1) : p[i] = s[1 + i - 1]
    BY <1>2, SubSeqProperties
  <2>2. n - 1 + 1 = n /\ (~(1 <= n) => n = 0) /\ \A i \in 1..n : 1 + i - 1 = i
    BY <1>2
  <2> HIDE DEF p
  <2> QED BY <2>1, <2>2
<1>4. n = Len(s) => p = s
  BY SubSeqFull
<1> HIDE DEF p
<1>5. DOMAIN p = 1..n
  BY <1>3
<1>6. InOrder(p)
  BY <1>2, <1>3 DEF InOrder
<1>7. Range(p) \subseteq Range(s)
  BY <1>1, <1>2, <1>3, <1>5 DEF Range
<1>8. ASSUME NEW e \in UpTo(Range(s), LastOf(p)) PROVE e \in Range(p)
  <2>1. PICK k \in 1..Len(s) : e = s[k]
    BY <1>1 DEF UpTo, Range
  <2>2. e <= LastOf(p) /\ e \in Nat /\ e # 0
    BY <1>1, <2>1 DEF UpTo
  <2>3. CASE n = 0
    <3>1. p = <<>>
      BY <1>3, <2>3, EmptySeq
    <3>2. LastOf(p) = 0
      BY <3>1 DEF LastOf
    <3> QED BY <2>2, <3>2
  <2>4. CASE n # 0
    <3>1. n \in 1..n /\ n \in 1..Len(s) /\ p # <<>>
      BY <1>2, <1>3, <2>4
    <3>2. LastOf(p) = s[n]
      BY <1>3, <3>1 DEF LastOf
    <3>3. s[n] \in Nat
      BY <1>1, <3>1
    <3>4. ~(n < k)
      BY <2>1, <2>2, <3>1, <3>2, <3>3 DEF InOrder
    <3>5. k \in 1..n
      BY <1>1, <1>2, <3>4
    <3> QED BY <1>3, <1>5, <2>1, <3>5 DEF Range
  <2> QED BY <1>2, <2>3, <2>4
<1> QED BY <1>3, <1>4, <1>6, <1>7, <1>8 DEF p

\* The documents are numbers, and the components order them as this module does.
LEMMA DocsFacts ==
    ASSUME NEW S \in SUBSET PagedReads!Docs
    PROVE  /\ S \in SUBSET (Nat \ {0}) /\ IsFiniteSet(S) /\ Cardinality(S) \in Nat
           /\ PagedReads!Sorted(S) = Sorted(S)
           /\ Sorted(S) \in Seq(S) /\ Len(Sorted(S)) = Cardinality(S)
           /\ Range(Sorted(S)) = S /\ IsInjective(Sorted(S)) /\ InOrder(Sorted(S))
<1>1. S \in SUBSET (Nat \ {0}) /\ S \in SUBSET Nat
  BY DEF PagedReads!Docs
<1>2. IsFiniteSet(S)
  <2>1. PICK n \in Int : n = 4
    OBVIOUS
  <2>2. IsFiniteSet(1..n)
    BY FS_Interval
  <2>3. S \in SUBSET (1..n)
    BY <2>1 DEF PagedReads!Docs
  <2> QED BY <2>2, <2>3, FS_Subset
<1>3. PagedReads!Sorted(S) = Sorted(S)
  BY Zenon DEF PagedReads!Sorted, Sorted, PagedReads!Cardinality, Cardinality
<1> QED BY <1>1, <1>2, <1>3, SortedInOrder

\* A page behind document d has the next documents; a short one has all of them.
LEMMA BehindFacts ==
    ASSUME NEW S \in SUBSET PagedReads!Docs, NEW d \in Nat
    PROVE  LET p == PagedReads!Behind(S, d)
               T == {e \in S : e > d}
           IN  /\ p \in Seq(S) /\ InOrder(p) /\ Range(p) \subseteq T
               /\ UpTo(T, LastOf(p)) \subseteq Range(p)
               /\ Len(p) < PagedReads!PageSize => Range(p) = T
<1> DEFINE T == {e \in S : e > d}
           s == Sorted(T)
           n == IF Len(s) < PagedReads!PageSize THEN Len(s) ELSE PagedReads!PageSize
           p == SubSeq(s, 1, n)
<1>1. T \in SUBSET PagedReads!Docs /\ T \in SUBSET S
  OBVIOUS
<1> HIDE DEF T
<1>2. /\ T \in SUBSET (Nat \ {0}) /\ PagedReads!Sorted(T) = s /\ s \in Seq(T)
      /\ Range(s) = T /\ InOrder(s) /\ Len(s) \in Nat
  BY <1>1, DocsFacts
<1>3. p = PagedReads!Behind(S, d)
  BY <1>2 DEF PagedReads!Behind, PagedReads!FirstOf, T
<1> HIDE DEF s
<1>4. n \in 0..Len(s) /\ (n < PagedReads!PageSize => n = Len(s))
  BY <1>2 DEF PagedReads!PageSize
<1> HIDE DEF n
<1>5. /\ p \in Seq(T) /\ Len(p) = n /\ InOrder(p) /\ Range(p) \subseteq Range(s)
      /\ n = Len(s) => p = s
      /\ UpTo(Range(s), LastOf(p)) \subseteq Range(p)
  BY <1>2, <1>4, PrefixFacts
<1> HIDE DEF p
<1>6. p \in Seq(S)
  BY <1>1, <1>5, SeqMonotonic
<1>7. Len(p) < PagedReads!PageSize => Range(p) = T
  BY <1>2, <1>4, <1>5
<1>8. Range(p) \subseteq T /\ UpTo(T, LastOf(p)) \subseteq Range(p)
  BY <1>2, <1>5
<1> QED BY <1>3, <1>5, <1>6, <1>7, <1>8 DEF T

\* The next page behind the last document: of what is among the documents, nothing
\* before the end of the page is passed over.
LEMMA BehindLast ==
    ASSUME NEW S \in SUBSET PagedReads!Docs, NEW X \in SUBSET S,
           NEW out \in Seq(PagedReads!Docs), InOrder(out),
           UpTo(X, LastOf(out)) \subseteq Range(out)
    PROVE  LET p == PagedReads!Behind(S, LastOf(out))
               u == out \o p
           IN  /\ u \in Seq(PagedReads!Docs) /\ InOrder(u)
               /\ UpTo(X, LastOf(u)) \subseteq Range(u)
               /\ Len(p) < PagedReads!PageSize => X \subseteq Range(u)
<1> DEFINE p == PagedReads!Behind(S, LastOf(out))
           T == {e \in S : e > LastOf(out)}
           u == out \o p
<1>1. PagedReads!Docs \in SUBSET Nat /\ LastOf(out) \in Nat
  <2>1. PagedReads!Docs \in SUBSET Nat
    BY DEF PagedReads!Docs
  <2> QED BY <2>1, OrderFacts
<1>2. /\ p \in Seq(S) /\ InOrder(p) /\ Range(p) \subseteq T
      /\ UpTo(T, LastOf(p)) \subseteq Range(p)
      /\ Len(p) < PagedReads!PageSize => Range(p) = T
  BY <1>1, BehindFacts
<1> HIDE DEF p
<1>3. p \in Seq(PagedReads!Docs)
  BY <1>2, SeqMonotonic
<1>4. \A e \in Range(p) : e > LastOf(out)
  BY <1>2
<1>5. /\ u \in Seq(PagedReads!Docs) /\ Range(u) = Range(out) \cup Range(p) /\ InOrder(u)
      /\ LastOf(u) = IF p = <<>> THEN LastOf(out) ELSE LastOf(p)
  BY <1>1, <1>2, <1>3, <1>4, JoinFacts, JoinInOrder
<1> HIDE DEF u
<1>6. \A e \in X : e \in T \/ e \in Range(out)
  <2>1. \A e \in X : e \in Nat /\ e \in S /\ (e <= LastOf(out) => e \in Range(out))
    BY <1>1 DEF UpTo
  <2> QED BY <1>1, <2>1
<1>7. UpTo(X, LastOf(u)) \subseteq Range(u)
  <2> SUFFICES ASSUME NEW e \in X, e <= LastOf(u) PROVE e \in Range(u)
    BY DEF UpTo
  <2>1. CASE p = <<>>
    BY <1>5, <2>1 DEF UpTo
  <2>2. CASE p # <<>>
    BY <1>2, <1>5, <1>6, <2>2 DEF UpTo
  <2> QED BY <2>1, <2>2
<1>8. Len(p) < PagedReads!PageSize => X \subseteq Range(u)
  BY <1>2, <1>5, <1>6
<1> QED BY <1>5, <1>7, <1>8 DEF p, u

\* A page by its number.
LEMMA OffsetFacts ==
    ASSUME NEW S \in SUBSET PagedReads!Docs, NEW k \in Nat \ {0}
    PROVE  LET lo == (k - 1) * PagedReads!PageSize
               hi == IF Len(Sorted(S)) < k * PagedReads!PageSize THEN Len(Sorted(S))
                     ELSE k * PagedReads!PageSize
               p  == PagedReads!Offset(S, k)
           IN  /\ p \in Seq(S) /\ p = SubSeq(Sorted(S), lo + 1, hi)
               /\ lo \in Nat /\ hi \in Nat /\ hi <= Len(Sorted(S))
               /\ Len(p) = IF lo < hi THEN hi - lo ELSE 0
               /\ \A i \in 1..(hi - lo) : p[i] = Sorted(S)[lo + i]
<1> DEFINE s  == Sorted(S)
           lo == (k - 1) * PagedReads!PageSize
           hi == IF Len(s) < k * PagedReads!PageSize THEN Len(s) ELSE k * PagedReads!PageSize
           p  == SubSeq(s, lo + 1, hi)
<1>1. s \in Seq(S) /\ PagedReads!Sorted(S) = s
  BY DocsFacts
<1>2. p = PagedReads!Offset(S, k)
  BY <1>1 DEF PagedReads!Offset
<1> HIDE DEF s
<1>3. Len(s) \in Nat /\ \A i \in 1..Len(s) : s[i] \in S
  BY <1>1
<1>4. lo \in Nat /\ hi \in Nat /\ hi <= Len(s)
  BY <1>3 DEF PagedReads!PageSize
<1> HIDE DEF lo, hi
<1>5. \A i \in (lo + 1)..hi : s[i] \in S
  BY <1>3, <1>4
<1>6. /\ p \in Seq(S)
      /\ Len(p) = IF lo + 1 <= hi THEN hi - (lo + 1) + 1 ELSE 0
      /\ \A i \in 1..(hi - (lo + 1) + 1) : p[i] = s[lo + 1 + i - 1]
  <2>1. lo + 1 \in Int /\ hi \in Int
    BY <1>4
  <2> QED BY <1>5, <2>1, SubSeqProperties
<1>7. /\ hi - (lo + 1) + 1 = hi - lo /\ (lo + 1 <= hi <=> lo < hi)
      /\ \A i \in 1..(hi - lo) : lo + 1 + i - 1 = lo + i
  BY <1>4
<1> HIDE DEF p
<1>8. \A i \in 1..(hi - lo) : p[i] = s[lo + i]
  BY <1>6, <1>7
<1>9. Len(p) = IF lo < hi THEN hi - lo ELSE 0
  BY <1>6, <1>7
<1> QED BY <1>2, <1>4, <1>6, <1>8, <1>9 DEF s, lo, hi, p

\* The page behind the first pages of a list, and these: the pages so far, and the whole
\* list if there are as many.
LEMMA OffsetJoin ==
    ASSUME NEW S \in SUBSET PagedReads!Docs, NEW k \in Nat \ {0},
           (k - 1) * PagedReads!PageSize <= Cardinality(S)
    PROVE  LET out == SubSeq(Sorted(S), 1, (k - 1) * PagedReads!PageSize)
               p   == PagedReads!Offset(S, k)
               u   == out \o p
           IN  /\ u \in Seq(S)
               /\ Len(p) = PagedReads!PageSize =>
                    /\ Len(u) = k * PagedReads!PageSize
                    /\ u = SubSeq(Sorted(S), 1, k * PagedReads!PageSize)
               /\ Len(u) = Cardinality(S) => Range(u) = S
<1> DEFINE s   == Sorted(S)
           lo  == (k - 1) * PagedReads!PageSize
           hi  == IF Len(s) < k * PagedReads!PageSize THEN Len(s) ELSE k * PagedReads!PageSize
           out == SubSeq(s, 1, lo)
           p   == PagedReads!Offset(S, k)
           u   == out \o p
<1>1. /\ s \in Seq(S) /\ Range(s) = S /\ InOrder(s) /\ S \in SUBSET (Nat \ {0})
      /\ Len(s) = Cardinality(S) /\ Len(s) \in Nat
  BY DocsFacts
<1>2. /\ p \in Seq(S) /\ Len(p) = IF lo < hi THEN hi - lo ELSE 0
      /\ \A i \in 1..(hi - lo) : p[i] = s[lo + i]
  BY OffsetFacts
<1>3. lo \in 0..Len(s) /\ hi \in 0..Len(s) /\ lo <= hi
        /\ (hi - lo = PagedReads!PageSize => hi = k * PagedReads!PageSize)
  BY <1>1 DEF PagedReads!PageSize
<1> HIDE DEF s, p, lo, hi
<1>4. out \in Seq(S) /\ Len(out) = lo /\ \A i \in 1..lo : out[i] = s[i]
  <2>1. \A i \in 1..lo : s[i] \in S
    BY <1>1, <1>3
  <2>2. lo \in Int /\ lo \in Nat
    BY <1>1, <1>3
  <2>3. /\ out \in Seq(S) /\ Len(out) = IF 1 <= lo THEN lo - 1 + 1 ELSE 0
        /\ \A i \in 1..(lo - 1 + 1) : out[i] = s[1 + i - 1]
    BY <2>1, <2>2, SubSeqProperties
  <2>4. lo - 1 + 1 = lo /\ (~(1 <= lo) => lo = 0) /\ \A i \in 1..lo : 1 + i - 1 = i
    BY <2>2
  <2> HIDE DEF out
  <2> QED BY <2>3, <2>4
<1> HIDE DEF out
<1>5. /\ u \in Seq(S) /\ Len(u) = Len(out) + Len(p) /\ Range(u) = Range(out) \cup Range(p)
      /\ \A i \in 1..Len(out) : u[i] = out[i]
      /\ \A i \in 1..Len(p) : u[Len(out) + i] = p[i]
  <2>1. out \in Seq(S) /\ p \in Seq(S)
    BY <1>2, <1>4
  <2> QED BY <2>1, JoinFacts
<1> HIDE DEF u
<1>6. Len(p) = hi - lo /\ Len(u) = hi
  BY <1>1, <1>2, <1>3, <1>4, <1>5
<1>7. ASSUME NEW i \in 1..hi PROVE u[i] = s[i]
  <2>1. CASE i \in 1..lo
    BY <1>4, <1>5, <2>1
  <2>2. CASE i \notin 1..lo
    <3>1. i - lo \in 1..(hi - lo) /\ lo + (i - lo) = i
      BY <1>1, <1>3, <2>2
    <3>2. p[i - lo] = s[lo + (i - lo)]
      BY <1>2, <3>1
    <3>3. u[lo + (i - lo)] = p[i - lo]
      BY <1>4, <1>5, <1>6, <3>1
    <3> QED BY <3>1, <3>2, <3>3
  <2> QED BY <2>1, <2>2
<1>8. u = SubSeq(s, 1, hi)
  <2> DEFINE v == SubSeq(s, 1, hi)
  <2>1. \A i \in 1..hi : s[i] \in S
    BY <1>1, <1>3
  <2>2. hi \in Int /\ hi \in Nat
    BY <1>1, <1>3
  <2>3. /\ v \in Seq(S) /\ Len(v) = IF 1 <= hi THEN hi - 1 + 1 ELSE 0
        /\ \A i \in 1..(hi - 1 + 1) : v[i] = s[1 + i - 1]
    BY <2>1, <2>2, SubSeqProperties
  <2>4. hi - 1 + 1 = hi /\ (~(1 <= hi) => hi = 0) /\ \A i \in 1..hi : 1 + i - 1 = i
    BY <2>2
  <2> HIDE DEF v
  <2>5. Len(v) = hi /\ \A i \in 1..hi : v[i] = s[i]
    BY <2>3, <2>4
  <2>6. v = u
    BY <1>5, <1>6, <1>7, <2>3, <2>5, SeqEqual
  <2> QED BY <2>6 DEF v
<1>9. Len(u) = Cardinality(S) => Range(u) = S
  BY <1>1, <1>6, <1>8, SubSeqFull
<1>10. Len(p) = PagedReads!PageSize =>
         Len(u) = k * PagedReads!PageSize /\ u = SubSeq(s, 1, k * PagedReads!PageSize)
  BY <1>3, <1>6, <1>8
<1> QED BY <1>5, <1>9, <1>10 DEF s, lo, out, p, u

\* A page by its number has documents.
LEMMA OffsetInDocs ==
    ASSUME NEW S \in SUBSET PagedReads!Docs, NEW k \in Nat \ {0}
    PROVE  PagedReads!Offset(S, k) \in Seq(PagedReads!Docs)
<1>1. PagedReads!Offset(S, k) \in Seq(S)
  BY OffsetFacts
<1> QED BY <1>1, SeqMonotonic

\* A rule that the request at the head finds is read now, and asked for no more; the
\* others wait as before.
LEMMA SliceRead ==
    ASSUME NEW out \in Seq(PagedReads!Docs), NEW slices \in Seq(PagedReads!Slices),
           slices # <<>>, NEW found \in SUBSET PagedReads!Docs
    PROVE  LET u == out \o PagedReads!Sorted(found)
               t == Tail(slices)
           IN  /\ u \in Seq(PagedReads!Docs) /\ t \in Seq(PagedReads!Slices)
               /\ \A d \in PagedReads!Docs :
                    (d \in found => Asks(Head(slices), d)) /\ Once(slices, out, d) =>
                      /\ Once(t, u, d)
                      /\ (Asks(Head(slices), d) => d \in found) /\ Found(slices, out, d) =>
                           Found(t, u, d)
<1> DEFINE p == PagedReads!Sorted(found)
           u == out \o p
           h == Head(slices)
           t == Tail(slices)
<1>1. /\ Len(slices) \in Nat /\ 1 \in 1..Len(slices) /\ h = slices[1]
      /\ t \in Seq(PagedReads!Slices) /\ Len(t) = Len(slices) - 1
      /\ \A i \in 1..Len(t) : t[i] = slices[i + 1]
  <2>1. Len(slices) \in Nat /\ 1 \in 1..Len(slices) /\ h = slices[1]
    OBVIOUS
  <2> QED BY <2>1, HeadTailProperties
<1>2. /\ \A i \in 1..Len(t) : i + 1 \in 1..Len(slices) /\ i + 1 # 1
      /\ \A k \in 1..Len(slices) : k = 1 \/ (k - 1 \in 1..Len(t) /\ k = (k - 1) + 1)
  <2>1. Len(slices) \in Nat /\ Len(t) = Len(slices) - 1
    BY <1>1
  <2> HIDE DEF t
  <2> QED BY <2>1
<1> HIDE DEF h, t
<1>3. p \in Seq(PagedReads!Docs) /\ Range(p) = found /\ IsInjective(p)
  <2>1. p \in Seq(found) /\ Range(p) = found /\ IsInjective(p)
    BY DocsFacts
  <2> HIDE DEF p
  <2> QED BY <2>1, SeqMonotonic
<1> HIDE DEF p
<1>4. /\ u \in Seq(PagedReads!Docs) /\ Range(u) = Range(out) \cup found
      /\ Len(u) = Len(out) + Len(p) /\ Len(out) \in Nat /\ Len(p) \in Nat
      /\ \A i \in 1..Len(out) : u[i] = out[i]
      /\ \A i \in 1..Len(p) : u[Len(out) + i] = p[i]
  BY <1>3, JoinFacts
<1> HIDE DEF u
<1>5. \A i \in 1..Len(u) : i \in 1..Len(out) \/ (i - Len(out) \in 1..Len(p)
                                                   /\ u[i] = p[i - Len(out)])
  <2> SUFFICES ASSUME NEW i \in 1..Len(u), i \notin 1..Len(out)
               PROVE  i - Len(out) \in 1..Len(p) /\ u[i] = p[i - Len(out)]
    OBVIOUS
  <2>1. i - Len(out) \in 1..Len(p) /\ Len(out) + (i - Len(out)) = i
    BY <1>4
  <2>2. u[Len(out) + (i - Len(out))] = p[i - Len(out)]
    BY <1>4, <2>1
  <2> QED BY <2>1, <2>2
<1>6. /\ \A i \in 1..Len(out) : out[i] \in Range(out)
      /\ \A i \in 1..Len(p) : p[i] \in found
      /\ \A i, j \in 1..Len(p) : p[i] = p[j] => i = j
  <2>1. DOMAIN p = 1..Len(p) /\ DOMAIN out = 1..Len(out)
    BY <1>3
  <2> QED BY <1>3, <2>1 DEF Range, IsInjective
<1>7. ASSUME NEW d \in PagedReads!Docs, d \in found => Asks(h, d), Once(slices, out, d)
      PROVE  /\ Once(t, u, d)
             /\ (Asks(h, d) => d \in found) /\ Found(slices, out, d) => Found(t, u, d)
  <2>1. /\ \A i, j \in 1..Len(out) : out[i] = d /\ out[j] = d => i = j
        /\ \A i \in 1..Len(slices) : Asks(slices[i], d) =>
             d \notin Range(out) /\ \A j \in 1..Len(slices) : Asks(slices[j], d) => i = j
    BY <1>7 DEF Once
  <2>2. d \in found => d \notin Range(out) /\ \A i \in 1..Len(t) : ~Asks(t[i], d)
    <3> SUFFICES ASSUME d \in found
                 PROVE  d \notin Range(out) /\ \A i \in 1..Len(t) : ~Asks(t[i], d)
      OBVIOUS
    <3>1. Asks(slices[1], d)
      BY <1>1, <1>7
    <3>2. \A i \in 1..Len(t) : ~Asks(slices[i + 1], d)
      BY <1>1, <1>2, <2>1, <3>1
    <3> QED BY <1>1, <2>1, <3>1, <3>2
  <2>3. \A i, j \in 1..Len(u) : u[i] = d /\ u[j] = d => i = j
    <3> SUFFICES ASSUME NEW i \in 1..Len(u), NEW j \in 1..Len(u), u[i] = d, u[j] = d
                 PROVE  i = j
      OBVIOUS
    <3>1. CASE i \in 1..Len(out) /\ j \in 1..Len(out)
      BY <1>4, <2>1, <3>1
    <3>2. CASE i \notin 1..Len(out) /\ j \notin 1..Len(out)
      <4> DEFINE k == i - Len(out)
                 m == j - Len(out)
      <4>1. k \in 1..Len(p) /\ p[k] = d
        BY <1>5, <3>2
      <4>2. m \in 1..Len(p) /\ p[m] = d
        BY <1>5, <3>2
      <4>3. i = Len(out) + k /\ j = Len(out) + m
        BY <1>4
      <4> HIDE DEF k, m
      <4>4. k = m
        BY <1>6, <4>1, <4>2
      <4> QED BY <4>3, <4>4
    <3>3. \A k \in 1..Len(u) : k \in 1..Len(out) /\ u[k] = d => d \in Range(out)
      BY <1>4, <1>6
    <3>4. \A k \in 1..Len(u) : k \notin 1..Len(out) /\ u[k] = d => d \notin Range(out)
      <4> SUFFICES ASSUME NEW k \in 1..Len(u), k \notin 1..Len(out), u[k] = d
                   PROVE  d \notin Range(out)
        OBVIOUS
      <4>1. k - Len(out) \in 1..Len(p) /\ p[k - Len(out)] = d
        BY <1>5
      <4>2. d \in found
        BY <1>6, <4>1
      <4> QED BY <2>2, <4>2
    <3> QED BY <3>1, <3>2, <3>3, <3>4
  <2>4. \A i \in 1..Len(t) : Asks(t[i], d) =>
          d \notin Range(u) /\ \A j \in 1..Len(t) : Asks(t[j], d) => i = j
    <3> SUFFICES ASSUME NEW i \in 1..Len(t), Asks(t[i], d)
                 PROVE  d \notin Range(u) /\ \A j \in 1..Len(t) : Asks(t[j], d) => i = j
      OBVIOUS
    <3>1. i + 1 \in 1..Len(slices) /\ Asks(slices[i + 1], d)
      BY <1>1, <1>2
    <3>2. d \notin Range(out) /\ d \notin found
      BY <2>1, <2>2, <3>1
    <3>3. ASSUME NEW j \in 1..Len(t), Asks(t[j], d) PROVE i = j
      <4>1. j + 1 \in 1..Len(slices) /\ Asks(slices[j + 1], d)
        BY <1>1, <1>2, <3>3
      <4>2. i + 1 = j + 1
        BY <2>1, <3>1, <4>1
      <4> QED BY <4>2
    <3> QED BY <1>4, <3>2, <3>3
  <2>5. Once(t, u, d)
    BY <2>3, <2>4 DEF Once
  <2>6. ASSUME Asks(h, d) => d \in found, Found(slices, out, d) PROVE Found(t, u, d)
    <3>1. CASE d \in Range(out) \/ d \in found
      BY <1>4, <3>1 DEF Found
    <3>2. CASE d \notin Range(out) /\ d \notin found
      <4>1. PICK k \in 1..Len(slices) : Asks(slices[k], d)
        BY <2>6, <3>2 DEF Found
      <4>2. k # 1
        BY <1>1, <2>6, <3>2, <4>1
      <4>3. k - 1 \in 1..Len(t) /\ Asks(t[k - 1], d)
        BY <1>1, <1>2, <4>1, <4>2
      <4> QED BY <4>3 DEF Found
    <3> QED BY <3>1, <3>2
  <2> QED BY <2>5, <2>6
<1> QED BY <1>1, <1>4, <1>7 DEF u, p, h, t

\* The two halves of a request are answered with what it would be answered with.
LEMMA HalvesFacts ==
    ASSUME NEW of \in SUBSET PagedReads!Docs
    PROVE  LET hs == PagedReads!Halves(of)
           IN  /\ hs \in Seq(PagedReads!Slices) /\ Len(hs) = 2
               /\ hs = <<hs[1], hs[2]>>
               /\ \A d \in PagedReads!Docs :
                    /\ d \in of <=> Asks(hs[1], d) \/ Asks(hs[2], d)
                    /\ ~(Asks(hs[1], d) /\ Asks(hs[2], d))
<1> DEFINE a == PagedReads!Slice(of, {"on"})
           b == PagedReads!Slice(of, {"off"})
<1>1. a \in PagedReads!Slices /\ b \in PagedReads!Slices
  BY DEF PagedReads!Slice, PagedReads!Slices, PagedReads!States
<1>2. \A d \in PagedReads!Docs :
        /\ d \in of <=> Asks(a, d) \/ Asks(b, d)
        /\ ~(Asks(a, d) /\ Asks(b, d))
  BY DEF PagedReads!Slice, Asks, PagedReads!State
<1>3. PagedReads!Halves(of) = <<a, b>>
  BY DEF PagedReads!Halves
<1> HIDE DEF a, b
<1> QED BY <1>1, <1>2, <1>3

\* A request that is divided leaves each rule asked for as often as before.
LEMMA SliceHalved ==
    ASSUME NEW out \in Seq(PagedReads!Docs), NEW slices \in Seq(PagedReads!Slices),
           slices # <<>>, Head(slices).states = PagedReads!States
    PROVE  LET n == PagedReads!Halves(Head(slices).of) \o Tail(slices)
           IN  /\ n \in Seq(PagedReads!Slices) /\ n # <<>>
               /\ \A d \in PagedReads!Docs :
                    /\ Once(slices, out, d) => Once(n, out, d)
                    /\ Found(slices, out, d) => Found(n, out, d)
<1> DEFINE h == Head(slices)
           t == Tail(slices)
           hs == PagedReads!Halves(h.of)
           n == hs \o t
<1>1. /\ Len(slices) \in Nat /\ 1 \in 1..Len(slices) /\ h = slices[1]
      /\ t \in Seq(PagedReads!Slices) /\ Len(t) = Len(slices) - 1
      /\ \A i \in 1..Len(t) : t[i] = slices[i + 1]
  <2>1. Len(slices) \in Nat /\ 1 \in 1..Len(slices) /\ h = slices[1]
    OBVIOUS
  <2> QED BY <2>1, HeadTailProperties
<1>2. h.of \in SUBSET PagedReads!Docs
  <2>1. h \in PagedReads!Slices
    BY <1>1
  <2> QED BY <2>1 DEF PagedReads!Slices
<1>3. \A d \in PagedReads!Docs : Asks(h, d) <=> d \in h.of
  BY DEF Asks, PagedReads!State, PagedReads!States
<1> HIDE DEF h, t
<1>4. PICK two \in Int : two = 2
  OBVIOUS
<1>5. /\ hs \in Seq(PagedReads!Slices) /\ Len(hs) = two
      /\ \A d \in PagedReads!Docs :
           /\ d \in h.of <=> Asks(hs[1], d) \/ Asks(hs[2], d)
           /\ ~(Asks(hs[1], d) /\ Asks(hs[2], d))
  BY <1>2, <1>4, HalvesFacts
<1> HIDE DEF hs
<1>6. /\ n \in Seq(PagedReads!Slices) /\ Len(n) = two + Len(t)
      /\ \A i \in 1..two : n[i] = hs[i]
      /\ \A i \in 1..Len(t) : n[two + i] = t[i]
  <2>1. hs \in Seq(PagedReads!Slices) /\ t \in Seq(PagedReads!Slices) /\ Len(hs) = two
    BY <1>1, <1>5
  <2>2. /\ n \in Seq(PagedReads!Slices) /\ Len(n) = Len(hs) + Len(t)
        /\ \A i \in 1..Len(hs) : n[i] = hs[i]
        /\ \A i \in 1..Len(t) : n[Len(hs) + i] = t[i]
    <3>1. /\ n \in Seq(PagedReads!Slices) /\ Len(n) = Len(hs) + Len(t)
          /\ Len(hs) \in Nat /\ Len(t) \in Nat
      BY <2>1
    <3>2. \A i \in 1..Len(hs) : n[i] = hs[i]
      BY <2>1, <3>1
    <3>3. \A i \in 1..Len(t) : n[Len(hs) + i] = t[i]
      BY <2>1, <3>1
    <3> HIDE DEF n
    <3> QED BY <3>1, <3>2, <3>3
  <2> HIDE DEF n
  <2> QED BY <2>1, <2>2
<1> HIDE DEF n
<1>7. Len(n) = Len(slices) + 1 /\ 1 \in 1..Len(n) /\ 2 \in 1..Len(n) /\ n # <<>>
  <2>1. Len(n) = Len(slices) + 1 /\ 1 \in 1..Len(n) /\ 2 \in 1..Len(n)
    BY <1>1, <1>4, <1>6
  <2>2. n # <<>>
    BY <2>1
  <2> QED BY <2>1, <2>2
<1>8. n[1] = hs[1] /\ n[2] = hs[2]
  BY <1>4, <1>6
<1>9. \A i \in 1..Len(n) : i = 1 \/ i = 2 \/
         (i - 1 \in 1..Len(slices) /\ i - 1 # 1 /\ n[i] = slices[i - 1])
  <2> SUFFICES ASSUME NEW i \in 1..Len(n), i # 1, i # 2
               PROVE  i - 1 \in 1..Len(slices) /\ i - 1 # 1 /\ n[i] = slices[i - 1]
    OBVIOUS
  <2>1. i - 2 \in 1..Len(t) /\ two + (i - 2) = i /\ (i - 2) + 1 = i - 1
    BY <1>1, <1>4, <1>7
  <2>2. n[two + (i - 2)] = t[i - 2] /\ t[i - 2] = slices[(i - 2) + 1]
    BY <1>1, <1>6, <2>1
  <2>3. i - 1 \in 1..Len(slices) /\ i - 1 # 1
    BY <1>1, <1>7
  <2> QED BY <2>1, <2>2, <2>3
<1>10. \A k \in 1..Len(slices) : k = 1 \/ (k + 1 \in 1..Len(n) /\ n[k + 1] = slices[k])
  <2> SUFFICES ASSUME NEW k \in 1..Len(slices), k # 1
               PROVE  k + 1 \in 1..Len(n) /\ n[k + 1] = slices[k]
    OBVIOUS
  <2>1. k + 1 \in 1..Len(n) /\ k + 1 # 1 /\ k + 1 # 2 /\ (k + 1) - 1 = k
    BY <1>1, <1>7
  <2> QED BY <1>9, <2>1
<1>11. ASSUME NEW d \in PagedReads!Docs, Once(slices, out, d) PROVE Once(n, out, d)
  <2>1. /\ \A i, j \in 1..Len(out) : out[i] = d /\ out[j] = d => i = j
        /\ \A i \in 1..Len(slices) : Asks(slices[i], d) =>
             d \notin Range(out) /\ \A j \in 1..Len(slices) : Asks(slices[j], d) => i = j
    BY <1>11 DEF Once
  <2> DEFINE back(i) == IF i = 1 \/ i = 2 THEN 1 ELSE i - 1
  <2>2. ASSUME NEW i \in 1..Len(n), Asks(n[i], d)
        PROVE  back(i) \in 1..Len(slices) /\ Asks(slices[back(i)], d)
    <3>1. CASE i = 1 \/ i = 2
      <4>1. Asks(h, d)
        BY <1>3, <1>5, <1>8, <2>2, <3>1
      <4> QED BY <1>1, <3>1, <4>1
    <3>2. CASE i # 1 /\ i # 2
      BY <1>9, <2>2, <3>2
    <3> QED BY <3>1, <3>2
  <2>3. ASSUME NEW i \in 1..Len(n), Asks(n[i], d), NEW j \in 1..Len(n), Asks(n[j], d)
        PROVE  i = j
    <3>1. back(i) = back(j)
      BY <2>1, <2>2, <2>3
    <3>2. CASE i \in {1, 2} /\ j \in {1, 2}
      BY <1>5, <1>8, <2>3, <3>2
    <3>3. CASE i \notin {1, 2} /\ j \notin {1, 2}
      BY <3>1, <3>3, <1>7, <1>1
    <3>4. CASE i \in {1, 2} /\ j \notin {1, 2}
      BY <1>9, <3>1, <3>4
    <3>5. CASE i \notin {1, 2} /\ j \in {1, 2}
      BY <1>9, <3>1, <3>5
    <3> QED BY <3>2, <3>3, <3>4, <3>5
  <2>4. ASSUME NEW i \in 1..Len(n), Asks(n[i], d) PROVE d \notin Range(out)
    BY <2>1, <2>2, <2>4
  <2> HIDE DEF back
  <2> QED BY <2>1, <2>3, <2>4 DEF Once
<1>12. ASSUME NEW d \in PagedReads!Docs, Found(slices, out, d) PROVE Found(n, out, d)
  <2>1. CASE d \in Range(out)
    BY <2>1 DEF Found
  <2>2. CASE d \notin Range(out)
    <3>1. PICK k \in 1..Len(slices) : Asks(slices[k], d)
      BY <1>12, <2>2 DEF Found
    <3>2. CASE k = 1
      <4>1. Asks(n[1], d) \/ Asks(n[2], d)
        BY <1>1, <1>3, <1>5, <1>8, <3>1, <3>2
      <4> QED BY <1>7, <4>1 DEF Found
    <3>3. CASE k # 1
      BY <1>10, <3>1, <3>3 DEF Found
    <3> QED BY <3>2, <3>3
  <2> QED BY <2>1, <2>2
<1> QED BY <1>6, <1>7, <1>11, <1>12 DEF n, hs, h, t

\* The positions of a pair, and that it is not empty.
LEMMA OneAndTwo ==
    /\ 1 \in 1..2 /\ 2 \in 1..2 /\ \A i \in 1..2 : i = 1 \/ i = 2
    /\ Len(<<>>) # 2
  OBVIOUS

\* The requests of the parts together ask for what the command asks for, once.
LEMMA PartsFacts ==
    ASSUME cmd.filter # {"type", "enabled"}
    PROVE  /\ PagedReads!Parts \in Seq(PagedReads!Slices) /\ PagedReads!Parts # <<>>
           /\ \A d \in PagedReads!Docs :
                /\ Once(PagedReads!Parts, <<>>, d)
                /\ Asks(PagedReads!Corpus, d) => Found(PagedReads!Parts, <<>>, d)
<1> DEFINE ps == PagedReads!Parts
           corpus == PagedReads!Corpus
<1>1. ASSUME NEW s \in Seq(PagedReads!Slices), Len(s) = 2,
             \A d \in PagedReads!Docs :
               /\ Asks(corpus, d) => Asks(s[1], d) \/ Asks(s[2], d)
               /\ ~(Asks(s[1], d) /\ Asks(s[2], d))
      PROVE  /\ s # <<>>
             /\ \A d \in PagedReads!Docs :
                  /\ Once(s, <<>>, d)
                  /\ Asks(corpus, d) => Found(s, <<>>, d)
  <2> HIDE DEF corpus
  <2>0. Len(s) = 2
    BY <1>1
  <2>1. s # <<>> /\ \A i \in 1..Len(s) : i = 1 \/ i = 2
    <3>1. s # <<>>
      BY <2>0, OneAndTwo, Zenon
    <3>2. 1..Len(s) = 1..2
      BY <2>0, Zenon
    <3> QED BY <3>1, <3>2, OneAndTwo, Zenon
  <2>2. 1 \in 1..Len(s) /\ 2 \in 1..Len(s)
    <3>1. 1..Len(s) = 1..2
      BY <2>0, Zenon
    <3> QED BY <3>1, OneAndTwo, Zenon
  <2>3. Range(<<>>) = {} /\ \A i \in 1..Len(<<>>) : FALSE
    BY DEF Range
  <2>4. ASSUME NEW d \in PagedReads!Docs PROVE Once(s, <<>>, d)
    BY <1>1, <2>1, <2>3 DEF Once
  <2>5. ASSUME NEW d \in PagedReads!Docs, Asks(corpus, d) PROVE Found(s, <<>>, d)
    BY <1>1, <2>2, <2>5 DEF Found
  <2> QED BY <2>1, <2>4, <2>5
<1>2. {1, 2, 3} \in SUBSET PagedReads!Docs /\ {4} \in SUBSET PagedReads!Docs
      /\ \A d \in PagedReads!Docs : d \in {1, 2, 3} <=> d \notin {4}
  BY DEF PagedReads!Docs
<1>3. PagedReads!Types[1] = {1, 2, 3} /\ PagedReads!Types[2] = {4} /\ Len(PagedReads!Types) = 2
  BY DEF PagedReads!Types
<1>4. CASE "type" \in cmd.filter
  <2>1. ps = PagedReads!Halves({1, 2, 3})
    BY <1>3, <1>4 DEF PagedReads!Parts
  <2>2. \A d \in PagedReads!Docs : Asks(corpus, d) => d \in {1, 2, 3}
    BY <1>3, <1>4 DEF Asks, PagedReads!Corpus, PagedReads!Slice
  <2> HIDE DEF ps, corpus
  <2>3. /\ ps \in Seq(PagedReads!Slices) /\ Len(ps) = 2
        /\ \A d \in PagedReads!Docs :
             /\ d \in {1, 2, 3} <=> Asks(ps[1], d) \/ Asks(ps[2], d)
             /\ ~(Asks(ps[1], d) /\ Asks(ps[2], d))
    BY <1>2, <2>1, HalvesFacts
  <2> QED BY <1>1, <2>2, <2>3 DEF ps, corpus
<1>5. CASE "type" \notin cmd.filter
  <2> DEFINE a == PagedReads!Slice({1, 2, 3}, corpus.states)
             b == PagedReads!Slice({4}, corpus.states)
  <2>1. corpus.states \in SUBSET PagedReads!States
    BY DEF PagedReads!Corpus, PagedReads!Slice, PagedReads!States
  <2>2. a \in PagedReads!Slices /\ b \in PagedReads!Slices
    BY <1>2, <2>1 DEF PagedReads!Slice, PagedReads!Slices
  <2>3. ps = [i \in 1..2 |-> PagedReads!Slice(PagedReads!Types[i], corpus.states)]
    BY <1>3, <1>5 DEF PagedReads!Parts
  <2>4. \A d \in PagedReads!Docs :
          /\ Asks(corpus, d) => Asks(a, d) \/ Asks(b, d)
          /\ ~(Asks(a, d) /\ Asks(b, d))
    BY <1>2 DEF Asks, PagedReads!Corpus, PagedReads!Slice
  <2>5. ps[1] = a /\ ps[2] = b
    BY <1>3, <2>3
  <2> HIDE DEF ps, corpus, a, b
  <2>6. ps \in Seq(PagedReads!Slices) /\ Len(ps) = 2
    <3>1. DOMAIN ps = 1..2 /\ ps = [i \in 1..2 |-> ps[i]]
      BY <2>3
    <3>2. \A i \in 1..2 : ps[i] \in PagedReads!Slices
      BY <2>2, <2>5
    <3> QED BY <3>1, <3>2
  <2> QED BY <1>1, <2>4, <2>5, <2>6 DEF ps, corpus
<1> QED BY <1>4, <1>5 DEF ps, corpus

\* The first elements of a sequence.
LEMMA PrefixType ==
    ASSUME NEW S, NEW s \in Seq(S), NEW n \in 0..Len(s)
    PROVE  SubSeq(s, 1, n) \in Seq(S)
<1>1. n \in Int /\ \A i \in 1..n : s[i] \in S
  OBVIOUS
<1> QED BY <1>1, SubSeqProperties
=============================================================================
