----------------------------- MODULE PagedReads -----------------------------
(* The commands that read a whole list in several requests while others edit   *)
(* it: by offset (exception lists, dashboards, Fleet policies, cases), by the  *)
(* last document read (alerts), over a point in time (searches), by slices of  *)
(* a corpus behind the result window (rules), and the poll of an async query.  *)
EXTENDS GuardedCommand

Docs     == 1..4    \* in the order the server sorts them
PageSize == 2       \* documents of a page, and of the result window of rules
MaxPolls == 2       \* polls of an async query

\* Which of the documents there are, which rules are enabled and which of them
\* others switched since, and whether the stack holds a point in time or an
\* async query of this command.
StackType == [docs : SUBSET Docs, on : SUBSET Docs, flipped : SUBSET Docs, open : BOOLEAN]

\* `checked` are the dashboard and Fleet lists; 0 is no limit.
Readers == {"exceptions", "checked", "cases", "alerts", "search", "rules", "esql"}
Reads   == {c \in [family : {"reads"}, op : {"read"}, targets : {{}}, reader : Readers,
                   limit : {0, 3}, filter : SUBSET {"type", "enabled"}, yes : {FALSE}] :
               /\ c.limit # 0 => c.reader \in {"cases", "alerts", "search"}
               /\ c.filter # {} => c.reader = "rules"}

Init ==
    /\ Begins
    /\ cmd \in Reads
    /\ plan = [out |-> <<>>, page |-> 1, total |-> 0, first |-> {}, polls |-> 0,
               slices |-> <<>>, cut |-> FALSE, failed |-> FALSE, lost |-> FALSE]
    /\ stack \in [docs : SUBSET Docs, on : SUBSET Docs, flipped : {{}}, open : {FALSE}]
    /\ stack.on \subseteq (IF cmd.reader = "rules" THEN stack.docs ELSE {})

FirstOf(s, n) == SubSeq(s, 1, IF Len(s) < n THEN Len(s) ELSE n)

\* Page k of a list of documents, and the page behind document d.
Offset(S, k) == LET s == Sorted(S) IN
    SubSeq(s, (k - 1) * PageSize + 1, IF Len(s) < k * PageSize THEN Len(s) ELSE k * PageSize)
Behind(S, d) == FirstOf(Sorted({e \in S : e > d}), PageSize)

\* The documents there were when the command began to read.
First == IF pc = "start" THEN stack.docs ELSE plan.first

\* The end of a read, or its next page.
Result(out)  == plan' = [plan EXCEPT !.out = out, !.first = First] /\ Goto("done")
NextPage(out) ==
    plan' = [plan EXCEPT !.out = out, !.page = @ + 1, !.first = First] /\ Goto("page")
Requested(reader) == cmd.reader = reader /\ pc \in {"start", "page"}
Refused == Fail /\ UNCHANGED plan
Kept == UNCHANGED <<cmd, stack, writes, edits>>

\* Exceptions: pages until as many objects as the last page counted; an empty
\* page before that is refused.
PageExceptions ==
    /\ Requested("exceptions")
    /\ LET data == Offset(stack.docs, plan.page)
           out  == plan.out \o data
       IN Read(/\ UNCHANGED moved
               /\ IF Len(out) >= Cardinality(stack.docs) THEN Result(out)
                  ELSE IF data = <<>> THEN Refused
                  ELSE NextPage(out),
               Refused)
    /\ Kept

\* Mutant: the total is that of the last page.
PageCheckedLoosely ==
    /\ Requested("checked")
    /\ LET data  == Offset(stack.docs, plan.page)
           out   == plan.out \o data
           count == Cardinality(stack.docs)
           total == count
       IN Read(/\ UNCHANGED moved
               /\ IF ~IsInjective(out) THEN Refused
                  ELSE IF Len(out) > total THEN Refused
                  ELSE IF Len(out) = total THEN Result(out)
                  ELSE IF Len(data) # PageSize THEN Refused
                  ELSE /\ plan' = [plan EXCEPT !.out = out, !.page = @ + 1, !.total = total,
                                               !.first = First]
                       /\ Goto("page"),
               Refused)
    /\ Kept

\* Dashboards and Fleet policies: the total of the first page must stay, no id
\* may come twice, a page before the last must be full.
PageChecked ==
    /\ Requested("checked")
    /\ LET data  == Offset(stack.docs, plan.page)
           out   == plan.out \o data
           count == Cardinality(stack.docs)
           total == IF plan.page = 1 THEN count ELSE plan.total
       IN Read(/\ UNCHANGED moved
               /\ IF count # total \/ ~IsInjective(out) THEN Refused
                  ELSE IF Len(out) > total THEN Refused
                  ELSE IF Len(out) = total THEN Result(out)
                  ELSE IF Len(data) # PageSize THEN Refused
                  ELSE /\ plan' = [plan EXCEPT !.out = out, !.page = @ + 1, !.total = total,
                                               !.first = First]
                       /\ Goto("page"),
               Refused)
    /\ Kept

\* A full page whose last hit carries no sort values has no page behind it: the
\* reader gives what it has.
Cut(out, step) ==
    plan' = [plan EXCEPT !.out = out, !.first = First, !.cut = TRUE] /\ Goto(step)

\* Pages of cases, by offset, and of alerts, behind the last one, end at the
\* limit or at a short page, those of alerts also where no sort values come.
PageUntilShort ==
    /\ Requested("cases") \/ Requested("alerts")
    /\ LET data == IF cmd.reader = "cases" THEN Offset(stack.docs, plan.page)
                   ELSE Behind(stack.docs, IF plan.out = <<>> THEN 0 ELSE plan.out[Len(plan.out)])
           out  == plan.out \o data
       IN Read(/\ UNCHANGED moved
               /\ IF cmd.limit # 0 /\ Len(out) >= cmd.limit THEN Result(FirstOf(out, cmd.limit))
                  ELSE IF Len(data) < PageSize THEN Result(out)
                  ELSE NextPage(out) \/ (cmd.reader = "alerts" /\ Cut(out, "done")),
               Refused)
    /\ Kept

\* A request that opens or closes what the stack holds for the command.
Opens(open, ok, failed) ==
    \/ stack' = [stack EXCEPT !.open = open] /\ ok /\ UNCHANGED faults
    \/ /\ faults > 0 /\ faults' = faults - 1
       /\ stack' \in {stack, [stack EXCEPT !.open = open]} /\ failed

\* A search opens a point in time, which fixes the documents.
OpenPit ==
    /\ pc = "start" /\ cmd.reader = "search"
    /\ Opens(TRUE, /\ plan' = [plan EXCEPT !.first = stack.docs] /\ Goto("pit"),
             /\ plan' = [plan EXCEPT !.lost = TRUE] /\ Fail)
    /\ UNCHANGED <<cmd, moved, writes, edits>>

PagePit ==
    /\ pc = "pit"
    /\ LET data == Behind(plan.first, IF plan.out = <<>> THEN 0 ELSE plan.out[Len(plan.out)])
           out  == plan.out \o data
       IN Read(/\ UNCHANGED moved
               /\ IF data = <<>> THEN Goto("close") /\ UNCHANGED plan
                  ELSE IF cmd.limit # 0 /\ Len(out) >= cmd.limit
                       THEN plan' = [plan EXCEPT !.out = FirstOf(out, cmd.limit)] /\ Goto("close")
                  ELSE (plan' = [plan EXCEPT !.out = out] /\ Goto("pit")) \/ Cut(out, "close"),
               plan' = [plan EXCEPT !.failed = TRUE] /\ Goto("close"))
    /\ Kept

\* Closed on every path; that the closing fails is no error of the command.
Close ==
    /\ pc = "close"
    /\ LET end == Goto(IF plan.failed THEN "failed" ELSE "done") IN
         Opens(FALSE, end /\ UNCHANGED plan, plan' = [plan EXCEPT !.lost = TRUE] /\ end)
    /\ UNCHANGED <<cmd, moved, writes, edits>>

\* Rules.  A request names types and states of `enabled`, and is answered with
\* what matches when it is served.  No state but these two, and no rule without
\* one of the types.
States == {"on", "off"}
Types  == <<{1, 2, 3}, {4}>>
Slices == [of : SUBSET Docs, states : SUBSET States]

Slice(of, states) == [of |-> of, states |-> states]
Halves(of)  == <<Slice(of, {"on"}), Slice(of, {"off"})>>
State(d)    == IF d \in stack.on THEN "on" ELSE "off"
Matching(s) == {d \in stack.docs : d \in s.of /\ State(d) \in s.states}

\* What the filters of the command ask for, and the requests that together ask
\* for the same: by type, or where the type is given by `enabled`.
Corpus == Slice(IF "type" \in cmd.filter THEN Types[1] ELSE Docs,
                IF "enabled" \in cmd.filter THEN {"on"} ELSE States)
Parts  == IF "type" \in cmd.filter THEN Halves(Types[1])
          ELSE [i \in 1..Len(Types) |-> Slice(Types[i], Corpus.states)]

\* One request when the corpus fits the window, else one for each part; with
\* both filters given there is nothing to divide by.  The answer that is
\* refused may also be one that counts more rules than it brings.
ReadRules ==
    /\ Requested("rules") /\ pc = "start"
    /\ LET found == Matching(Corpus) IN
         Read(/\ UNCHANGED moved
              /\ \/ /\ Cardinality(found) <= PageSize
                    /\ plan' = [plan EXCEPT !.out = Sorted(found), !.first = found]
                    /\ Goto("done")
                 \/ /\ Cardinality(found) > PageSize /\ cmd.filter # {"type", "enabled"}
                    /\ plan' = [plan EXCEPT !.total = Cardinality(found), !.slices = Parts,
                                            !.first = found]
                    /\ Goto("page")
                 \/ Cardinality(found) > PageSize /\ cmd.filter = {"type", "enabled"} /\ Refused,
              Refused)
    /\ Kept

\* Mutant: what was read is not compared with the first count.
ReadSliceUnsummed ==
    /\ Requested("rules") /\ pc = "page"
    /\ LET slice == Head(plan.slices)
           rest  == Tail(plan.slices)
           found == Matching(slice)
           out   == plan.out \o Sorted(found)
           fits  == Cardinality(found) <= PageSize
       IN Read(/\ UNCHANGED moved
               /\ \/ fits /\ rest = <<>> /\ Result(out)
                  \/ /\ fits /\ rest # <<>>
                     /\ plan' = [plan EXCEPT !.out = out, !.slices = rest] /\ Goto("page")
                  \/ /\ ~fits /\ slice.states = States
                     /\ plan' = [plan EXCEPT !.slices = Halves(slice.of) \o rest] /\ Goto("page")
                  \/ ~fits /\ slice.states # States /\ Refused,
               Refused)
    /\ Kept

\* One part.  One that is beyond the window is divided by `enabled`, and refused
\* when it is so divided; in the end all must add up to the first count.
ReadSlice ==
    /\ Requested("rules") /\ pc = "page"
    /\ LET slice == Head(plan.slices)
           rest  == Tail(plan.slices)
           found == Matching(slice)
           out   == plan.out \o Sorted(found)
           fits  == Cardinality(found) <= PageSize
       IN Read(/\ UNCHANGED moved
               /\ \/ fits /\ rest = <<>> /\ Len(out) = plan.total /\ Result(out)
                  \/ fits /\ rest = <<>> /\ Len(out) # plan.total /\ Refused
                  \/ /\ fits /\ rest # <<>>
                     /\ plan' = [plan EXCEPT !.out = out, !.slices = rest] /\ Goto("page")
                  \/ /\ ~fits /\ slice.states = States
                     /\ plan' = [plan EXCEPT !.slices = Halves(slice.of) \o rest] /\ Goto("page")
                  \/ ~fits /\ slice.states # States /\ Refused,
               Refused)
    /\ Kept

\* An async query is started, and may be answered at once, with or without an
\* object of its own left behind.
StartQuery ==
    /\ pc = "start" /\ cmd.reader = "esql"
    /\ \/ Opens(TRUE, /\ UNCHANGED plan
                      /\ \E next \in {"poll", "close"} : Goto(next),
                /\ plan' = [plan EXCEPT !.lost = TRUE] /\ Fail)
       \/ Goto("done") /\ UNCHANGED <<plan, stack, faults>>
    /\ UNCHANGED <<cmd, moved, writes, edits>>

\* Mutant: a poll that fails ends the command at once.
PollAndQuit ==
    /\ pc = "poll"
    /\ Read(/\ UNCHANGED moved
            /\ \/ Goto("close") /\ UNCHANGED plan
               \/ /\ plan' = [plan EXCEPT !.polls = @ + 1, !.failed = plan.polls + 1 = MaxPolls]
                  /\ Goto(IF plan.polls + 1 = MaxPolls THEN "close" ELSE "poll"),
            plan' = [plan EXCEPT !.failed = TRUE] /\ Fail)
    /\ Kept

\* The query is polled a bounded number of times; finished, failed or too slow,
\* it is deleted.
Poll ==
    /\ pc = "poll"
    /\ Read(/\ UNCHANGED moved
            /\ \/ Goto("close") /\ UNCHANGED plan
               \/ /\ plan' = [plan EXCEPT !.polls = @ + 1, !.failed = plan.polls + 1 = MaxPolls]
                  /\ Goto(IF plan.polls + 1 = MaxPolls THEN "close" ELSE "poll"),
            plan' = [plan EXCEPT !.failed = TRUE] /\ Goto("close"))
    /\ Kept

-----------------------------------------------------------------------------
Goal(o) == TRUE

\* Others create and delete documents, and switch rules on and off.
OthersCreate(d) ==
    /\ d \notin stack.docs
    /\ \E on \in {{}} \cup (IF cmd.reader = "rules" THEN {{d}} ELSE {}) :
         Edit([stack EXCEPT !.docs = @ \cup {d}, !.on = @ \cup on], {d})
OthersDelete(d) ==
    d \in stack.docs /\ Edit([stack EXCEPT !.docs = @ \ {d}, !.on = @ \ {d}], {d})
OthersSwitch(d) ==
    /\ cmd.reader = "rules" /\ d \in stack.docs
    /\ Edit([stack EXCEPT !.on = IF d \in @ THEN @ \ {d} ELSE @ \cup {d},
                          !.flipped = @ \cup {d}], {})
OthersEdit == \E d \in Docs : OthersCreate(d) \/ OthersDelete(d) \/ OthersSwitch(d)

Next ==
    \/ PageExceptions \/ PageChecked \/ PageUntilShort
    \/ OpenPit \/ PagePit \/ Close \/ ReadRules \/ ReadSlice \/ StartQuery \/ Poll
    \/ OthersEdit
=============================================================================
