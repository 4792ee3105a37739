----------------------------- MODULE RecorderInv -----------------------------
(* The inductive invariant of Recorder: what the script has made, claimed and  *)
(* leased at each of its steps, and what cleanup has swept at each of its own. *)
EXTENDS Recorder

\* A step in `on` among the first k - 1 steps of s with none in `off` behind it; x says
\* whether there was one before s.
Since(s, x, k, on, off) ==
    \/ /\ x
       /\ \A j \in 1..(k - 1) : s[j] \notin off
    \/ \E i \in 1..(k - 1) :
          /\ s[i] \in on
          /\ \A j \in (i + 1)..(k - 1) : s[j] \notin off

\* The steps that leave object r of the session behind, those that delete it, and those
\* that record its ownership before it is there and give it up.
Making(r)    == [op : {"create", "write", "once"}, r : {r}]
Deleting(r)  == [op : {"delete", "drop"}, r : {r}]
Claiming(r)  == [op : {"claim", "lease"}, r : {r}]
Releasing(r) == [op : {"gone"}, r : {r}]
Leasing      == [op : {"lease"}, r : {"source"}]
Restoring    == [op : {"restore"}, r : {"stack"}]

\* What the script has made, claimed and leased when it comes to its step k.
Made(k, r)    == Since(Script, FALSE, k, Making(r), Deleting(r))
Claimed(k, r) == Since(Script, FALSE, k, Claiming(r), Releasing(r))
LeaseTaken(k) == Since(Script, FALSE, k, Leasing, Restoring)

-----------------------------------------------------------------------------
(* The session.                                                            *)

\* A create that may have been applied, and has not been read back yet.
Uncertain(r) == at = "reread" /\ r = Target

\* Only the two creates of the case read back what they may have made.
DoubtIsACreate == at = "reread" => Doing("once") \/ Doing("duplicate")

\* Only a case is there twice, and Fleet's objects are never written over.
MineIsWhole ==
    /\ \A r \in Objects : there[r] = "twice" => r = "case"
    /\ \A r \in Fleet : there[r] # "joined"

\* What the script has made is there, until the step that deletes it does so.
MadeIsThere ==
    phase = "record" =>
        \A r \in Objects :
            Made(pc, r) => there[r] \in Written \/ (Doing("drop") /\ at = "verify" /\ r = Target)

\* Nothing else of the session is there, the case aside.
OnlyMadeIsThere ==
    phase = "record" =>
        \A r \in Objects \ {"case"} : there[r] \in Written => Made(pc, r) \/ Uncertain(r)

ClaimedIsOwned ==
    phase = "record" => \A r \in Objects \ Fleet : Claimed(pc, r) => r \in own

\* What is claimed before it is created is owned for as long as it is there.
EarlyIsOwned ==
    \A r \in Objects \ (LateClaims \cup Fleet) : there[r] \in Written => r \in own

\* The rest is owned unless the session has failed, or is about to read it back.
LateIsOwned ==
    ~failed =>
        \A r \in LateClaims \cup Fleet :
            there[r] \in Written =>
                r \in own \/ (phase = "record" /\ r = Target /\ (Doing("prove") \/ at = "reread"))

\* A lease is held from the step that takes it to the end of the one that restores.
LeaseIsHeld == phase = "record" /\ LeaseTaken(pc) => Leased

DefaultIsKept ==
    /\ lease.was \notin {"source", "replacement"}
    /\ ~Leased => default \notin {"source", "replacement"}
    /\ ~Leased /\ mover = "session" => default \in {lease.was, "companion"}

\* Between the read and the post of a restore only another client moves the default.
RestoreIsDue ==
    Doing("restore") /\ at = "post" =>
        Leased /\ (Restorable(lease, default) \/ mover = "unseen")

-----------------------------------------------------------------------------
(* Cleanup.                                                                *)

\* Cleanup deletes what it has just read, found its own and due.
LookedAt ==
    Doing("remove") /\ at = "delete" =>
        /\ there[Target] # "none" /\ Proves(Target, there[Target]) /\ Due(Target)
        /\ Target = "parent" => ~Attached

\* Cleanup is behind this step.
Swept(step) ==
    \/ phase \in {"write", "done"}
    \/ phase = "cleanup" /\ \E i \in 1..(pc - 1) : Sweep[i] = step

\* Without an error, what cleanup has passed is given up, and only the case keeps its
\* flag.
SweptIsGone ==
    ~errors =>
        /\ Swept(Do("restore", "stack")) => ~Leased
        /\ \A r \in Objects :
             Swept(Do("remove", r)) => r \notin own \/ (r = "case" /\ there[r] \notin Written)

\* The fixtures are written once both parts have succeeded.
PublishedIsClean ==
    /\ published => phase = "done" /\ ~failed /\ ~errors
    /\ phase = "write" => ~failed /\ ~errors
    /\ phase \in {"write", "done"} /\ ~failed /\ ~errors => alerts # "open"

IInv ==
    /\ TypeOK /\ DoubtIsACreate /\ MineIsWhole /\ MadeIsThere /\ OnlyMadeIsThere
    /\ ClaimedIsOwned /\ EarlyIsOwned /\ LateIsOwned /\ LeaseIsHeld /\ DefaultIsKept
    /\ RestoreIsDue /\ LookedAt /\ SweptIsGone /\ PublishedIsClean /\ ForeignSurvives
=============================================================================
