--------------------------- MODULE RecorderProofs ---------------------------
(***************************************************************************)
(* The recorder's safety, for any number of faults, any number of steps of  *)
(* other clients and every set of ids they use: IInv is inductive.          *)
(***************************************************************************)
EXTENDS RecorderInv, Integers, TLAPS

-----------------------------------------------------------------------------
(* What a step of the script may be, and what it relies on.                   *)

\* The operations that are about one object of the session.
ObjectSteps == {"absent", "claim", "create", "write", "prove", "delete", "gone", "conflict",
                "once", "duplicate", "recheck", "drop", "lease"}
\* Every operation of the script.
RecordOps == ObjectSteps \cup {"use", "snapshot", "leased", "stake", "default", "dangling",
               "restore", "arm", "audit", "quiet", "poll", "disable", "close", "sweep"}
\* The steps a script may have: which operation is about which objects.
RecordSteps ==
    {s \in [op : RecordOps, r : Objects \cup {"stack", "none"}] :
        /\ s.op \in ObjectSteps => s.r \in Objects
        /\ s.op = "default" => s.r \in {"source", "none"}
        /\ s.op \in {"write", "prove"} => s.r \notin Fleet
        /\ s.op \in {"once", "duplicate", "drop"} => s.r \in Fleet
        /\ s.op = "lease" => s.r = "source"
        /\ s.op = "restore" => s.r = "stack"
        /\ s.op = "conflict" => s.r \notin LateClaims \cup Fleet
        /\ s.op = "create" => s.r \notin Fleet}

\* Whether step k of s finds what it relies on, when m is what is made before s, c what
\* is claimed, and "source" is in l if the lease is taken.
MadeIn(s, m, k, r)    == Since(s, r \in m, k, Making(r), Deleting(r))
ClaimedIn(s, c, k, r) == Since(s, r \in c, k, Claiming(r), Releasing(r))
LeasedIn(s, l, k)     == Since(s, "source" \in l, k, Leasing, Restoring)

\* Step k finds what it relies on: an object to be deleted is there and what refers to it
\* is not, an object is claimed before it is created, the lease is taken before the default
\* may move, and what is claimed late is proved by the very next step.
StepFits(s, m, c, l, k) ==
    /\ s[k].op \in {"delete", "drop"} =>
         MadeIn(s, m, k, s[k].r) /\ \A d \in Dependants(s[k].r) : ~MadeIn(s, m, k, d)
    /\ s[k].op \in {"create", "write", "conflict"} /\ s[k].r \notin LateClaims \cup Fleet =>
         ClaimedIn(s, c, k, s[k].r)
    /\ s[k].op \in {"create", "write"} /\ s[k].r \in {"source", "replacement"}
         => LeasedIn(s, l, k)
    /\ s[k].op = "default" => LeasedIn(s, l, k)
    /\ s[k].op = "snapshot" => ~LeasedIn(s, l, k)
    /\ s[k].op = "write" /\ s[k].r \in LateClaims => k < Len(s)
         /\ s[k + 1] = Do("prove", s[k].r)

\* Each step of s finds it, and after s there is m2, c2 and l2.
Fits(s, m, c, l)    == s \in Seq(RecordSteps) /\ \A k \in 1..Len(s) : StepFits(s, m, c, l, k)
Makes(s, m, m2)     == \A r \in Objects : r \in m2 <=> MadeIn(s, m, Len(s) + 1, r)
Claims(s, c, c2)    == \A r \in Objects : r \in c2 <=> ClaimedIn(s, c, Len(s) + 1, r)
Leases(s, l, l2)    == "source" \in l2 <=> LeasedIn(s, l, Len(s) + 1)
Part(s, m, c, l, m2, c2, l2) ==
    Fits(s, m, c, l) /\ Makes(s, m, m2) /\ Claims(s, c, c2) /\ Leases(s, l, l2)


-----------------------------------------------------------------------------
(* The parts of the script make the script.                                   *)

\* What a sequence remembers of its first part is what the second part begins with.
LEMMA SinceJoin ==
    ASSUME NEW R, NEW a \in Seq(R), NEW b \in Seq(R), NEW on, NEW off, NEW X, NEW Y, NEW e,
           e \in Y <=> Since(a, e \in X, Len(a) + 1, on, off)
    PROVE  /\ \A k \in 1..(Len(a) + 1) :
                Since(a \o b, e \in X, k, on, off) <=> Since(a, e \in X, k, on, off)
           /\ \A k \in 1..(Len(b) + 1) :
                Since(a \o b, e \in X, Len(a) + k, on, off) <=> Since(b, e \in Y, k, on, off)
<1> DEFINE s == a \o b
<1>1. /\ Len(a) \in Nat /\ Len(b) \in Nat
      /\ \A k \in 1..Len(a) : s[k] = a[k]
      /\ \A k \in 1..Len(b) : s[Len(a) + k] = b[k]
  OBVIOUS
<1> HIDE DEF s
<1>2. ASSUME NEW k \in 1..(Len(a) + 1)
      PROVE  Since(s, e \in X, k, on, off) <=> Since(a, e \in X, k, on, off)
  <2>1. \A j \in 1..(k - 1) : j \in 1..Len(a) /\ s[j] = a[j]
    BY <1>1
  <2>2. \A i \in 1..(k - 1) : \A j \in (i + 1)..(k - 1) : j \in 1..(k - 1)
    BY <1>1
  <2>3. (\A j \in 1..(k - 1) : s[j] \notin off) <=> (\A j \in 1..(k - 1) : a[j] \notin off)
    BY <2>1
  <2>4. ASSUME NEW i \in 1..(k - 1)
        PROVE  /\ s[i] \in on <=> a[i] \in on
               /\ (\A j \in (i + 1)..(k - 1) : s[j] \notin off)
                    <=> (\A j \in (i + 1)..(k - 1) : a[j] \notin off)
    BY <2>1, <2>2
  <2> QED BY <2>3, <2>4 DEF Since
<1>3. ASSUME NEW k \in 1..(Len(b) + 1)
      PROVE  Since(s, e \in X, Len(a) + k, on, off) <=> Since(b, e \in Y, k, on, off)
  <2>1. ASSUME NEW j \in (Len(a) + 1)..(Len(a) + k - 1)
        PROVE  j - Len(a) \in 1..(k - 1) /\ s[j] = b[j - Len(a)]
    <3>1. j - Len(a) \in 1..(k - 1) /\ j - Len(a) \in 1..Len(b) /\ Len(a) + (j - Len(a)) = j
      BY <1>1
    <3> QED BY <1>1, <3>1
  <2>2. ASSUME NEW j \in 1..(k - 1)
        PROVE  Len(a) + j \in (Len(a) + 1)..(Len(a) + k - 1) /\ s[Len(a) + j] = b[j]
    BY <1>1
  <2>3. (Len(a) + 1) - 1 = Len(a)
    BY <1>1
  <2>4. e \in Y <=> \/ e \in X /\ \A j \in 1..Len(a) : s[j] \notin off
                    \/ \E i \in 1..Len(a) :
                         s[i] \in on /\ \A j \in (i + 1)..Len(a) : s[j] \notin off
    <3>1. \A i \in 1..Len(a) : \A j \in (i + 1)..Len(a) : j \in 1..Len(a)
      BY <1>1
    <3> QED BY <1>1, <2>3, <3>1 DEF Since
  <2>5. ASSUME Since(b, e \in Y, k, on, off)
        PROVE  Since(s, e \in X, Len(a) + k, on, off)
    <3>1. CASE e \in Y /\ \A j \in 1..(k - 1) : b[j] \notin off
      <4>1. \A j \in (Len(a) + 1)..(Len(a) + k - 1) : s[j] \notin off
        BY <2>1, <3>1
      <4>2. CASE e \in X /\ \A j \in 1..Len(a) : s[j] \notin off
        <5>1. \A j \in 1..(Len(a) + k - 1) :
                j \in 1..Len(a) \/ j \in (Len(a) + 1)..(Len(a) + k - 1)
          BY <1>1
        <5>2. \A j \in 1..(Len(a) + k - 1) : s[j] \notin off
          BY <4>1, <4>2, <5>1
        <5> QED BY <4>2, <5>2 DEF Since
      <4>3. ASSUME NEW i \in 1..Len(a), s[i] \in on, \A j \in (i + 1)..Len(a) :
                     s[j] \notin off
            PROVE  Since(s, e \in X, Len(a) + k, on, off)
        <5>1. \A j \in (i + 1)..(Len(a) + k - 1) : s[j] \notin off
          BY <1>1, <4>1, <4>3
        <5>2. i \in 1..(Len(a) + k - 1)
          BY <1>1
        <5>3. \E h \in 1..(Len(a) + k - 1) :
                s[h] \in on /\ \A j \in (h + 1)..(Len(a) + k - 1) : s[j] \notin off
          BY <4>3, <5>1, <5>2
        <5> QED BY <5>3 DEF Since
      <4> QED BY <2>4, <3>1, <4>2, <4>3
    <3>2. ASSUME NEW i \in 1..(k - 1), b[i] \in on, \A j \in (i + 1)..(k - 1) :
                   b[j] \notin off
          PROVE  Since(s, e \in X, Len(a) + k, on, off)
      <4>1. \A j \in (Len(a) + i + 1)..(Len(a) + k - 1) :
              j - Len(a) \in (i + 1)..(k - 1) /\ j \in (Len(a) + 1)..(Len(a) + k - 1)
        BY <1>1
      <4>2. \A j \in (Len(a) + i + 1)..(Len(a) + k - 1) : s[j] \notin off
        BY <2>1, <3>2, <4>1
      <4>3. Len(a) + i \in 1..(Len(a) + k - 1) /\ s[Len(a) + i] \in on
        BY <1>1, <2>2, <3>2
      <4>4. \E h \in 1..(Len(a) + k - 1) :
              s[h] \in on /\ \A j \in (h + 1)..(Len(a) + k - 1) : s[j] \notin off
        BY <4>2, <4>3
      <4> QED BY <4>4 DEF Since
    <3> QED BY <2>5, <3>1, <3>2 DEF Since
  <2>6. ASSUME Since(s, e \in X, Len(a) + k, on, off)
        PROVE  Since(b, e \in Y, k, on, off)
    <3>1. CASE e \in X /\ \A j \in 1..(Len(a) + k - 1) : s[j] \notin off
      <4>1. \A j \in 1..Len(a) : j \in 1..(Len(a) + k - 1)
        BY <1>1
      <4>2. e \in Y /\ \A j \in 1..(k - 1) : b[j] \notin off
        <5>1. \A j \in 1..(k - 1) : Len(a) + j \in 1..(Len(a) + k - 1)
          BY <1>1
        <5> QED BY <2>2, <2>4, <3>1, <4>1, <5>1
      <4> QED BY <4>2 DEF Since
    <3>2. ASSUME NEW i \in 1..(Len(a) + k - 1), s[i] \in on,
                 \A j \in (i + 1)..(Len(a) + k - 1) : s[j] \notin off
          PROVE  Since(b, e \in Y, k, on, off)
      <4>1. CASE i \in 1..Len(a)
        <5>1. \A j \in (i + 1)..Len(a) : j \in (i + 1)..(Len(a) + k - 1)
          BY <1>1
        <5>2. \A j \in 1..(k - 1) : Len(a) + j \in (i + 1)..(Len(a) + k - 1)
          BY <1>1, <4>1
        <5>3. e \in Y /\ \A j \in 1..(k - 1) : b[j] \notin off
          BY <2>2, <2>4, <3>2, <4>1, <5>1, <5>2
        <5> QED BY <5>3 DEF Since
      <4>2. CASE i \notin 1..Len(a)
        <5>1. i \in (Len(a) + 1)..(Len(a) + k - 1)
          BY <1>1, <4>2
        <5>2. PICK h \in 1..(k - 1) : i = Len(a) + h
          <6>1. i - Len(a) \in 1..(k - 1) /\ i = Len(a) + (i - Len(a))
            BY <1>1, <5>1
          <6> QED BY <6>1
        <5>3. \A j \in (h + 1)..(k - 1) :
                j \in 1..(k - 1) /\ Len(a) + j \in (i + 1)..(Len(a) + k - 1)
          BY <1>1, <5>2
        <5>4. b[h] \in on /\ \A j \in (h + 1)..(k - 1) : b[j] \notin off
          BY <2>2, <3>2, <5>2, <5>3
        <5> QED BY <5>4 DEF Since
      <4> QED BY <4>1, <4>2
    <3> QED BY <2>6, <3>1, <3>2 DEF Since
  <2> QED BY <2>5, <2>6
<1> QED BY <1>2, <1>3 DEF s

\* Two parts that fit together are one.
LEMMA PartJoin ==
    ASSUME NEW a, NEW m, NEW c, NEW l, NEW b, NEW m1, NEW c1, NEW l1, NEW m2, NEW c2, NEW l2,
           Part(a, m, c, l, m1, c1, l1), Part(b, m1, c1, l1, m2, c2, l2)
    PROVE  Part(a \o b, m, c, l, m2, c2, l2)
<1>1. a \in Seq(RecordSteps) /\ b \in Seq(RecordSteps) /\ a \o b \in Seq(RecordSteps)
  BY DEF Part, Fits
<1>2. /\ Len(a) \in Nat /\ Len(b) \in Nat /\ Len(a \o b) = Len(a) + Len(b)
      /\ \A k \in 1..Len(a) : (a \o b)[k] = a[k]
      /\ \A k \in 1..Len(b) : (a \o b)[Len(a) + k] = b[k]
  BY <1>1
<1>3. ASSUME NEW r \in Objects
      PROVE  /\ \A k \in 1..(Len(a) + 1) : MadeIn(a \o b, m, k, r) <=> MadeIn(a, m, k, r)
             /\ \A k \in 1..(Len(b) + 1) :
                  MadeIn(a \o b, m, Len(a) + k, r) <=> MadeIn(b, m1, k, r)
  BY <1>1, SinceJoin DEF Part, Makes, MadeIn
<1>4. ASSUME NEW r \in Objects
      PROVE  /\ \A k \in 1..(Len(a) + 1) : ClaimedIn(a \o b, c, k, r)
                  <=> ClaimedIn(a, c, k, r)
             /\ \A k \in 1..(Len(b) + 1) :
                  ClaimedIn(a \o b, c, Len(a) + k, r) <=> ClaimedIn(b, c1, k, r)
  BY <1>1, SinceJoin DEF Part, Claims, ClaimedIn
<1>5. /\ \A k \in 1..(Len(a) + 1) : LeasedIn(a \o b, l, k) <=> LeasedIn(a, l, k)
      /\ \A k \in 1..(Len(b) + 1) : LeasedIn(a \o b, l, Len(a) + k) <=> LeasedIn(b, l1, k)
  <2>1. "source" \in l1 <=> Since(a, "source" \in l, Len(a) + 1, Leasing, Restoring)
    BY DEF Part, Leases, LeasedIn
  <2> QED BY <1>1, <2>1, SinceJoin DEF LeasedIn
<1>6. ASSUME NEW k \in 1..Len(a \o b) PROVE StepFits(a \o b, m, c, l, k)
  <2> DEFINE s == a \o b
  <2>1. /\ s[k] \in RecordSteps
        /\ s[k].op \in {"delete", "drop", "create", "write", "conflict"} => s[k].r \in Objects
    BY <1>1, <1>2 DEF RecordSteps, ObjectSteps
  <2>2. \A d \in Dependants(s[k].r) : d \in Objects
    BY DEF Dependants, Objects, Integrations, Dashboards, Views, Fleet, Policies, Indices
  <2> HIDE DEF s
  <2>3. CASE k \in 1..Len(a)
    <3>1. s[k] = a[k] /\ StepFits(a, m, c, l, k) /\ k \in 1..(Len(a) + 1)
      BY <1>2, <2>3 DEF s, Part, Fits
    <3>2. k < Len(a) => k < Len(s) /\ s[k + 1] = a[k + 1]
      BY <1>2, <2>3 DEF s
    <3> QED BY <1>3, <1>4, <1>5, <2>1, <2>2, <3>1, <3>2 DEF StepFits, s
  <2>4. CASE k \notin 1..Len(a)
    <3>1. PICK h \in 1..Len(b) : k = Len(a) + h
      <4>1. k - Len(a) \in 1..Len(b) /\ k = Len(a) + (k - Len(a))
        BY <1>2, <2>4
      <4> QED BY <4>1
    <3>2. s[k] = b[h] /\ StepFits(b, m1, c1, l1, h) /\ h \in 1..(Len(b) + 1)
      BY <1>2, <3>1 DEF s, Part, Fits
    <3>3. h < Len(b) => k < Len(s) /\ s[k + 1] = b[h + 1]
      <4>1. h < Len(b) => h + 1 \in 1..Len(b) /\ k + 1 = Len(a) + (h + 1)
              /\ k < Len(a) + Len(b)
        BY <1>2, <3>1
      <4> QED BY <1>2, <4>1 DEF s
    <3> QED BY <1>3, <1>4, <1>5, <2>1, <2>2, <3>1, <3>2, <3>3 DEF StepFits, s
  <2> QED BY <2>3, <2>4 DEF s
<1>7. Makes(a \o b, m, m2)
  BY <1>2, <1>3 DEF Part, Makes
<1>8. Claims(a \o b, c, c2)
  BY <1>2, <1>4 DEF Part, Claims
<1>9. Leases(a \o b, l, l2)
  BY <1>2, <1>5 DEF Part, Leases
<1> QED BY <1>1, <1>6, <1>7, <1>8, <1>9 DEF Part, Fits

\* What each part of the script relies on, and what it leaves to the next.
LEMMA ScriptParts ==
    /\ Part(Preflight,
            {}, {}, {},
            {}, {}, {})
    /\ Part(RuleProbe,
            {}, {}, {},
            {"list", "item", "rule"}, {}, {})
    /\ Part(PreviewProbe,
            {"list", "item", "rule"}, {}, {},
            {"list", "item", "rule", "scratch_index"}, {}, {})
    /\ Part(BundleProbe,
            {"list", "item", "rule", "scratch_index"}, {}, {},
            {"list", "item", "rule", "scratch_index"}, {}, {})
    /\ Part(SearchProbe,
            {"list", "item", "rule", "scratch_index"}, {}, {},
            LateClaims, {}, {})
    /\ Part(SourceProbe,
            LateClaims, {}, {},
            LateClaims \cup {"data_view_index", "source"},
            {"data_view_index", "source"}, {"source"})
    /\ Part(SourceMeasures,
            LateClaims \cup {"data_view_index", "source"},
            {"data_view_index", "source"}, {"source"},
            LateClaims \cup {"data_view_index", "source"},
            {"data_view_index", "source"}, {"source"})
    /\ Part(DefaultProbe,
            LateClaims \cup {"data_view_index", "source"},
            {"data_view_index", "source"}, {"source"},
            LateClaims \cup {"data_view_index", "source"},
            {"data_view_index", "source"}, {"source"})
    /\ Part(SwapProbe,
            LateClaims \cup {"data_view_index", "source"},
            {"data_view_index", "source"}, {"source"},
            LateClaims, {}, {})
    /\ Part(LossProbe,
            LateClaims, {}, {},
            LateClaims \cup {"companion"}, {"dashboard", "companion"}, {})
    /\ Part(DashboardProbe,
            LateClaims \cup {"companion"}, {"dashboard", "companion"}, {},
            LateClaims \cup {"companion", "dashboard"}, {"dashboard", "companion"}, {})
    /\ Part(ImportProbe,
            LateClaims \cup {"companion", "dashboard"}, {"dashboard", "companion"}, {},
            LateClaims, {}, {})
    /\ Part(PolicyProbe,
            LateClaims, {}, {},
            LateClaims \cup {"policy"}, {"policy"}, {})
    /\ Part(PolicyEnd,
            LateClaims \cup {"policy"}, {"policy"}, {},
            LateClaims, {}, {})
    /\ Part(ParentProbe,
            LateClaims, {}, {},
            LateClaims \cup {"parent"}, {}, {})
    /\ Part(BootstrapProbe,
            LateClaims \cup {"parent"}, {}, {},
            LateClaims \cup {"parent"}, {}, {})
    /\ Part(IntegrationProbe,
            LateClaims \cup {"parent"}, {}, {},
            LateClaims \cup {"parent", "integration"}, {}, {})
    /\ Part(DuplicateProbe,
            LateClaims \cup {"parent", "integration"}, {}, {},
            LateClaims \cup {"parent", "integration"}, {}, {})
    /\ Part(FleetEnd,
            LateClaims \cup {"parent", "integration"}, {}, {},
            LateClaims, {}, {})
    /\ Part(AlertProbe,
            LateClaims, {}, {},
            LateClaims \cup {"alert_index", "alert_rule"}, {"alert_index", "alert_rule"}, {})
    /\ Part(TriageProbe,
            LateClaims \cup {"alert_index", "alert_rule"}, {"alert_index", "alert_rule"}, {},
            LateClaims \cup {"alert_index", "alert_rule"}, {"alert_index", "alert_rule"}, {})
    /\ Part(CaseProbe,
            LateClaims \cup {"alert_index", "alert_rule"}, {"alert_index", "alert_rule"}, {},
            LateClaims \cup {"alert_index", "alert_rule", "case"},
            {"alert_index", "alert_rule", "case"}, {})
    /\ Part(CaseEnd,
            LateClaims \cup {"alert_index", "alert_rule", "case"},
            {"alert_index", "alert_rule", "case"}, {},
            LateClaims \cup {"alert_index", "alert_rule"}, {"alert_index", "alert_rule"}, {})
    /\ Part(AlertEnd,
            LateClaims \cup {"alert_index", "alert_rule"}, {"alert_index", "alert_rule"}, {},
            LateClaims \cup {"alert_index", "alert_rule"}, {"alert_index", "alert_rule"}, {})
<1> USE DEF Since, Making, Deleting, Claiming, Releasing, Leasing, Restoring, MadeIn,
      ClaimedIn,
            LeasedIn, Objects, Indices, Views, Dashboards, Policies, Fleet, Integrations,
            LateClaims, Do
<1>1. Part(Preflight,
          {}, {}, {},
          {}, {}, {})
  <2>1. Fits(Preflight, {}, {}, {})
    BY DEF Preflight, Fits, StepFits, Dependants, RecordSteps, RecordOps, ObjectSteps
  <2>2. Makes(Preflight, {}, {})
    BY DEF Preflight, Makes
  <2>3. Claims(Preflight, {}, {}) /\ Leases(Preflight, {}, {})
    BY DEF Preflight, Claims, Leases
  <2> QED BY <2>1, <2>2, <2>3 DEF Part
<1>2. Part(RuleProbe,
          {}, {}, {},
          {"list", "item", "rule"}, {}, {})
  <2>1. Fits(RuleProbe, {}, {}, {})
    BY DEF RuleProbe, Fits, StepFits, Dependants, RecordSteps, RecordOps, ObjectSteps
  <2>2. Makes(RuleProbe, {}, {"list", "item", "rule"})
    BY DEF RuleProbe, Makes
  <2>3. Claims(RuleProbe, {}, {}) /\ Leases(RuleProbe, {}, {})
    BY DEF RuleProbe, Claims, Leases
  <2> QED BY <2>1, <2>2, <2>3 DEF Part
<1>3. Part(PreviewProbe,
          {"list", "item", "rule"}, {}, {},
          {"list", "item", "rule", "scratch_index"}, {}, {})
  <2>1. Fits(PreviewProbe, {"list", "item", "rule"}, {}, {})
    BY DEF PreviewProbe, Fits, StepFits, Dependants, RecordSteps, RecordOps, ObjectSteps
  <2>2. Makes(PreviewProbe, {"list", "item", "rule"}, {"list", "item", "rule",
          "scratch_index"})
    BY DEF PreviewProbe, Makes
  <2>3. Claims(PreviewProbe, {}, {}) /\ Leases(PreviewProbe, {}, {})
    BY DEF PreviewProbe, Claims, Leases
  <2> QED BY <2>1, <2>2, <2>3 DEF Part
<1>4. Part(BundleProbe,
          {"list", "item", "rule", "scratch_index"}, {}, {},
          {"list", "item", "rule", "scratch_index"}, {}, {})
  <2>1. Fits(BundleProbe, {"list", "item", "rule", "scratch_index"}, {}, {})
    BY DEF BundleProbe, Fits, StepFits, Dependants, RecordSteps, RecordOps, ObjectSteps
  <2>2. Makes(BundleProbe, {"list", "item", "rule", "scratch_index"}, {"list", "item",
          "rule", "scratch_index"})
    BY DEF BundleProbe, Makes
  <2>3. Claims(BundleProbe, {}, {}) /\ Leases(BundleProbe, {}, {})
    BY DEF BundleProbe, Claims, Leases
  <2> QED BY <2>1, <2>2, <2>3 DEF Part
<1>5. Part(SearchProbe,
          {"list", "item", "rule", "scratch_index"}, {}, {},
          LateClaims, {}, {})
  <2>1. Fits(SearchProbe, {"list", "item", "rule", "scratch_index"}, {}, {})
    BY DEF SearchProbe, Fits, StepFits, Dependants, RecordSteps, RecordOps, ObjectSteps
  <2>2. Makes(SearchProbe, {"list", "item", "rule", "scratch_index"}, LateClaims)
    BY DEF SearchProbe, Makes
  <2>3. Claims(SearchProbe, {}, {}) /\ Leases(SearchProbe, {}, {})
    BY DEF SearchProbe, Claims, Leases
  <2> QED BY <2>1, <2>2, <2>3 DEF Part
<1>6. Part(SourceProbe,
          LateClaims, {}, {},
          LateClaims \cup {"data_view_index", "source"}, {"data_view_index",
            "source"}, {"source"})
  <2>1. Fits(SourceProbe, LateClaims, {}, {})
    BY DEF SourceProbe, Fits, StepFits, Dependants, RecordSteps, RecordOps, ObjectSteps
  <2>2. Makes(SourceProbe, LateClaims, LateClaims \cup {"data_view_index", "source"})
    BY DEF SourceProbe, Makes
  <2>3. Claims(SourceProbe, {}, {"data_view_index", "source"})
          /\ Leases(SourceProbe, {}, {"source"})
    BY DEF SourceProbe, Claims, Leases
  <2> QED BY <2>1, <2>2, <2>3 DEF Part
<1>7. Part(SourceMeasures,
          LateClaims \cup {"data_view_index", "source"}, {"data_view_index",
            "source"}, {"source"},
          LateClaims \cup {"data_view_index", "source"}, {"data_view_index",
            "source"}, {"source"})
  <2>1. Fits(SourceMeasures, LateClaims
          \cup {"data_view_index", "source"}, {"data_view_index", "source"}, {"source"})
    BY DEF SourceMeasures, Fits, StepFits, Dependants, RecordSteps, RecordOps, ObjectSteps
  <2>2. Makes(SourceMeasures, LateClaims \cup {"data_view_index", "source"}, LateClaims
          \cup {"data_view_index", "source"})
    BY DEF SourceMeasures, Makes
  <2>3. Claims(SourceMeasures, {"data_view_index", "source"}, {"data_view_index",
          "source"}) /\ Leases(SourceMeasures, {"source"}, {"source"})
    BY DEF SourceMeasures, Claims, Leases
  <2> QED BY <2>1, <2>2, <2>3 DEF Part
<1>8. Part(DefaultProbe,
          LateClaims \cup {"data_view_index", "source"}, {"data_view_index",
            "source"}, {"source"},
          LateClaims \cup {"data_view_index", "source"}, {"data_view_index",
            "source"}, {"source"})
  <2>1. Fits(DefaultProbe, LateClaims
          \cup {"data_view_index", "source"}, {"data_view_index", "source"}, {"source"})
    BY DEF DefaultProbe, Fits, StepFits, Dependants, RecordSteps, RecordOps, ObjectSteps
  <2>2. Makes(DefaultProbe, LateClaims \cup {"data_view_index", "source"}, LateClaims
          \cup {"data_view_index", "source"})
    BY DEF DefaultProbe, Makes
  <2>3. Claims(DefaultProbe, {"data_view_index", "source"}, {"data_view_index", "source"})
          /\ Leases(DefaultProbe, {"source"}, {"source"})
    BY DEF DefaultProbe, Claims, Leases
  <2> QED BY <2>1, <2>2, <2>3 DEF Part
<1>9. Part(SwapProbe,
          LateClaims \cup {"data_view_index", "source"}, {"data_view_index",
            "source"}, {"source"},
          LateClaims, {}, {})
  <2>1. Fits(SwapProbe, LateClaims
          \cup {"data_view_index", "source"}, {"data_view_index", "source"}, {"source"})
    BY DEF SwapProbe, Fits, StepFits, Dependants, RecordSteps, RecordOps, ObjectSteps
  <2>2. Makes(SwapProbe, LateClaims \cup {"data_view_index", "source"}, LateClaims)
    BY DEF SwapProbe, Makes
  <2>3. Claims(SwapProbe, {"data_view_index", "source"}, {})
          /\ Leases(SwapProbe, {"source"}, {})
    BY DEF SwapProbe, Claims, Leases
  <2> QED BY <2>1, <2>2, <2>3 DEF Part
<1>10. Part(LossProbe,
          LateClaims, {}, {},
          LateClaims \cup {"companion"}, {"dashboard", "companion"}, {})
  <2>1. Fits(LossProbe, LateClaims, {}, {})
    BY DEF LossProbe, Fits, StepFits, Dependants, RecordSteps, RecordOps, ObjectSteps
  <2>2. Makes(LossProbe, LateClaims, LateClaims \cup {"companion"})
    BY DEF LossProbe, Makes
  <2>3. Claims(LossProbe, {}, {"dashboard", "companion"}) /\ Leases(LossProbe, {}, {})
    BY DEF LossProbe, Claims, Leases
  <2> QED BY <2>1, <2>2, <2>3 DEF Part
<1>11. Part(DashboardProbe,
          LateClaims \cup {"companion"}, {"dashboard", "companion"}, {},
          LateClaims \cup {"companion", "dashboard"}, {"dashboard", "companion"}, {})
  <2>1. Fits(DashboardProbe, LateClaims \cup {"companion"}, {"dashboard", "companion"}, {})
    BY DEF DashboardProbe, Fits, StepFits, Dependants, RecordSteps, RecordOps, ObjectSteps
  <2>2. Makes(DashboardProbe, LateClaims \cup {"companion"}, LateClaims
          \cup {"companion", "dashboard"})
    BY DEF DashboardProbe, Makes
  <2>3. Claims(DashboardProbe, {"dashboard", "companion"}, {"dashboard", "companion"})
          /\ Leases(DashboardProbe, {}, {})
    BY DEF DashboardProbe, Claims, Leases
  <2> QED BY <2>1, <2>2, <2>3 DEF Part
<1>12. Part(ImportProbe,
          LateClaims \cup {"companion", "dashboard"}, {"dashboard", "companion"}, {},
          LateClaims, {}, {})
  <2>1. Fits(ImportProbe, LateClaims
          \cup {"companion", "dashboard"}, {"dashboard", "companion"}, {})
    BY DEF ImportProbe, Fits, StepFits, Dependants, RecordSteps, RecordOps, ObjectSteps
  <2>2. Makes(ImportProbe, LateClaims \cup {"companion", "dashboard"}, LateClaims)
    BY DEF ImportProbe, Makes
  <2>3. Claims(ImportProbe, {"dashboard", "companion"}, {}) /\ Leases(ImportProbe, {}, {})
    BY DEF ImportProbe, Claims, Leases
  <2> QED BY <2>1, <2>2, <2>3 DEF Part
<1>13. Part(PolicyProbe,
          LateClaims, {}, {},
          LateClaims \cup {"policy"}, {"policy"}, {})
  <2>1. Fits(PolicyProbe, LateClaims, {}, {})
    BY DEF PolicyProbe, Fits, StepFits, Dependants, RecordSteps, RecordOps, ObjectSteps
  <2>2. Makes(PolicyProbe, LateClaims, LateClaims \cup {"policy"})
    BY DEF PolicyProbe, Makes
  <2>3. Claims(PolicyProbe, {}, {"policy"}) /\ Leases(PolicyProbe, {}, {})
    BY DEF PolicyProbe, Claims, Leases
  <2> QED BY <2>1, <2>2, <2>3 DEF Part
<1>14. Part(PolicyEnd,
          LateClaims \cup {"policy"}, {"policy"}, {},
          LateClaims, {}, {})
  <2>1. Fits(PolicyEnd, LateClaims \cup {"policy"}, {"policy"}, {})
    BY DEF PolicyEnd, Fits, StepFits, Dependants, RecordSteps, RecordOps, ObjectSteps
  <2>2. Makes(PolicyEnd, LateClaims \cup {"policy"}, LateClaims)
    BY DEF PolicyEnd, Makes
  <2>3. Claims(PolicyEnd, {"policy"}, {}) /\ Leases(PolicyEnd, {}, {})
    BY DEF PolicyEnd, Claims, Leases
  <2> QED BY <2>1, <2>2, <2>3 DEF Part
<1>15. Part(ParentProbe,
          LateClaims, {}, {},
          LateClaims \cup {"parent"}, {}, {})
  <2>1. Fits(ParentProbe, LateClaims, {}, {})
    BY DEF ParentProbe, Fits, StepFits, Dependants, RecordSteps, RecordOps, ObjectSteps
  <2>2. Makes(ParentProbe, LateClaims, LateClaims \cup {"parent"})
    BY DEF ParentProbe, Makes
  <2>3. Claims(ParentProbe, {}, {}) /\ Leases(ParentProbe, {}, {})
    BY DEF ParentProbe, Claims, Leases
  <2> QED BY <2>1, <2>2, <2>3 DEF Part
<1>16. Part(BootstrapProbe,
          LateClaims \cup {"parent"}, {}, {},
          LateClaims \cup {"parent"}, {}, {})
  <2>1. Fits(BootstrapProbe, LateClaims \cup {"parent"}, {}, {})
    BY DEF BootstrapProbe, Fits, StepFits, Dependants, RecordSteps, RecordOps, ObjectSteps
  <2>2. Makes(BootstrapProbe, LateClaims \cup {"parent"}, LateClaims \cup {"parent"})
    BY DEF BootstrapProbe, Makes
  <2>3. Claims(BootstrapProbe, {}, {}) /\ Leases(BootstrapProbe, {}, {})
    BY DEF BootstrapProbe, Claims, Leases
  <2> QED BY <2>1, <2>2, <2>3 DEF Part
<1>17. Part(IntegrationProbe,
          LateClaims \cup {"parent"}, {}, {},
          LateClaims \cup {"parent", "integration"}, {}, {})
  <2>1. Fits(IntegrationProbe, LateClaims \cup {"parent"}, {}, {})
    BY DEF IntegrationProbe, Fits, StepFits, Dependants, RecordSteps, RecordOps, ObjectSteps
  <2>2. Makes(IntegrationProbe, LateClaims \cup {"parent"}, LateClaims
          \cup {"parent", "integration"})
    BY DEF IntegrationProbe, Makes
  <2>3. Claims(IntegrationProbe, {}, {}) /\ Leases(IntegrationProbe, {}, {})
    BY DEF IntegrationProbe, Claims, Leases
  <2> QED BY <2>1, <2>2, <2>3 DEF Part
<1>18. Part(DuplicateProbe,
          LateClaims \cup {"parent", "integration"}, {}, {},
          LateClaims \cup {"parent", "integration"}, {}, {})
  <2>1. Fits(DuplicateProbe, LateClaims \cup {"parent", "integration"}, {}, {})
    BY DEF DuplicateProbe, Fits, StepFits, Dependants, RecordSteps, RecordOps, ObjectSteps
  <2>2. Makes(DuplicateProbe, LateClaims \cup {"parent", "integration"}, LateClaims
          \cup {"parent", "integration"})
    BY DEF DuplicateProbe, Makes
  <2>3. Claims(DuplicateProbe, {}, {}) /\ Leases(DuplicateProbe, {}, {})
    BY DEF DuplicateProbe, Claims, Leases
  <2> QED BY <2>1, <2>2, <2>3 DEF Part
<1>19. Part(FleetEnd,
          LateClaims \cup {"parent", "integration"}, {}, {},
          LateClaims, {}, {})
  <2>1. Fits(FleetEnd, LateClaims \cup {"parent", "integration"}, {}, {})
    BY DEF FleetEnd, Fits, StepFits, Dependants, RecordSteps, RecordOps, ObjectSteps
  <2>2. Makes(FleetEnd, LateClaims \cup {"parent", "integration"}, LateClaims)
    BY DEF FleetEnd, Makes
  <2>3. Claims(FleetEnd, {}, {}) /\ Leases(FleetEnd, {}, {})
    BY DEF FleetEnd, Claims, Leases
  <2> QED BY <2>1, <2>2, <2>3 DEF Part
<1>20. Part(AlertProbe,
          LateClaims, {}, {},
          LateClaims \cup {"alert_index", "alert_rule"}, {"alert_index", "alert_rule"}, {})
  <2>1. Fits(AlertProbe, LateClaims, {}, {})
    BY DEF AlertProbe, Fits, StepFits, Dependants, RecordSteps, RecordOps, ObjectSteps
  <2>2. Makes(AlertProbe, LateClaims, LateClaims \cup {"alert_index", "alert_rule"})
    BY DEF AlertProbe, Makes
  <2>3. Claims(AlertProbe, {}, {"alert_index", "alert_rule"}) /\ Leases(AlertProbe, {}, {})
    BY DEF AlertProbe, Claims, Leases
  <2> QED BY <2>1, <2>2, <2>3 DEF Part
<1>21. Part(TriageProbe,
          LateClaims \cup {"alert_index", "alert_rule"}, {"alert_index", "alert_rule"}, {},
          LateClaims \cup {"alert_index", "alert_rule"}, {"alert_index", "alert_rule"}, {})
  <2>1. Fits(TriageProbe, LateClaims
          \cup {"alert_index", "alert_rule"}, {"alert_index", "alert_rule"}, {})
    BY DEF TriageProbe, Fits, StepFits, Dependants, RecordSteps, RecordOps, ObjectSteps
  <2>2. Makes(TriageProbe, LateClaims \cup {"alert_index", "alert_rule"}, LateClaims
          \cup {"alert_index", "alert_rule"})
    BY DEF TriageProbe, Makes
  <2>3. Claims(TriageProbe, {"alert_index", "alert_rule"}, {"alert_index", "alert_rule"})
          /\ Leases(TriageProbe, {}, {})
    BY DEF TriageProbe, Claims, Leases
  <2> QED BY <2>1, <2>2, <2>3 DEF Part
<1>22. Part(CaseProbe,
          LateClaims \cup {"alert_index", "alert_rule"}, {"alert_index", "alert_rule"}, {},
          LateClaims \cup {"alert_index", "alert_rule", "case"}, {"alert_index",
            "alert_rule", "case"}, {})
  <2>1. Fits(CaseProbe, LateClaims
          \cup {"alert_index", "alert_rule"}, {"alert_index", "alert_rule"}, {})
    BY DEF CaseProbe, Fits, StepFits, Dependants, RecordSteps, RecordOps, ObjectSteps
  <2>2. Makes(CaseProbe, LateClaims \cup {"alert_index", "alert_rule"}, LateClaims
          \cup {"alert_index", "alert_rule", "case"})
    BY DEF CaseProbe, Makes
  <2>3. Claims(CaseProbe, {"alert_index", "alert_rule"}, {"alert_index", "alert_rule",
          "case"}) /\ Leases(CaseProbe, {}, {})
    BY DEF CaseProbe, Claims, Leases
  <2> QED BY <2>1, <2>2, <2>3 DEF Part
<1>23. Part(CaseEnd,
          LateClaims \cup {"alert_index", "alert_rule", "case"}, {"alert_index",
            "alert_rule", "case"}, {},
          LateClaims \cup {"alert_index", "alert_rule"}, {"alert_index", "alert_rule"}, {})
  <2>1. Fits(CaseEnd, LateClaims
          \cup {"alert_index", "alert_rule", "case"}, {"alert_index", "alert_rule",
            "case"}, {})
    BY DEF CaseEnd, Fits, StepFits, Dependants, RecordSteps, RecordOps, ObjectSteps
  <2>2. Makes(CaseEnd, LateClaims \cup {"alert_index", "alert_rule", "case"}, LateClaims
          \cup {"alert_index", "alert_rule"})
    BY DEF CaseEnd, Makes
  <2>3. Claims(CaseEnd, {"alert_index", "alert_rule", "case"}, {"alert_index",
          "alert_rule"}) /\ Leases(CaseEnd, {}, {})
    BY DEF CaseEnd, Claims, Leases
  <2> QED BY <2>1, <2>2, <2>3 DEF Part
<1>24. Part(AlertEnd,
          LateClaims \cup {"alert_index", "alert_rule"}, {"alert_index", "alert_rule"}, {},
          LateClaims \cup {"alert_index", "alert_rule"}, {"alert_index", "alert_rule"}, {})
  <2>1. Fits(AlertEnd, LateClaims
          \cup {"alert_index", "alert_rule"}, {"alert_index", "alert_rule"}, {})
    BY DEF AlertEnd, Fits, StepFits, Dependants, RecordSteps, RecordOps, ObjectSteps
  <2>2. Makes(AlertEnd, LateClaims \cup {"alert_index", "alert_rule"}, LateClaims
          \cup {"alert_index", "alert_rule"})
    BY DEF AlertEnd, Makes
  <2>3. Claims(AlertEnd, {"alert_index", "alert_rule"}, {"alert_index", "alert_rule"})
          /\ Leases(AlertEnd, {}, {})
    BY DEF AlertEnd, Claims, Leases
  <2> QED BY <2>1, <2>2, <2>3 DEF Part
<1> QED BY <1>1, <1>2, <1>3, <1>4, <1>5, <1>6, <1>7, <1>8, <1>9, <1>10, <1>11, <1>12, <1>13,
       <1>14, <1>15, <1>16, <1>17, <1>18, <1>19, <1>20, <1>21, <1>22, <1>23, <1>24

\* The whole script relies on nothing but an empty start.
LEMMA ScriptIsPart ==
    Part(Script, {}, {}, {},
            LateClaims \cup {"alert_index", "alert_rule"}, {"alert_index", "alert_rule"}, {})
<1> DEFINE s1 == Preflight
<1> DEFINE s2 == s1 \o RuleProbe
<1> DEFINE s3 == s2 \o PreviewProbe
<1> DEFINE s4 == s3 \o BundleProbe
<1> DEFINE s5 == s4 \o SearchProbe
<1> DEFINE s6 == s5 \o SourceProbe
<1> DEFINE s7 == s6 \o SourceMeasures
<1> DEFINE s8 == s7 \o DefaultProbe
<1> DEFINE s9 == s8 \o SwapProbe
<1> DEFINE s10 == s9 \o LossProbe
<1> DEFINE s11 == s10 \o DashboardProbe
<1> DEFINE s12 == s11 \o ImportProbe
<1> DEFINE s13 == s12 \o PolicyProbe
<1> DEFINE s14 == s13 \o PolicyEnd
<1> DEFINE s15 == s14 \o ParentProbe
<1> DEFINE s16 == s15 \o BootstrapProbe
<1> DEFINE s17 == s16 \o IntegrationProbe
<1> DEFINE s18 == s17 \o DuplicateProbe
<1> DEFINE s19 == s18 \o FleetEnd
<1> DEFINE s20 == s19 \o AlertProbe
<1> DEFINE s21 == s20 \o TriageProbe
<1> DEFINE s22 == s21 \o CaseProbe
<1> DEFINE s23 == s22 \o CaseEnd
<1> DEFINE s24 == s23 \o AlertEnd
<1>1. Part(s2,
          {}, {}, {},
          {"list", "item", "rule"}, {}, {})
  BY ScriptParts, PartJoin
<1>2. Part(s3,
          {}, {}, {},
          {"list", "item", "rule", "scratch_index"}, {}, {})
  <2> HIDE DEF s2
  <2> QED BY <1>1, ScriptParts, PartJoin
<1>3. Part(s4,
          {}, {}, {},
          {"list", "item", "rule", "scratch_index"}, {}, {})
  <2> HIDE DEF s3
  <2> QED BY <1>2, ScriptParts, PartJoin
<1>4. Part(s5,
          {}, {}, {},
          LateClaims, {}, {})
  <2> HIDE DEF s4
  <2> QED BY <1>3, ScriptParts, PartJoin
<1>5. Part(s6,
          {}, {}, {},
          LateClaims \cup {"data_view_index", "source"}, {"data_view_index",
            "source"}, {"source"})
  <2> HIDE DEF s5
  <2> QED BY <1>4, ScriptParts, PartJoin
<1>6. Part(s7,
          {}, {}, {},
          LateClaims \cup {"data_view_index", "source"}, {"data_view_index",
            "source"}, {"source"})
  <2> HIDE DEF s6
  <2> QED BY <1>5, ScriptParts, PartJoin
<1>7. Part(s8,
          {}, {}, {},
          LateClaims \cup {"data_view_index", "source"}, {"data_view_index",
            "source"}, {"source"})
  <2> HIDE DEF s7
  <2> QED BY <1>6, ScriptParts, PartJoin
<1>8. Part(s9,
          {}, {}, {},
          LateClaims, {}, {})
  <2> HIDE DEF s8
  <2> QED BY <1>7, ScriptParts, PartJoin
<1>9. Part(s10,
          {}, {}, {},
          LateClaims \cup {"companion"}, {"dashboard", "companion"}, {})
  <2> HIDE DEF s9
  <2> QED BY <1>8, ScriptParts, PartJoin
<1>10. Part(s11,
          {}, {}, {},
          LateClaims \cup {"companion", "dashboard"}, {"dashboard", "companion"}, {})
  <2> HIDE DEF s10
  <2> QED BY <1>9, ScriptParts, PartJoin
<1>11. Part(s12,
          {}, {}, {},
          LateClaims, {}, {})
  <2> HIDE DEF s11
  <2> QED BY <1>10, ScriptParts, PartJoin
<1>12. Part(s13,
          {}, {}, {},
          LateClaims \cup {"policy"}, {"policy"}, {})
  <2> HIDE DEF s12
  <2> QED BY <1>11, ScriptParts, PartJoin
<1>13. Part(s14,
          {}, {}, {},
          LateClaims, {}, {})
  <2> HIDE DEF s13
  <2> QED BY <1>12, ScriptParts, PartJoin
<1>14. Part(s15,
          {}, {}, {},
          LateClaims \cup {"parent"}, {}, {})
  <2> HIDE DEF s14
  <2> QED BY <1>13, ScriptParts, PartJoin
<1>15. Part(s16,
          {}, {}, {},
          LateClaims \cup {"parent"}, {}, {})
  <2> HIDE DEF s15
  <2> QED BY <1>14, ScriptParts, PartJoin
<1>16. Part(s17,
          {}, {}, {},
          LateClaims \cup {"parent", "integration"}, {}, {})
  <2> HIDE DEF s16
  <2> QED BY <1>15, ScriptParts, PartJoin
<1>17. Part(s18,
          {}, {}, {},
          LateClaims \cup {"parent", "integration"}, {}, {})
  <2> HIDE DEF s17
  <2> QED BY <1>16, ScriptParts, PartJoin
<1>18. Part(s19,
          {}, {}, {},
          LateClaims, {}, {})
  <2> HIDE DEF s18
  <2> QED BY <1>17, ScriptParts, PartJoin
<1>19. Part(s20,
          {}, {}, {},
          LateClaims \cup {"alert_index", "alert_rule"}, {"alert_index", "alert_rule"}, {})
  <2> HIDE DEF s19
  <2> QED BY <1>18, ScriptParts, PartJoin
<1>20. Part(s21,
          {}, {}, {},
          LateClaims \cup {"alert_index", "alert_rule"}, {"alert_index", "alert_rule"}, {})
  <2> HIDE DEF s20
  <2> QED BY <1>19, ScriptParts, PartJoin
<1>21. Part(s22,
          {}, {}, {},
          LateClaims \cup {"alert_index", "alert_rule", "case"}, {"alert_index",
            "alert_rule", "case"}, {})
  <2> HIDE DEF s21
  <2> QED BY <1>20, ScriptParts, PartJoin
<1>22. Part(s23,
          {}, {}, {},
          LateClaims \cup {"alert_index", "alert_rule"}, {"alert_index", "alert_rule"}, {})
  <2> HIDE DEF s22
  <2> QED BY <1>21, ScriptParts, PartJoin
<1>23. Part(s24,
          {}, {}, {},
          LateClaims \cup {"alert_index", "alert_rule"}, {"alert_index", "alert_rule"}, {})
  <2> HIDE DEF s23
  <2> QED BY <1>22, ScriptParts, PartJoin
<1> QED BY <1>23 DEF Script

-----------------------------------------------------------------------------
(* The facts of the script and of the sweep that the actions use.            *)

\* Step k of the whole script finds what it relies on.
RecordFits(k) ==
    LET x == Script[k]
    IN  /\ x \in RecordSteps
        /\ x.op \in {"delete", "drop"} => Made(k, x.r) /\ \A d \in Dependants(x.r) :
             ~Made(k, d)
        /\ x.op \in {"create", "write", "conflict"} /\ x.r \notin LateClaims \cup Fleet =>
             Claimed(k, x.r)
        /\ x.op \in {"create", "write"} /\ x.r \in {"source", "replacement"} => LeaseTaken(k)
        /\ x.op = "default" => LeaseTaken(k)
        /\ x.op = "snapshot" => ~LeaseTaken(k)
        /\ x.op = "write" /\ x.r \in LateClaims =>
             k < Len(Script) /\ Script[k + 1] = Do("prove", x.r)

\* Each step of the script finds what it relies on.
LEMMA ScriptFits ==
    /\ Len(Script) \in Nat \ {0}
    /\ \A k \in 1..Len(Script) : RecordFits(k)
<1>1. /\ Script \in Seq(RecordSteps)
      /\ \A k \in 1..Len(Script) : StepFits(Script, {}, {}, {}, k)
  BY ScriptIsPart DEF Part, Fits
<1>2. /\ \A k, r : MadeIn(Script, {}, k, r) <=> Made(k, r)
      /\ \A k, r : ClaimedIn(Script, {}, k, r) <=> Claimed(k, r)
      /\ \A k : LeasedIn(Script, {}, k) <=> LeaseTaken(k)
  BY DEF MadeIn, Made, ClaimedIn, Claimed, LeasedIn, LeaseTaken, Since
<1>3. Len(Script) # 0
  <2>1. Script # << >>
    <3>1. Script # << >> \/ "list" \in LateClaims \cup {"alert_index", "alert_rule"}
      BY DEF LateClaims
    <3>2. MadeIn(Script, {}, Len(Script) + 1, "list")
      BY ScriptIsPart DEF Part, Makes, Objects, LateClaims
    <3>3. Script = << >> => Len(Script) + 1 = 1
      OBVIOUS
    <3> QED BY <3>2, <3>3 DEF MadeIn, Since
  <2> QED BY <1>1, <2>1
<1>4. ASSUME NEW k \in 1..Len(Script) PROVE RecordFits(k)
  <2>1. Script[k] \in RecordSteps
    BY <1>1
  <2> QED BY <1>1, <1>2, <2>1 DEF StepFits, RecordFits
<1> QED BY <1>1, <1>3, <1>4

\* One more step: what Since says of it and of the steps before.
LEMMA SinceNext ==
    ASSUME NEW s, NEW k \in Nat \ {0}, NEW on, NEW off
    PROVE  Since(s, FALSE, k + 1, on, off) <=>
             s[k] \in on \/ (s[k] \notin off /\ Since(s, FALSE, k, on, off))
<1>1. (k + 1) - 1 = k /\ k \in 1..k /\ \A i \in 1..(k - 1) : i \in 1..k /\ k \in (i + 1)..k
  OBVIOUS
<1>2. \A i \in 1..(k - 1) : \A j \in (i + 1)..k : j \in (i + 1)..(k - 1) \/ j = k
  OBVIOUS
<1>3. \A i \in 1..k : i \in 1..(k - 1) \/ i = k
  OBVIOUS
<1>4. \A i \in 1..(k - 1) : \A j \in (i + 1)..(k - 1) : j \in (i + 1)..k
  OBVIOUS
<1>5. \A j \in (k + 1)..k : FALSE
  OBVIOUS
<1>6. ASSUME Since(s, FALSE, k + 1, on, off)
      PROVE  s[k] \in on \/ (s[k] \notin off /\ Since(s, FALSE, k, on, off))
  <2>1. PICK i \in 1..k : s[i] \in on /\ \A j \in (i + 1)..k : s[j] \notin off
    BY <1>1, <1>6 DEF Since
  <2>2. CASE i = k
    BY <2>1, <2>2
  <2>3. CASE i \in 1..(k - 1)
    <3>1. s[k] \notin off /\ \A j \in (i + 1)..(k - 1) : s[j] \notin off
      BY <1>1, <1>4, <2>1, <2>3
    <3> QED BY <2>1, <2>3, <3>1 DEF Since
  <2> QED BY <1>3, <2>2, <2>3
<1>7. ASSUME s[k] \in on PROVE Since(s, FALSE, k + 1, on, off)
  <2>1. \E i \in 1..k : s[i] \in on /\ \A j \in (i + 1)..k : s[j] \notin off
    BY <1>1, <1>5, <1>7
  <2> QED BY <1>1, <2>1 DEF Since
<1>8. ASSUME s[k] \notin off, Since(s, FALSE, k, on, off)
      PROVE  Since(s, FALSE, k + 1, on, off)
  <2>1. PICK i \in 1..(k - 1) : s[i] \in on /\ \A j \in (i + 1)..(k - 1) : s[j] \notin off
    BY <1>8 DEF Since
  <2>2. \A j \in (i + 1)..k : s[j] \notin off
    BY <1>2, <1>8, <2>1
  <2>3. \E h \in 1..k : s[h] \in on /\ \A j \in (h + 1)..k : s[j] \notin off
    BY <1>1, <2>1, <2>2
  <2> QED BY <1>1, <2>3 DEF Since
<1> QED BY <1>6, <1>7, <1>8

\* What one step of the script adds to what is made, claimed and leased, and takes away.
LEMMA ScriptNext ==
    ASSUME NEW k \in 1..Len(Script), NEW r
    PROVE  LET x == Script[k]
           IN  /\ Made(k + 1, r) <=>
                    \/ x.op \in {"create", "write", "once"} /\ x.r = r
                    \/ ~(x.op \in {"delete", "drop"} /\ x.r = r) /\ Made(k, r)
               /\ Claimed(k + 1, r) <=>
                    \/ x.op \in {"claim", "lease"} /\ x.r = r
                    \/ ~(x.op = "gone" /\ x.r = r) /\ Claimed(k, r)
               /\ LeaseTaken(k + 1) <=> x.op = "lease" \/ (x.op # "restore" /\ LeaseTaken(k))
<1>1. Script[k] \in RecordSteps /\ k \in Nat \ {0}
  BY ScriptFits DEF RecordFits
<1>2. /\ Script[k] \in Making(r) <=> Script[k].op \in {"create", "write", "once"}
           /\ Script[k].r = r
      /\ Script[k] \in Deleting(r) <=> Script[k].op \in {"delete", "drop"} /\ Script[k].r = r
      /\ Script[k] \in Claiming(r) <=> Script[k].op \in {"claim", "lease"} /\ Script[k].r = r
      /\ Script[k] \in Releasing(r) <=> Script[k].op = "gone" /\ Script[k].r = r
      /\ Script[k] \in Leasing <=> Script[k].op = "lease"
      /\ Script[k] \in Restoring <=> Script[k].op = "restore"
  BY <1>1 DEF RecordSteps, Making, Deleting, Claiming, Releasing, Leasing, Restoring
<1>3. /\ Made(k + 1, r) <=> \/ Script[k] \in Making(r)
                            \/ Script[k] \notin Deleting(r) /\ Made(k, r)
      /\ Claimed(k + 1, r) <=> \/ Script[k] \in Claiming(r)
                               \/ Script[k] \notin Releasing(r) /\ Claimed(k, r)
      /\ LeaseTaken(k + 1) <=> \/ Script[k] \in Leasing
                               \/ Script[k] \notin Restoring /\ LeaseTaken(k)
  BY <1>1, SinceNext DEF Made, Claimed, LeaseTaken
<1> QED BY <1>2, <1>3

\* The script begins with nothing.
LEMMA ScriptBegins ==
    /\ \A r : ~Made(1, r) /\ ~Claimed(1, r)
    /\ ~LeaseTaken(1)
BY DEF Made, Claimed, LeaseTaken, Since

\* What a \o b holds, first a and then b.
Joined(s, a, b) ==
    /\ Len(a) \in Nat /\ Len(b) \in Nat /\ Len(s) = Len(a) + Len(b)
    /\ \A k \in 1..Len(a) : s[k] = a[k]
    /\ \A k \in (Len(a) + 1)..(Len(a) + Len(b)) : s[k] = b[k - Len(a)]

\* A sequence of two parts holds both.
LEMMA JoinedIs ==
    ASSUME NEW R, NEW a \in Seq(R), NEW b \in Seq(R)
    PROVE  a \o b \in Seq(R) /\ Joined(a \o b, a, b)
BY DEF Joined

\* The step is among those of the sweep before k.
Before(k, step) == \E i \in 1..(k - 1) : Sweep[i] = step

\* The steps a sweep may have.
SweepSteps ==
    {s \in [op : {"remove", "restore", "audit", "still", "sweep"}, r :
      Objects \cup {"stack"}] :
        s.op \in {"remove", "still"} => s.r \in Objects}

\* The sweep restores the default and removes every object, each after its dependants,
\* and closes the alerts last.
LEMMA SweepFits ==
    /\ Len(Sweep) \in Nat \ {0}
    /\ \A k \in 1..Len(Sweep) : Sweep[k] \in SweepSteps
    /\ \A k \in 1..Len(Sweep) : Sweep[k].op # "sweep" => k < Len(Sweep)
    /\ Before(Len(Sweep), Do("restore", "stack"))
    /\ \A r \in Objects : Before(Len(Sweep), Do("remove", r))
    /\ \A k \in 1..Len(Sweep) :
         /\ Sweep[k] = Do("remove", "parent") =>
              \A d \in Integrations : Before(k, Do("remove", d))
         /\ Sweep[k] = Do("remove", "data_view_index") =>
              \A d \in Views : Before(k, Do("remove", d))
         /\ Sweep[k].op = "remove" /\ Sweep[k].r \in Views \cup {"data_view_index"} =>
              /\ Before(k, Do("restore", "stack"))
              /\ \A d \in Dashboards : Before(k, Do("remove", d))
<1> USE DEF Do, Objects, Indices, Views, Dashboards, Policies, Integrations, Fleet
<1>1. /\ Len(Sweep) = 24
      /\ Sweep[1] = Do("remove", "integration") /\ Sweep[2] = Do("remove", "integration_dup")
      /\ Sweep[3] = Do("remove", "parent") /\ Sweep[4] = Do("audit", "stack")
      /\ Sweep[5] = Do("restore", "stack") /\ Sweep[6] = Do("remove", "policy")
      /\ Sweep[7] = Do("remove", "policy_dup") /\ Sweep[8] = Do("remove", "dashboard")
      /\ Sweep[9] = Do("remove", "loss") /\ Sweep[10] = Do("remove", "source")
      /\ Sweep[11] = Do("remove", "replacement") /\ Sweep[12] = Do("remove", "companion")
      /\ Sweep[13] = Do("remove", "data_view_index") /\ Sweep[14] = Do("remove", "rule")
      /\ Sweep[15] = Do("remove", "item") /\ Sweep[16] = Do("remove", "list")
      /\ Sweep[17] = Do("remove", "scratch_index") /\ Sweep[18] = Do("remove", "search_index")
      /\ Sweep[19] = Do("remove", "alert_rule") /\ Sweep[20] = Do("remove", "alert_index")
      /\ Sweep[21] = Do("remove", "case") /\ Sweep[22] = Do("still", "alert_rule")
      /\ Sweep[23] = Do("still", "alert_index") /\ Sweep[24] = Do("sweep", "stack")
  <2> DEFINE a == FleetSweep \o ContentSweep
             b == a \o ProbeSweep
  <2>1. /\ FleetSweep \in Seq(SweepSteps) /\ ContentSweep \in Seq(SweepSteps)
        /\ ProbeSweep \in Seq(SweepSteps) /\ LastSweep \in Seq(SweepSteps)
    BY DEF FleetSweep, ContentSweep, ProbeSweep, LastSweep, SweepSteps
  <2>2. Len(FleetSweep) = 4 /\ Len(ContentSweep) = 9 /\ Len(ProbeSweep) = 7
          /\ Len(LastSweep) = 4
    BY DEF FleetSweep, ContentSweep, ProbeSweep, LastSweep
  <2>3. a \in Seq(SweepSteps) /\ Joined(a, FleetSweep, ContentSweep)
    BY <2>1, JoinedIs
  <2>4. Joined(a, FleetSweep, ContentSweep) /\ Joined(b, a, ProbeSweep)
          /\ Joined(Sweep, b, LastSweep)
    <3> HIDE DEF a
    <3>1. b \in Seq(SweepSteps) /\ Joined(b, a, ProbeSweep)
      BY <2>1, <2>3, JoinedIs
    <3> HIDE DEF b
    <3>2. Joined(b \o LastSweep, b, LastSweep)
      BY <2>1, <3>1, JoinedIs
    <3> QED BY <2>3, <3>1, <3>2 DEF a, b, Sweep
  <2> HIDE DEF a, b
  <2>5. /\ Len(a) = 13
        /\ \A k \in 1..4 : a[k] = FleetSweep[k]
        /\ \A k \in 5..13 : a[k] = ContentSweep[k - 4]
    BY <2>2, <2>4 DEF Joined
  <2>6. /\ Len(b) = 20
        /\ \A k \in 1..13 : b[k] = a[k]
        /\ \A k \in 14..20 : b[k] = ProbeSweep[k - 13]
    BY <2>2, <2>4, <2>5 DEF Joined
  <2>7. /\ Len(Sweep) = 24
        /\ \A k \in 1..20 : Sweep[k] = b[k]
        /\ \A k \in 21..24 : Sweep[k] = LastSweep[k - 20]
    BY <2>2, <2>4, <2>6 DEF Joined
  <2> HIDE DEF Do
  <2>9. Sweep[1] = FleetSweep[1] /\ Sweep[2] = FleetSweep[2] /\ Sweep[3] = FleetSweep[3]
          /\ Sweep[4] = FleetSweep[4]
    BY <2>5, <2>6, <2>7
  <2>10. Sweep[5] = ContentSweep[1] /\ Sweep[6] = ContentSweep[2]
           /\ Sweep[7] = ContentSweep[3] /\ Sweep[8] = ContentSweep[4]
                /\ Sweep[9] = ContentSweep[5] /\ Sweep[10] = ContentSweep[6]
                     /\ Sweep[11] = ContentSweep[7] /\ Sweep[12] = ContentSweep[8]
                          /\ Sweep[13] = ContentSweep[9]
    BY <2>5, <2>6, <2>7
  <2>11. Sweep[14] = ProbeSweep[1] /\ Sweep[15] = ProbeSweep[2]
           /\ Sweep[16] = ProbeSweep[3] /\ Sweep[17] = ProbeSweep[4]
                /\ Sweep[18] = ProbeSweep[5] /\ Sweep[19] = ProbeSweep[6]
                     /\ Sweep[20] = ProbeSweep[7]
    BY <2>5, <2>6, <2>7
  <2>12. Sweep[21] = LastSweep[1] /\ Sweep[22] = LastSweep[2] /\ Sweep[23] = LastSweep[3]
           /\ Sweep[24] = LastSweep[4]
    BY <2>5, <2>6, <2>7
  <2> QED BY <2>7, <2>9, <2>10, <2>11, <2>12 DEF FleetSweep, ContentSweep, ProbeSweep,
         LastSweep
<1>2. Len(Sweep) = 24 /\ \A k \in 1..24 : Sweep[k] \in SweepSteps
  BY <1>1 DEF SweepSteps
<1>3. \A k \in 1..24 : Sweep[k].op # "sweep" => k < 24
  BY <1>1
<1>4. \A i \in 1..23 : i \in 1..(24 - 1)
  OBVIOUS
<1>5. Before(24, Do("restore", "stack"))
  BY <1>1, <1>4 DEF Before
<1>6. \A r \in Objects : Before(24, Do("remove", r))
  BY <1>1, <1>4 DEF Before
<1>7. ASSUME NEW k \in 1..24
      PROVE  /\ Sweep[k] = Do("remove", "parent") => k = 3
             /\ Sweep[k] = Do("remove", "data_view_index") => k = 13
             /\ Sweep[k].op = "remove" /\ Sweep[k].r \in Views \cup {"data_view_index"} =>
                  k \in 10..13
  BY <1>1
<1>8. \A d \in Integrations : Before(3, Do("remove", d))
  BY <1>1 DEF Before
<1>9. \A d \in Views : Before(13, Do("remove", d))
  BY <1>1 DEF Before
<1>10. ASSUME NEW k \in 10..13
       PROVE  /\ Before(k, Do("restore", "stack"))
              /\ \A d \in Dashboards : Before(k, Do("remove", d))
  BY <1>1 DEF Before
<1> HIDE DEF Do, Objects, Views, Dashboards, Integrations
<1> QED BY <1>2, <1>3, <1>5, <1>6, <1>7, <1>8, <1>9, <1>10

-----------------------------------------------------------------------------
(* What IInv says of the stack and of what is held, wherever the program is.  *)

\* The types of the variables that are not Boolean and not the place in the program.
DataOK ==
    /\ there \in [Objects -> {"none", "marked", "foreign"} \cup Written]
    /\ own \subseteq Objects /\ claimed \subseteq Objects
    /\ lease \in [phase : {"none", "seen", "create", "explicit"},
                  was : Unset \cup Views \cup {"kept", "others"}]
    /\ default \in Unset \cup Views \cup {"kept", "others"}
    /\ mover \in {"session", "unseen", "seen"}
    /\ alerts \in {"none", "open", "closed"}
    /\ taken \subseteq Objects \X ({"marked", "foreign"} \cup Written)
    /\ faults \in 0..MaxFaults /\ edits \in 0..MaxEdits

\* The Boolean variables.
Flags == {armed, enabled, failed, errors, published} \subseteq BOOLEAN

\* The parts of IInv that do not depend on the place in the program.
Kept == DataOK /\ MineIsWhole /\ EarlyIsOwned /\ DefaultIsKept /\ ForeignSurvives

\* The places within one step.
Requests == {"first", "delete", "verify", "reread", "refused", "post", "check"}

\* IInv says all of this.
LEMMA KeptIs ==
    ASSUME IInv
    PROVE  Kept /\ Flags /\ at \in Requests
BY DEF IInv, TypeOK, Kept, DataOK, Flags, Requests

\* The step the program is at.
LEMMA Here ==
    ASSUME IInv
    PROVE  /\ phase = "record" =>
                /\ pc \in 1..Len(Script) /\ Steps = Script /\ RecordFits(pc)
                /\ Script[pc] \in RecordSteps
           /\ phase = "cleanup" =>
                /\ pc \in 1..Len(Sweep) /\ Steps = Sweep
                /\ Sweep[pc] \in SweepSteps
BY ScriptFits, SweepFits DEF IInv, TypeOK, Steps, RecordFits

\* An operation of the script alone is not one of cleanup.
LEMMA InRecord ==
    ASSUME IInv, NEW op \in RecordOps \ {"restore", "audit", "sweep"}, Doing(op)
    PROVE  /\ phase = "record" /\ pc \in 1..Len(Script) /\ Script[pc].op = op
           /\ Target = Script[pc].r /\ RecordFits(pc) /\ Script[pc] \in RecordSteps
           /\ op \in ObjectSteps => Target \in Objects
<1>1. phase = "record"
  <2>1. phase = "cleanup" => Sweep[pc].op = op /\ Sweep[pc] \in SweepSteps
    BY Here DEF Doing
  <2>2. op \notin {"remove", "restore", "audit", "still", "sweep"}
    BY DEF RecordOps, ObjectSteps
  <2> QED BY <2>1, <2>2 DEF Doing, Running, SweepSteps
<1> QED BY <1>1, Here DEF Doing, Target, RecordSteps

\* Where cleanup is, when it is at a step about an object.
LEMMA InCleanup ==
    ASSUME IInv, NEW op \in {"remove", "still"}, Doing(op)
    PROVE  /\ phase = "cleanup" /\ pc \in 1..Len(Sweep) /\ Sweep[pc] = Do(op, Target)
           /\ Target \in Objects
<1>1. phase = "cleanup"
  <2>1. phase = "record" => Script[pc].op = op /\ Script[pc] \in RecordSteps
    BY Here DEF Doing
  <2>2. op \notin RecordOps
    BY DEF RecordOps, ObjectSteps
  <2> QED BY <2>1, <2>2 DEF Doing, Running, RecordSteps
<1>2. pc \in 1..Len(Sweep) /\ Steps = Sweep /\ Sweep[pc] \in SweepSteps
  BY <1>1, Here
<1> QED BY <1>1, <1>2 DEF Doing, Target, SweepSteps, Do

-----------------------------------------------------------------------------
(* The ways on: an error, the next step, another request of the same step.    *)

\* After an error the recording goes to cleanup, and cleanup goes on.
LEMMA StopKeeps ==
    ASSUME IInv, Running, Stop, Kept', Flags', published' = published,
           ~failed' => \A r \in LateClaims \cup Fleet : there'[r] \in Written => r \in own'
    PROVE  IInv'
<1>1. /\ at' = "first" /\ phase' \in {"cleanup", "done"}
      /\ phase' = "done" => errors' = TRUE
      /\ phase' = "cleanup" => pc' \in 1..Len(Sweep) /\ (pc' = 1 \/ errors' = TRUE)
      /\ phase' = "done" => pc' = 1
  BY Here, SweepFits DEF Running, Stop
<1>2. published' = FALSE
  <2>1. published = FALSE
    BY DEF IInv, PublishedIsClean, TypeOK, Running
  <2> QED BY <2>1
<1>3. TypeOK'
  BY <1>1, SweepFits DEF TypeOK, Kept, DataOK, Flags, Steps
<1>4. (DoubtIsACreate /\ MadeIsThere /\ OnlyMadeIsThere /\ ClaimedIsOwned /\ LeaseIsHeld)'
  BY <1>1 DEF DoubtIsACreate, MadeIsThere, OnlyMadeIsThere, ClaimedIsOwned, LeaseIsHeld
<1>5. LateIsOwned'
  BY DEF LateIsOwned
<1>6. (RestoreIsDue /\ LookedAt)'
  BY <1>1 DEF RestoreIsDue, LookedAt
<1>7. SweptIsGone'
  BY <1>1 DEF SweptIsGone, Swept
<1>8. PublishedIsClean'
  BY <1>1, <1>2 DEF PublishedIsClean
<1> QED BY <1>3, <1>4, <1>5, <1>6, <1>7, <1>8 DEF IInv, Kept

\* A step of the script that went well has made, deleted, claimed and leased what it says.
LEMMA RecordGoesOn ==
    ASSUME IInv, phase = "record", at # "reread", Continue, Kept', Flags',
           published' = published, NEW x, x = Script[pc],
           \A r \in Objects \ {x.r} : there'[r] = there[r],
           x.op \in {"create", "write", "once"} => there'[x.r] \in Written,
           x.op \in {"delete", "drop"} => there'[x.r] \notin Written \/ x.r = "case",
           x.op \notin {"create", "write", "once", "delete", "drop"} /\ x.r \in Objects =>
             there'[x.r] = there[x.r],
           \A r \in Objects \ {x.r} : r \in own => r \in own',
           x.op # "gone" /\ x.r \in own /\ x.r \notin Fleet => x.r \in own',
           x.op \in {"claim", "lease"} => x.r \in own',
           x.op = "lease" => Leased',
           x.op # "restore" /\ LeaseTaken(pc) /\ Leased => Leased',
           \A r \in LateClaims \cup Fleet :
             ~failed /\ there'[r] \in Written =>
               r \in own' \/ (pc < Len(Script) /\ Script[pc + 1] = Do("prove", r))
    PROVE  IInv'
<1>1. /\ pc \in 1..Len(Script) /\ Steps = Script /\ x \in RecordSteps /\ Len(Script) \in Nat
      /\ at' = "first" /\ failed' = failed /\ errors' = errors
      /\ \/ pc < Len(Script) /\ pc' = pc + 1 /\ phase' = "record"
         \/ pc' = 1 /\ phase' = "cleanup"
  BY Here, ScriptFits DEF Continue, Go
<1>2. published' = FALSE
  <2>1. published = FALSE
    BY DEF IInv, PublishedIsClean, TypeOK
  <2> QED BY <2>1
<1>3. TypeOK'
  BY <1>1, SweepFits DEF TypeOK, Kept, DataOK, Flags, Steps
<1>4. ASSUME phase' = "record"
      PROVE  (MadeIsThere /\ OnlyMadeIsThere /\ ClaimedIsOwned /\ LeaseIsHeld)'
  <2>1. pc' = pc + 1
    BY <1>1, <1>4
  <2>2. ASSUME NEW r \in Objects, Made(pc + 1, r) PROVE there'[r] \in Written
    <3>1. \/ x.op \in {"create", "write", "once"} /\ x.r = r
          \/ ~(x.op \in {"delete", "drop"} /\ x.r = r) /\ Made(pc, r)
      BY <1>1, <2>2, ScriptNext
    <3>2. CASE x.r # r
      <4>1. Made(pc, r)
        BY <3>1, <3>2
      <4>2. there[r] \in Written
        BY <1>1, <3>2, <4>1 DEF IInv, MadeIsThere, Target
      <4> QED BY <3>2, <4>2
    <3>3. CASE x.r = r /\ x.op \notin {"create", "write", "once"}
      <4>1. Made(pc, r) /\ x.op \notin {"delete", "drop"}
        BY <3>1, <3>3
      <4>2. there[r] \in Written
        BY <1>1, <3>3, <4>1 DEF IInv, MadeIsThere, Doing
      <4> QED BY <3>3, <4>1, <4>2
    <3> QED BY <3>2, <3>3
  <2>3. ASSUME NEW r \in Objects \ {"case"}, there'[r] \in Written PROVE Made(pc + 1, r)
    <3>1. CASE x.r = r /\ x.op \in {"create", "write", "once"}
      BY <1>1, <3>1, ScriptNext
    <3>2. CASE ~(x.r = r /\ x.op \in {"create", "write", "once"})
      <4>1. there'[r] = there[r] /\ ~(x.op \in {"delete", "drop"} /\ x.r = r)
        BY <2>3, <3>2
      <4>2. Made(pc, r)
        BY <2>3, <4>1 DEF IInv, OnlyMadeIsThere, Uncertain
      <4> QED BY <1>1, <4>1, <4>2, ScriptNext
    <3> QED BY <3>1, <3>2
  <2>4. ASSUME NEW r \in Objects \ Fleet, Claimed(pc + 1, r) PROVE r \in own'
    <3>1. \/ x.op \in {"claim", "lease"} /\ x.r = r
          \/ ~(x.op = "gone" /\ x.r = r) /\ Claimed(pc, r)
      BY <1>1, <2>4, ScriptNext
    <3> QED BY <3>1 DEF IInv, ClaimedIsOwned
  <2>5. LeaseTaken(pc + 1) => Leased'
    <3>1. LeaseTaken(pc + 1) => x.op = "lease" \/ (x.op # "restore" /\ LeaseTaken(pc))
      BY <1>1, ScriptNext
    <3> QED BY <3>1 DEF IInv, LeaseIsHeld
  <2> QED BY <2>1, <2>2, <2>3, <2>4, <2>5
             DEF MadeIsThere, OnlyMadeIsThere, ClaimedIsOwned, LeaseIsHeld, Made, Claimed,
                 LeaseTaken
<1>5. phase' # "record" => (MadeIsThere /\ OnlyMadeIsThere /\ ClaimedIsOwned /\ LeaseIsHeld)'
  BY DEF MadeIsThere, OnlyMadeIsThere, ClaimedIsOwned, LeaseIsHeld
<1>6. LateIsOwned'
  <2>1. CASE phase' = "record"
    <3>1. pc' = pc + 1 /\ Steps' = Script
      BY <1>1, <2>1 DEF Steps
    <3>2. ASSUME NEW r, Script[pc + 1] = Do("prove", r)
          PROVE  r = Target' /\ Doing("prove")'
      <4>1. Steps'[pc'].op = "prove" /\ Steps'[pc'].r = r
        BY <3>1, <3>2 DEF Do
      <4> QED BY <2>1, <4>1 DEF Doing, Running, Target
    <3>3. ASSUME ~failed', NEW r \in LateClaims \cup Fleet, there'[r] \in Written
          PROVE  r \in own' \/ (r = Target' /\ Doing("prove")')
      BY <1>1, <3>2, <3>3
    <3> QED BY <2>1, <3>3 DEF LateIsOwned
  <2>2. CASE phase' = "cleanup"
    <3>1. pc = Len(Script)
      BY <1>1, <2>2 DEF Continue, Go
    <3> QED BY <1>1, <3>1 DEF LateIsOwned
  <2> QED BY <1>1, <2>1, <2>2
<1>7. (DoubtIsACreate /\ RestoreIsDue /\ LookedAt)'
  BY <1>1 DEF DoubtIsACreate, RestoreIsDue, LookedAt
<1>8. SweptIsGone'
  BY <1>1 DEF SweptIsGone, Swept
<1>9. PublishedIsClean'
  BY <1>1, <1>2 DEF PublishedIsClean
<1> QED BY <1>3, <1>4, <1>5, <1>6, <1>7, <1>8, <1>9 DEF IInv, Kept

\* A step of cleanup that went well has given up what it says, and nothing else is taken.
LEMMA CleanupGoesOn ==
    ASSUME IInv, phase = "cleanup", Continue, Kept', Flags', published' = published,
           NEW x, x = Sweep[pc],
           ~failed => \A r \in LateClaims \cup Fleet : there'[r] \in Written => r \in own',
           own' \subseteq own, Leased' => Leased,
           there'["case"] \in Written => there["case"] \in Written,
           ~errors /\ x.op = "restore" => ~Leased',
           ~errors /\ x.op = "remove" =>
             x.r \notin own' \/ (x.r = "case" /\ there'["case"] \notin Written),
           x.op = "sweep" => alerts' # "open"
    PROVE  IInv'
<1>1. /\ pc \in 1..Len(Sweep) /\ Steps = Sweep /\ x \in SweepSteps /\ Len(Sweep) \in Nat
      /\ at' = "first" /\ failed' = failed /\ errors' = errors
      /\ \/ pc < Len(Sweep) /\ pc' = pc + 1 /\ phase' = "cleanup"
         \/ pc = Len(Sweep) /\ x.op = "sweep" /\ pc' = 1
            /\ phase' = IF failed \/ errors THEN "done" ELSE "write"
  BY Here, SweepFits DEF Continue, Go
<1>2. published' = FALSE
  <2>1. published = FALSE
    BY DEF IInv, PublishedIsClean, TypeOK
  <2> QED BY <2>1
<1>3. TypeOK'
  <2>1. phase' \in {"cleanup", "write", "done"} /\ pc' \in 1..Len(Sweep)
    BY <1>1, SweepFits
  <2> QED BY <1>1, <2>1 DEF TypeOK, Kept, DataOK, Flags, Steps
<1>4. phase' # "record"
  BY <1>1
<1>5. (MadeIsThere /\ OnlyMadeIsThere /\ ClaimedIsOwned /\ LeaseIsHeld)'
  BY <1>4 DEF MadeIsThere, OnlyMadeIsThere, ClaimedIsOwned, LeaseIsHeld
<1>6. LateIsOwned'
  BY <1>1 DEF LateIsOwned
<1>7. (DoubtIsACreate /\ RestoreIsDue /\ LookedAt)'
  BY <1>1 DEF DoubtIsACreate, RestoreIsDue, LookedAt
<1>8. SweptIsGone'
  <2>1. ASSUME ~errors, NEW step \in SweepSteps, Before(pc, step) \/ step = x
        PROVE  /\ step = Do("restore", "stack") => ~Leased'
               /\ step.op = "remove" =>
                    step.r \notin own' \/ (step.r = "case" /\ there'["case"] \notin Written)
    <3>1. CASE step = x
      BY <2>1, <3>1 DEF Do
    <3>2. CASE Before(pc, step)
      <4>1. Swept(step)
        BY <3>2 DEF Swept, Before
      <4>2. step.op = "remove" => step = Do("remove", step.r) /\ step.r \in Objects
        BY DEF SweepSteps, Do
      <4>3. /\ step = Do("restore", "stack") => ~Leased
            /\ step.op = "remove" =>
                 step.r \notin own \/ (step.r = "case" /\ there["case"] \notin Written)
        BY <2>1, <4>1, <4>2 DEF IInv, SweptIsGone
      <4> QED BY <4>3
    <3> QED BY <2>1, <3>1, <3>2
  <2>2. /\ Do("restore", "stack") \in SweepSteps
        /\ \A r \in Objects : /\ Do("remove", r) \in SweepSteps
                              /\ Do("remove", r).op = "remove" /\ Do("remove", r).r = r
    BY DEF SweepSteps, Do
  <2>3. CASE pc < Len(Sweep)
    <3>1. ASSUME NEW step, Swept(step)' PROVE Before(pc, step) \/ step = x
      <4>1. PICK i \in 1..pc : Sweep[i] = step
        BY <1>1, <2>3, <3>1 DEF Swept
      <4>2. i \in 1..(pc - 1) \/ i = pc
        BY <1>1
      <4> QED BY <4>1, <4>2 DEF Before
    <3> QED BY <1>1, <2>1, <2>2, <3>1 DEF SweptIsGone
  <2>4. CASE pc = Len(Sweep)
    <3>1. Before(pc, Do("restore", "stack")) /\ \A r \in Objects : Before(pc, Do("remove", r))
      BY <2>4, SweepFits
    <3> QED BY <1>1, <2>1, <2>2, <3>1 DEF SweptIsGone
  <2> QED BY <1>1, <2>3, <2>4
<1>9. PublishedIsClean'
  BY <1>1, <1>2 DEF PublishedIsClean
<1> QED BY <1>3, <1>5, <1>6, <1>7, <1>8, <1>9 DEF IInv, Kept

\* Another request of the same step, when nothing is made, deleted or given up, and a step
\* of other clients.
LEMMA SameStepKeeps ==
    ASSUME IInv, Kept', Flags', at' \in Requests,
           UNCHANGED <<phase, pc, there, own, lease, failed, errors, published>>,
           at' = at \/ (~Doing("drop") /\ at # "reread"),
           at' = "reread" => at = "reread",
           Doing("restore") /\ at' = "post" =>
             Leased /\ (Restorable(lease, default') \/ mover' = "unseen"),
           Doing("remove") /\ at' = "delete" =>
             /\ there[Target] # "none" /\ Proves(Target, there[Target]) /\ Due(Target)
             /\ Target = "parent" => ~Attached,
           alerts' = alerts \/ Running
    PROVE  IInv'
<1>1. /\ Steps' = Steps /\ Target' = Target
      /\ Running' <=> Running
      /\ Leased' <=> Leased
      /\ Attached' <=> Attached
  BY DEF Steps, Target, Running, Leased, Attached
<1>2. TypeOK'
  <2>1. phase \in {"record", "cleanup", "write", "done"} /\ pc \in 1..Len(Steps)
    BY DEF IInv, TypeOK
  <2>2. phase' \in {"record", "cleanup", "write", "done"} /\ pc' \in 1..Len(Steps')
    BY <1>1, <2>1
  <2> QED BY <2>2 DEF TypeOK, Kept, DataOK, Flags, Requests
<1>3. (DoubtIsACreate /\ MadeIsThere /\ OnlyMadeIsThere)'
  <2>1. DoubtIsACreate'
    BY DEF IInv, DoubtIsACreate, Doing, Running, Steps
  <2>2. MadeIsThere'
    BY DEF IInv, MadeIsThere, Made, Doing, Running, Steps, Target
  <2>3. OnlyMadeIsThere'
    BY DEF IInv, OnlyMadeIsThere, Uncertain, Made, Steps, Target
  <2> QED BY <2>1, <2>2, <2>3
<1>4. (ClaimedIsOwned /\ LeaseIsHeld)'
  BY <1>1 DEF IInv, ClaimedIsOwned, LeaseIsHeld, Claimed, LeaseTaken
<1>5. LateIsOwned'
  BY DEF IInv, LateIsOwned, Doing, Running, Steps, Target
<1>6. RestoreIsDue'
  BY <1>1 DEF RestoreIsDue, Doing, Running, Steps
<1>7. LookedAt'
  <2>1. Doing("remove")' => Doing("remove")
    BY DEF Doing, Running, Steps
  <2> QED BY <1>1, <2>1 DEF LookedAt, Due, Attached, Leased
<1>8. SweptIsGone'
  BY <1>1 DEF IInv, SweptIsGone, Swept
<1>9. PublishedIsClean'
  BY DEF IInv, PublishedIsClean, Running
<1> QED BY <1>2, <1>3, <1>4, <1>5, <1>6, <1>7, <1>8, <1>9 DEF IInv, Kept

\* What a step does to them.
Flips ==
    /\ (failed' = failed \/ failed' = TRUE)
    /\ (errors' = errors \/ errors' = TRUE)
    /\ (published' = published \/ published' = TRUE)
    /\ (armed' = armed \/ armed' = TRUE \/ armed' = FALSE)
    /\ enabled' \in BOOLEAN

\* Writing an object starts a rule or not.
LEMMA PutFlips ==
    ASSUME NEW r, NEW v, Put(r, v)
    PROVE  enabled' \in BOOLEAN
BY Zenon DEF Put

\* Deleting an object stops a rule or not.
LEMMA TakeFlips ==
    ASSUME NEW r, Take(r)
    PROVE  enabled' \in BOOLEAN
BY Zenon DEF Take

\* An error of a part of the program is remembered.
LEMMA StopFlips ==
    ASSUME Stop
    PROVE  (failed' = failed \/ failed' = TRUE) /\ (errors' = errors \/ errors' = TRUE)
BY DEF Stop

\* Every step keeps the Boolean variables Boolean.
LEMMA FlagsNext ==
    ASSUME Flags, Next
    PROVE  Flags'
<1> SUFFICES Flips
  BY Zenon DEF Flags, Flips
<1>1. armed \in BOOLEAN /\ enabled \in BOOLEAN
  BY DEF Flags
<1> USE DEF Continue, Then, stack, held
<1>2. CASE RequireAbsent
  BY <1>1, <1>2, PutFlips, TakeFlips, StopFlips, Zenon DEF RequireAbsent, Flips
<1>3. CASE Unclaimed
  BY <1>1, <1>3, PutFlips, TakeFlips, StopFlips, Zenon DEF Unclaimed, Flips
<1>4. CASE Claim
  BY <1>1, <1>4, PutFlips, TakeFlips, StopFlips, Zenon DEF Claim, Flips
<1>5. CASE Create
  BY <1>1, <1>5, PutFlips, TakeFlips, StopFlips, Zenon DEF Create, Flips
<1>6. CASE Write
  BY <1>1, <1>6, PutFlips, TakeFlips, StopFlips, Zenon DEF Write, Flips
<1>7. CASE Prove
  BY <1>1, <1>7, PutFlips, TakeFlips, StopFlips, Zenon DEF Prove, Flips
<1>8. CASE Use
  BY <1>1, <1>8, PutFlips, TakeFlips, StopFlips, Zenon DEF Use, Flips
<1>9. CASE Delete
  BY <1>1, <1>9, PutFlips, TakeFlips, StopFlips, Zenon DEF Delete, Flips
<1>10. CASE Gone
  BY <1>1, <1>10, PutFlips, TakeFlips, StopFlips, Zenon DEF Gone, Flips
<1>11. CASE Conflict
  BY <1>1, <1>11, PutFlips, TakeFlips, StopFlips, Zenon DEF Conflict, Flips
<1>12. CASE Arm
  BY <1>1, <1>12, PutFlips, TakeFlips, StopFlips, Zenon DEF Arm, Flips
<1>13. CASE CreateOnce
  BY <1>1, <1>13, PutFlips, TakeFlips, StopFlips, Zenon DEF CreateOnce, Flips
<1>14. CASE ClaimAmbiguous
  BY <1>1, <1>14, PutFlips, TakeFlips, StopFlips, Zenon DEF ClaimAmbiguous, Flips
<1>15. CASE Recheck
  BY <1>1, <1>15, PutFlips, TakeFlips, StopFlips, Zenon DEF Recheck, Flips
<1>16. CASE Drop
  BY <1>1, <1>16, PutFlips, TakeFlips, StopFlips, Zenon DEF Drop, Flips
<1>17. CASE DropVerified
  BY <1>1, <1>17, PutFlips, TakeFlips, StopFlips, Zenon DEF DropVerified, Flips
<1>18. CASE Audit
  BY <1>1, <1>18, PutFlips, TakeFlips, StopFlips, Zenon DEF Audit, Flips
<1>19. CASE Snapshot
  BY <1>1, <1>19, PutFlips, TakeFlips, StopFlips, Zenon DEF Snapshot, Flips
<1>20. CASE TakeLease
  BY <1>1, <1>20, PutFlips, TakeFlips, StopFlips, Zenon DEF TakeLease, Flips
<1>21. CASE CheckLeased
  BY <1>1, <1>21, PutFlips, TakeFlips, StopFlips, Zenon DEF CheckLeased, Flips
<1>22. CASE Stake
  BY <1>1, <1>22, PutFlips, TakeFlips, StopFlips, Zenon DEF Stake, Flips
<1>23. CASE SetDefault
  BY <1>1, <1>23, PutFlips, TakeFlips, StopFlips, Zenon DEF SetDefault, Flips
<1>24. CASE Dangling
  BY <1>1, <1>24, PutFlips, TakeFlips, StopFlips, Zenon DEF Dangling, Flips
<1>25. CASE RestoreRead
  BY <1>1, <1>25, PutFlips, TakeFlips, StopFlips, Zenon DEF RestoreRead, Flips
<1>26. CASE RestorePost
  BY <1>1, <1>26, PutFlips, TakeFlips, StopFlips, Zenon DEF RestorePost, Flips
<1>27. CASE RestoreVerify
  BY <1>1, <1>27, PutFlips, TakeFlips, StopFlips, Zenon DEF RestoreVerify, Flips
<1>28. CASE Quiet
  BY <1>1, <1>28, PutFlips, TakeFlips, StopFlips, Zenon DEF Quiet, Flips
<1>29. CASE Poll
  BY <1>1, <1>29, PutFlips, TakeFlips, StopFlips, Zenon DEF Poll, Flips
<1>30. CASE Disable
  BY <1>1, <1>30, PutFlips, TakeFlips, StopFlips, Zenon DEF Disable, Flips
<1>31. CASE Close
  BY <1>1, <1>31, PutFlips, TakeFlips, StopFlips, Zenon DEF Close, Flips
<1>32. CASE SweepDisable
  BY <1>1, <1>32, PutFlips, TakeFlips, StopFlips, Zenon DEF SweepDisable, Flips
<1>33. CASE SweepCheck
  BY <1>1, <1>33, PutFlips, TakeFlips, StopFlips, Zenon DEF SweepCheck, Flips
<1>34. CASE SweepClose
  BY <1>1, <1>34, PutFlips, TakeFlips, StopFlips, Zenon DEF SweepClose, Flips
<1>35. CASE NotDue
  BY <1>1, <1>35, PutFlips, TakeFlips, StopFlips, Zenon DEF NotDue, Flips
<1>36. CASE Look
  BY <1>1, <1>36, PutFlips, TakeFlips, StopFlips, Zenon DEF Look, Flips
<1>37. CASE Remove
  BY <1>1, <1>37, PutFlips, TakeFlips, StopFlips, Zenon DEF Remove, Flips
<1>38. CASE RemoveVerified
  BY <1>1, <1>38, PutFlips, TakeFlips, StopFlips, Zenon DEF RemoveVerified, Flips
<1>39. CASE WriteRecording
  BY <1>1, <1>39, PutFlips, TakeFlips, StopFlips, Zenon DEF WriteRecording, Flips
<1>40. CASE Exited
  BY <1>1, <1>40, PutFlips, TakeFlips, StopFlips, Zenon DEF Exited, Flips, vars
<1>41. CASE OthersCreate
  BY <1>1, <1>41, PutFlips, TakeFlips, StopFlips, Zenon DEF OthersCreate, Flips
<1>42. CASE OthersSetDefault
  BY <1>1, <1>42, PutFlips, TakeFlips, StopFlips, Zenon DEF OthersSetDefault, Flips
<1>43. CASE Fire
  BY <1>1, <1>43, PutFlips, TakeFlips, StopFlips, Zenon DEF Fire, Flips
<1> QED BY <1>2, <1>3, <1>4, <1>5, <1>6, <1>7, <1>8, <1>9, <1>10, <1>11, <1>12, <1>13,
       <1>14, <1>15, <1>16, <1>17, <1>18, <1>19, <1>20, <1>21, <1>22, <1>23, <1>24, <1>25,
       <1>26, <1>27, <1>28, <1>29, <1>30, <1>31, <1>32, <1>33, <1>34, <1>35, <1>36, <1>37,
       <1>38, <1>39, <1>40, <1>41, <1>42, <1>43 DEF Next

-----------------------------------------------------------------------------
(* Steps that leave the objects and their ownership as they are.              *)

\* The faults stay in their bound.
LEMMA FaultsInBound ==
    ASSUME IInv, Sound \/ Fault
    PROVE  faults' \in 0..MaxFaults
BY RecorderAssumption DEF IInv, TypeOK, Sound, Fault

\* What the lease may be.
LeaseStates == [phase : {"none", "seen", "create", "explicit"},
                was : Unset \cup Views \cup {"kept", "others"}]
\* What the default may be.
Defaults == Unset \cup Views \cup {"kept", "others"}
\* Who may have moved it last.
Movers == {"session", "unseen", "seen"}

\* What the stack may have under an id.
ThereStates == {"none", "marked", "foreign"} \cup Written

\* The types, for the steps that change the objects.
LEMMA Types ==
    ASSUME IInv
    PROVE  /\ there \in [Objects -> ThereStates] /\ own \subseteq Objects
           /\ claimed \subseteq Objects /\ lease \in LeaseStates /\ default \in Defaults
           /\ mover \in Movers
           /\ alerts \in {"none", "open", "closed"} /\ faults \in 0..MaxFaults
           /\ edits \in 0..MaxEdits /\ taken \subseteq Objects \X (ThereStates \ {"none"})
<1>1. ThereStates \ {"none"} = {"marked", "foreign"} \cup Written
  BY DEF ThereStates, Written
<1> QED BY <1>1 DEF IInv, TypeOK, ThereStates, LeaseStates, Defaults, Movers

\* A step that changes only the lease and the default.
LEMMA DefaultKept ==
    ASSUME IInv, faults' \in 0..MaxFaults, edits' \in 0..MaxEdits,
           alerts' \in {"none", "open", "closed"}, UNCHANGED <<there, own, claimed, taken>>,
           lease' \in LeaseStates, default' \in Defaults, mover' \in Movers, DefaultIsKept'
    PROVE  Kept'
<1>1. Kept
  BY KeptIs
<1>2. DataOK'
  BY <1>1 DEF Kept, DataOK, LeaseStates, Defaults, Movers
<1>3. (MineIsWhole /\ EarlyIsOwned /\ ForeignSurvives)'
  BY <1>1 DEF Kept, MineIsWhole, EarlyIsOwned, ForeignSurvives
<1> QED BY <1>2, <1>3 DEF Kept

\* A step that changes none of the objects, their ownership and the default.
LEMMA SameKept ==
    ASSUME IInv, faults' \in 0..MaxFaults, edits' \in 0..MaxEdits,
           alerts' \in {"none", "open", "closed"},
           UNCHANGED <<there, own, claimed, lease, default, mover, taken>>
    PROVE  Kept'
<1>1. lease' \in LeaseStates /\ default' \in Defaults /\ mover' \in Movers
  BY DEF IInv, TypeOK, LeaseStates, Defaults, Movers
<1>2. DefaultIsKept'
  BY DEF IInv, DefaultIsKept, Leased
<1> QED BY <1>1, <1>2, DefaultKept

\* An error in a step that leaves the objects alone.
LEMMA PlainStops ==
    ASSUME IInv, Running, Stop, Kept', Flags', UNCHANGED <<there, own, published>>
    PROVE  IInv'
<1>1. ~failed' => \A r \in LateClaims \cup Fleet : there'[r] \in Written => r \in own'
  BY DEF IInv, LateIsOwned, Stop, Running
<1> QED BY <1>1, StopKeeps

\* The operations whose success leaves the objects and their ownership as they are.
PlainOps ==
    {"absent", "still", "use", "recheck", "leased", "dangling", "quiet", "poll", "audit",
     "disable", "close", "sweep", "restore", "snapshot", "stake", "default", "conflict",
       "arm"}

\* The next step behind one that leaves the objects alone: behind the sweep no alert is open,
\* behind the restore no lease is left, and the lease of a running session stays.
LEMMA PlainGoesOn ==
    ASSUME IInv, NEW op \in PlainOps, Doing(op), Continue, Kept', Flags',
           UNCHANGED <<there, own, published>>,
           op = "sweep" => alerts' # "open", op = "restore" => ~Leased',
           phase = "cleanup" /\ Leased' => Leased,
           phase = "record" /\ op # "restore" /\ LeaseTaken(pc) /\ Leased => Leased'
    PROVE  IInv'
<1>1. Running /\ Steps[pc].op = op
  BY DEF Doing
<1>2. at # "reread"
  BY <1>1 DEF IInv, DoubtIsACreate, Doing, PlainOps
<1>3. CASE phase = "record"
  <2>1. Script[pc].op = op /\ Steps = Script
    BY <1>1, <1>3, Here
  <2>2. \A r \in LateClaims \cup Fleet : ~failed /\ there'[r] \in Written => r \in own'
    BY <1>1, <1>2 DEF IInv, LateIsOwned, Doing, PlainOps
  <2> DEFINE x == Script[pc]
  <2>3. /\ x.op \notin {"create", "write", "once", "delete", "drop", "claim", "lease"}
        /\ x.op = op /\ there' = there /\ own' = own
    BY <2>1 DEF PlainOps
  <2> HIDE DEF x
  <2> QED BY <1>2, <1>3, <2>2, <2>3, RecordGoesOn DEF x
<1>4. CASE phase = "cleanup"
  <2>1. Sweep[pc].op = op /\ op # "remove"
    BY <1>1, <1>4, Here DEF PlainOps
  <2>2. ~failed => \A r \in LateClaims \cup Fleet : there'[r] \in Written => r \in own'
    BY <1>4 DEF IInv, LateIsOwned
  <2> QED BY <1>4, <2>1, <2>2, CleanupGoesOn
<1> QED BY <1>1, <1>3, <1>4 DEF Running

\* A step that only looks.
LEMMA LookingGoesOn ==
    ASSUME IInv, Flags', NEW op \in PlainOps \ {"sweep", "restore"}, Doing(op),
           (Continue /\ faults' \in 0..MaxFaults) \/ (Stop /\ (Sound \/ Fault)),
           alerts' \in {"none", "open", "closed"},
           UNCHANGED <<there, own, claimed, lease, default, mover, taken, published, edits>>
    PROVE  IInv'
<1>1. faults' \in 0..MaxFaults /\ edits' \in 0..MaxEdits /\ Running
  BY FaultsInBound DEF IInv, TypeOK, Doing
<1>2. Kept'
  BY <1>1, SameKept
<1>3. Leased' <=> Leased
  BY DEF Leased
<1> QED BY <1>1, <1>2, <1>3, PlainStops, PlainGoesOn

\* The steps that only look, disable the rule, close its alerts, and arm the audit or disarm it.
LEMMA LookingKeeps ==
    ASSUME IInv, Flags',
           RequireAbsent \/ Unclaimed \/ Use \/ Recheck \/ CheckLeased \/ Dangling
             \/ Quiet \/ Poll \/ Disable \/ Close \/ Audit \/ Arm
    PROVE  IInv'
<1> DEFINE Ops == PlainOps \ {"sweep", "restore"}
           Same == UNCHANGED <<there, own, claimed, lease, default, mover, taken, published,
                               edits>>
           Goes == Continue /\ faults' \in 0..MaxFaults
           Stops == Stop /\ (Sound \/ Fault)
<1>0. /\ alerts \in {"none", "open", "closed"} /\ faults \in 0..MaxFaults
      /\ Sound \/ Fault => faults' \in 0..MaxFaults
  BY FaultsInBound DEF IInv, TypeOK
<1>1. CASE RequireAbsent
  <2>1. \E op \in Ops : Doing(op)
    BY <1>1 DEF RequireAbsent, PlainOps
  <2>2. Same /\ (Goes \/ Stops) /\ alerts' \in {"none", "open", "closed"}
    BY <1>0, <1>1 DEF RequireAbsent, stack, held
  <2> QED BY <2>1, <2>2, LookingGoesOn
<1>2. CASE Unclaimed
  <2>1. \E op \in Ops : Doing(op)
    BY <1>2 DEF Unclaimed, PlainOps
  <2>2. Same /\ (Goes \/ Stops) /\ alerts' \in {"none", "open", "closed"}
    BY <1>0, <1>2 DEF Unclaimed, stack, held
  <2> QED BY <2>1, <2>2, LookingGoesOn
<1>3. CASE Use
  <2>1. \E op \in Ops : Doing(op)
    BY <1>3 DEF Use, PlainOps
  <2>2. Same /\ (Goes \/ Stops) /\ alerts' \in {"none", "open", "closed"}
    BY <1>0, <1>3 DEF Use, stack, held
  <2> QED BY <2>1, <2>2, LookingGoesOn
<1>4. CASE Recheck
  <2>1. \E op \in Ops : Doing(op)
    BY <1>4 DEF Recheck, PlainOps
  <2>2. Same /\ (Goes \/ Stops) /\ alerts' \in {"none", "open", "closed"}
    BY <1>0, <1>4 DEF Recheck, stack, held
  <2> QED BY <2>1, <2>2, LookingGoesOn
<1>5. CASE CheckLeased
  <2>1. \E op \in Ops : Doing(op)
    BY <1>5 DEF CheckLeased, PlainOps
  <2>2. Same /\ (Goes \/ Stops) /\ alerts' \in {"none", "open", "closed"}
    BY <1>0, <1>5 DEF CheckLeased, stack, held
  <2> QED BY <2>1, <2>2, LookingGoesOn
<1>6. CASE Dangling
  <2>1. \E op \in Ops : Doing(op)
    BY <1>6 DEF Dangling, PlainOps
  <2>2. Same /\ (Goes \/ Stops) /\ alerts' \in {"none", "open", "closed"}
    BY <1>0, <1>6 DEF Dangling, stack, held
  <2> QED BY <2>1, <2>2, LookingGoesOn
<1>7. CASE Quiet
  <2>1. \E op \in Ops : Doing(op)
    BY <1>7 DEF Quiet, PlainOps
  <2>2. Same /\ (Goes \/ Stops) /\ alerts' \in {"none", "open", "closed"}
    BY <1>0, <1>7 DEF Quiet, stack, held
  <2> QED BY <2>1, <2>2, LookingGoesOn
<1>8. CASE Poll
  <2>1. \E op \in Ops : Doing(op)
    BY <1>8 DEF Poll, PlainOps
  <2>2. Same /\ (Goes \/ Stops) /\ alerts' \in {"none", "open", "closed"}
    BY <1>0, <1>8 DEF Poll, stack, held
  <2> QED BY <2>1, <2>2, LookingGoesOn
<1>9. CASE Disable
  <2>1. \E op \in Ops : Doing(op)
    BY <1>9 DEF Disable, PlainOps
  <2>2. Same /\ (Goes \/ Stops) /\ alerts' \in {"none", "open", "closed"}
    BY <1>0, <1>9 DEF Disable, stack, held
  <2> QED BY <2>1, <2>2, LookingGoesOn
<1>10. CASE Close
  <2>1. \E op \in Ops : Doing(op)
    BY <1>10 DEF Close, PlainOps
  <2>2. Same /\ (Goes \/ Stops) /\ alerts' \in {"none", "open", "closed"}
    BY <1>0, <1>10 DEF Close, stack, held
  <2> QED BY <2>1, <2>2, LookingGoesOn
<1>11. CASE Audit
  <2>1. \E op \in Ops : Doing(op)
    BY <1>11 DEF Audit, PlainOps
  <2>2. Same /\ (Goes \/ Stops) /\ alerts' \in {"none", "open", "closed"}
    BY <1>0, <1>11 DEF Audit, stack, held
  <2> QED BY <2>1, <2>2, LookingGoesOn
<1>12. CASE Arm
  <2>1. \E op \in Ops : Doing(op)
    BY <1>12 DEF Arm, PlainOps
  <2>2. Same /\ (Goes \/ Stops) /\ alerts' \in {"none", "open", "closed"}
    BY <1>0, <1>12 DEF Arm, stack, held
  <2> QED BY <2>1, <2>2, LookingGoesOn
<1> QED BY <1>1, <1>2, <1>3, <1>4, <1>5, <1>6, <1>7, <1>8, <1>9, <1>10, <1>11, <1>12

\* The default data view: read before the source is created, leased, and set by the session.
LEMMA SnapshotKeeps ==
    ASSUME IInv, Flags', Snapshot
    PROVE  IInv'
<1>1. /\ phase = "record" /\ ~LeaseTaken(pc) /\ Doing("snapshot") /\ Running
      /\ faults' \in 0..MaxFaults /\ edits' \in 0..MaxEdits
      /\ UNCHANGED <<there, own, claimed, default, mover, alerts, taken, published, edits>>
      /\ default \in Defaults /\ mover \in Movers /\ alerts \in {"none", "open", "closed"}
  <2>1. "snapshot" \in RecordOps \ {"restore", "audit", "sweep"}
    BY DEF RecordOps
  <2>2. Doing("snapshot") /\ (Sound \/ Fault)
    BY DEF Snapshot
  <2>3. phase = "record" /\ ~LeaseTaken(pc)
    BY <2>1, <2>2, InRecord DEF RecordFits
  <2> QED BY <2>2, <2>3, FaultsInBound, Types DEF Snapshot, Running, stack, IInv, TypeOK
<1>2. CASE /\ default \notin {"source", "replacement"} /\ Continue
           /\ lease' = [phase |-> "seen", was |-> default]
  <2>1. lease' \in LeaseStates
    BY <1>1, <1>2 DEF LeaseStates, Defaults
  <2>2. DefaultIsKept'
    BY <1>1, <1>2 DEF DefaultIsKept, Leased
  <2>3. Kept'
    BY <1>1, <2>1, <2>2, DefaultKept
  <2> QED BY <1>1, <1>2, <2>3, PlainGoesOn DEF PlainOps
<1>3. CASE Stop /\ UNCHANGED lease
  BY <1>1, <1>3, SameKept, PlainStops
<1> QED BY <1>2, <1>3 DEF Snapshot

\* From here on the session sets the default itself, under the same lease.
LEMMA StakeKeeps ==
    ASSUME IInv, Flags', Stake
    PROVE  IInv'
<1>1. /\ faults' \in 0..MaxFaults /\ edits' \in 0..MaxEdits /\ Doing("stake") /\ Continue
      /\ UNCHANGED <<there, own, claimed, default, mover, alerts, taken, published>>
      /\ default \in Defaults /\ mover \in Movers /\ alerts \in {"none", "open", "closed"}
      /\ lease \in LeaseStates
      /\ lease' = [lease EXCEPT !.phase = "explicit"]
  BY Types DEF Stake, stack, IInv, TypeOK
<1>2. lease' \in LeaseStates /\ Leased' /\ lease'.was = lease.was
  BY <1>1 DEF LeaseStates, Leased
<1>3. DefaultIsKept'
  BY <1>2 DEF DefaultIsKept, IInv
<1>4. Kept'
  BY <1>1, <1>2, <1>3, DefaultKept
<1>5. phase = "record"
  BY <1>1, InRecord DEF RecordOps
<1> QED BY <1>1, <1>2, <1>4, <1>5, PlainGoesOn DEF PlainOps

\* The session sets the default, under the lease.
LEMMA SetDefaultKeeps ==
    ASSUME IInv, Flags', SetDefault
    PROVE  IInv'
<1>1. /\ Doing("default") /\ Running /\ faults' \in 0..MaxFaults /\ edits' \in 0..MaxEdits
      /\ UNCHANGED <<there, own, claimed, lease, alerts, taken, published>>
      /\ default \in Defaults /\ mover \in Movers /\ alerts \in {"none", "open", "closed"}
      /\ lease \in LeaseStates
  BY FaultsInBound, Types DEF SetDefault, Doing, held, IInv, TypeOK
<1>2. phase = "record" /\ LeaseTaken(pc) /\ Target \in {"source", "none"}
  <2>1. "default" \in RecordOps \ {"restore", "audit", "sweep"}
    BY DEF RecordOps
  <2>2. /\ phase = "record" /\ RecordFits(pc) /\ Script[pc].op = "default"
        /\ Target = Script[pc].r /\ Script[pc] \in RecordSteps
    BY <1>1, <2>1, InRecord
  <2> QED BY <2>2 DEF RecordFits, RecordSteps
<1>3. Leased /\ Leased'
  BY <1>1, <1>2 DEF IInv, LeaseIsHeld, Leased
<1>4. default' \in Defaults /\ mover' \in Movers /\ (Continue \/ Stop)
  <2>1. Reported(Target) \subseteq Defaults
    BY <1>2 DEF Reported, Defaults, Views, Unset
  <2>2. ASSUME NEW d \in Reported(Target), Move(d)
        PROVE  default' \in Defaults /\ mover' \in Movers
    BY <1>1, <2>1, <2>2 DEF Move, Movers
  <2> QED BY <1>1, <2>2 DEF SetDefault
<1>5. DefaultIsKept'
  BY <1>1, <1>3 DEF DefaultIsKept, IInv
<1>6. Kept'
  BY <1>1, <1>4, <1>5, DefaultKept
<1> QED BY <1>1, <1>2, <1>3, <1>4, <1>6, PlainStops, PlainGoesOn DEF PlainOps

\* Restoring the default reads it first.
LEMMA RestoreReadKeeps ==
    ASSUME IInv, Flags', RestoreRead
    PROVE  IInv'
<1>1. /\ Doing("restore") /\ Running /\ at = "first"
      /\ faults' \in 0..MaxFaults /\ edits' \in 0..MaxEdits
      /\ UNCHANGED <<there, own, claimed, lease, default, alerts, taken, published>>
      /\ alerts \in {"none", "open", "closed"}
      /\ mover' = mover \/ mover' = "seen"
  BY FaultsInBound DEF RestoreRead, Doing, held, IInv, TypeOK
<1>2. Kept' /\ (Leased' <=> Leased)
  <2>1. lease' \in LeaseStates /\ default' \in Defaults /\ mover' \in Movers
    BY <1>1, Types DEF Movers
  <2>2. Leased' <=> Leased
    BY <1>1 DEF Leased
  <2>3. DefaultIsKept'
    BY <1>1, <2>2 DEF IInv, DefaultIsKept
  <2> QED BY <1>1, <2>1, <2>2, <2>3, DefaultKept
<1>3. CASE Stop
  BY <1>1, <1>2, <1>3, PlainStops
<1>4. CASE ~Leased /\ Continue
  BY <1>1, <1>2, <1>4, PlainGoesOn DEF PlainOps
<1>5. CASE Leased /\ Restorable(lease, default) /\ Then("post")
  <2>1. ~Doing("drop") /\ ~Doing("remove")
    BY <1>1 DEF Doing
  <2> QED BY <1>1, <1>2, <1>5, <2>1, SameStepKeeps DEF Then, Requests
<1> QED BY <1>3, <1>4, <1>5 DEF RestoreRead

\* Then it posts the default that was found, over what the session left only.
LEMMA RestorePostKeeps ==
    ASSUME IInv, Flags', RestorePost
    PROVE  IInv'
<1>1. /\ Doing("restore") /\ Running /\ at = "post"
      /\ faults' \in 0..MaxFaults /\ edits' \in 0..MaxEdits
      /\ UNCHANGED <<there, own, claimed, lease, alerts, taken, published>>
      /\ alerts \in {"none", "open", "closed"} /\ lease \in LeaseStates
      /\ UNCHANGED <<default, mover>> \/ \E d \in Reported(lease.was) : Move(d)
      /\ default \in Defaults /\ mover \in Movers
  BY FaultsInBound, Types DEF RestorePost, Doing, held, IInv, TypeOK
<1>2. default' \in Defaults /\ mover' \in Movers
  <2>1. Reported(lease.was) \subseteq Defaults
    BY <1>1 DEF Reported, Defaults, LeaseStates
  <2> QED BY <1>1, <2>1 DEF Move, Movers
<1>3. DefaultIsKept'
  <2>1. Leased /\ Leased'
    BY <1>1 DEF IInv, RestoreIsDue, Leased
  <2> QED BY <1>1, <2>1 DEF DefaultIsKept, IInv
<1>4. Kept'
  BY <1>1, <1>2, <1>3, DefaultKept
<1>5. CASE Stop
  BY <1>1, <1>4, <1>5, PlainStops
<1>6. CASE Then("verify")
  <2>1. ~Doing("drop") /\ ~Doing("remove")
    BY <1>1 DEF Doing
  <2> QED BY <1>1, <1>4, <1>6, <2>1, SameStepKeeps DEF Then, Requests
<1> QED BY <1>5, <1>6 DEF RestorePost

\* Then it reads it back, and ends the lease.
LEMMA RestoreVerifyKeeps ==
    ASSUME IInv, Flags', RestoreVerify
    PROVE  IInv'
<1>1. /\ Doing("restore") /\ Running /\ at = "verify"
      /\ faults' \in 0..MaxFaults /\ edits' \in 0..MaxEdits
      /\ UNCHANGED <<there, own, claimed, default, mover, alerts, taken, published>>
      /\ alerts \in {"none", "open", "closed"} /\ lease \in LeaseStates
      /\ default \in Defaults /\ mover \in Movers
  BY FaultsInBound, Types DEF RestoreVerify, Doing, stack, IInv, TypeOK
<1>2. CASE Stop /\ UNCHANGED lease
  BY <1>1, <1>2, SameKept, PlainStops
<1>3. CASE Continue /\ default = lease.was /\ lease' = [lease EXCEPT !.phase = "none"]
  <2>1. lease' \in LeaseStates /\ ~Leased' /\ lease'.was = lease.was
    BY <1>1, <1>3 DEF LeaseStates, Leased
  <2>2. DefaultIsKept'
    BY <1>1, <1>3, <2>1 DEF DefaultIsKept, IInv
  <2>3. Kept'
    BY <1>1, <2>1, <2>2, DefaultKept
  <2> QED BY <1>1, <1>3, <2>1, <2>3, PlainGoesOn DEF PlainOps
<1> QED BY <1>2, <1>3 DEF RestoreVerify

\* Between two requests of the sweep of the alerts, and of other clients.
LEMMA SweepAlertsKeeps ==
    ASSUME IInv, Flags', SweepDisable \/ SweepCheck \/ SweepClose
    PROVE  IInv'
<1>1. /\ Doing("sweep") /\ Running /\ at \in {"first", "check", "post"}
      /\ faults' \in 0..MaxFaults /\ edits' \in 0..MaxEdits
      /\ UNCHANGED <<there, own, claimed, lease, default, mover, taken, published>>
      /\ alerts' \in {"none", "open", "closed"}
  BY FaultsInBound DEF SweepDisable, SweepCheck, SweepClose, Doing, stack, held, IInv, TypeOK
<1>2. Kept' /\ (Leased' <=> Leased)
  BY <1>1, SameKept DEF Leased
<1>3. CASE Stop
  BY <1>1, <1>2, <1>3, PlainStops
<1>4. CASE alerts' # "open" /\ Continue
  BY <1>1, <1>2, <1>4, PlainGoesOn DEF PlainOps
<1>5. CASE Then("check") \/ Then("post")
  <2>1. ~Doing("drop") /\ ~Doing("remove") /\ ~Doing("restore")
    BY <1>1 DEF Doing
  <2> QED BY <1>1, <1>2, <1>5, <2>1, SameStepKeeps DEF Then, Requests
<1> QED BY <1>3, <1>4, <1>5 DEF SweepDisable, SweepCheck, SweepClose, stack

-----------------------------------------------------------------------------
(* Steps that record ownership, or give it up.                                *)

\* A step that changes only what is owned, and the lease: what is there stays owned.
LEMMA OwnKept ==
    ASSUME IInv, faults' \in 0..MaxFaults,
           UNCHANGED <<there, default, mover, alerts, taken, edits>>,
           own' \subseteq Objects, claimed' \subseteq Objects, lease' \in LeaseStates,
           DefaultIsKept',
           \A r \in Objects : r \in own /\ there[r] \in Written => r \in own'
    PROVE  Kept'
<1>1. Kept
  BY KeptIs
<1>2. DataOK'
  BY <1>1 DEF Kept, DataOK, LeaseStates
<1>3. (MineIsWhole /\ ForeignSurvives)'
  BY <1>1 DEF Kept, MineIsWhole, ForeignSurvives
<1>4. EarlyIsOwned'
  BY <1>1 DEF Kept, EarlyIsOwned
<1> QED BY <1>2, <1>3, <1>4 DEF Kept

\* A step that changes neither the lease nor the default.
LEMMA SameDefault ==
    ASSUME IInv, UNCHANGED <<lease, default, mover>>
    PROVE  DefaultIsKept' /\ (Leased' <=> Leased) /\ lease' \in LeaseStates
BY Types DEF IInv, DefaultIsKept, Leased

\* Only a create may leave the ownership of what it made open.
LEMMA LateIsKnown ==
    ASSUME IInv, Running, at # "reread", ~failed, NEW r \in LateClaims \cup Fleet,
           there[r] \in Written
    PROVE  r \in own \/ (phase = "record" /\ r = Target /\ Doing("prove"))
BY DEF IInv, LateIsOwned

\* Claiming an object before it is created.
LEMMA ClaimKeeps ==
    ASSUME IInv, Flags', Claim
    PROVE  IInv'
<1>1. "claim" \in (RecordOps \ {"restore", "audit", "sweep"}) \cap ObjectSteps
  BY DEF RecordOps, ObjectSteps
<1>2. /\ phase = "record" /\ pc \in 1..Len(Script) /\ Script[pc].op = "claim"
      /\ Target = Script[pc].r /\ Script[pc] \in RecordSteps /\ Target \in Objects
      /\ Running /\ Steps[pc].op = "claim"
  BY <1>1, InRecord DEF Claim, Doing
<1>3. /\ own' = own \cup {Target} /\ Continue
      /\ claimed' = claimed \cup ({Target} \cap {"alert_rule", "alert_index"})
      /\ UNCHANGED <<there, default, mover, alerts, taken, lease, published, edits, faults>>
  BY DEF Claim, stack
<1>4. DefaultIsKept' /\ (Leased' <=> Leased) /\ lease' \in LeaseStates
  BY <1>3, SameDefault
<1>5. own' \subseteq Objects /\ claimed' \subseteq Objects /\ faults' \in 0..MaxFaults
  BY <1>2, <1>3, Types
<1>6. Kept'
  BY <1>3, <1>4, <1>5, OwnKept
<1>7. at # "reread" /\ ~Doing("prove")
  BY <1>2 DEF IInv, DoubtIsACreate, Doing
<1> DEFINE x == Script[pc]
<1>8. \A r \in LateClaims \cup Fleet : ~failed /\ there'[r] \in Written => r \in own'
  BY <1>2, <1>3, <1>7, LateIsKnown
<1>9. x.op = "claim" /\ x.r = Target
  BY <1>2
<1> HIDE DEF x
<1> QED BY <1>2, <1>3, <1>4, <1>6, <1>7, <1>8, <1>9, RecordGoesOn DEF x

\* Taking the lease before the default may move.
LEMMA TakeLeaseKeeps ==
    ASSUME IInv, Flags', TakeLease
    PROVE  IInv'
<1>1. "lease" \in (RecordOps \ {"restore", "audit", "sweep"}) \cap ObjectSteps
  BY DEF RecordOps, ObjectSteps
<1>2. /\ phase = "record" /\ pc \in 1..Len(Script) /\ Script[pc].op = "lease"
      /\ Target = Script[pc].r /\ Script[pc] \in RecordSteps /\ Target \in Objects
      /\ Running /\ Steps[pc].op = "lease"
  BY <1>1, InRecord DEF TakeLease, Doing
<1>3. /\ UNCHANGED <<there, default, mover, alerts, taken, claimed, published, edits>>
      /\ faults' \in 0..MaxFaults
  BY FaultsInBound DEF TakeLease, stack
<1>4. CASE Stop /\ UNCHANGED <<lease, own>>
  <2>1. Kept'
    BY <1>3, <1>4, SameKept, Types
  <2> QED BY <1>2, <1>3, <1>4, <2>1, PlainStops
<1>5. CASE /\ Continue /\ lease' = [lease EXCEPT !.phase = "create"]
           /\ own' = own \cup {Target}
  <2>1. lease' \in LeaseStates /\ lease'.was = lease.was /\ Leased'
    BY <1>5, Types DEF LeaseStates, Leased
  <2>2. DefaultIsKept'
    BY <2>1 DEF DefaultIsKept, IInv
  <2>3. own' \subseteq Objects /\ claimed' \subseteq Objects
    BY <1>2, <1>3, <1>5, Types
  <2>4. Kept'
    BY <1>3, <1>5, <2>1, <2>2, <2>3, OwnKept
  <2>5. at # "reread" /\ ~Doing("prove")
    BY <1>2 DEF IInv, DoubtIsACreate, Doing
  <2> DEFINE x == Script[pc]
  <2>6. \A r \in LateClaims \cup Fleet : ~failed /\ there'[r] \in Written => r \in own'
    BY <1>2, <1>3, <1>5, <2>5, LateIsKnown
  <2>7. x.op = "lease" /\ x.r = Target
    BY <1>2
  <2> HIDE DEF x
  <2> QED BY <1>2, <1>3, <1>5, <2>1, <2>4, <2>5, <2>6, <2>7, RecordGoesOn DEF x
<1> QED BY <1>4, <1>5 DEF TakeLease

\* Reading an object back and claiming it late.
LEMMA ProveKeeps ==
    ASSUME IInv, Flags', Prove
    PROVE  IInv'
<1>1. "prove" \in (RecordOps \ {"restore", "audit", "sweep"}) \cap ObjectSteps
  BY DEF RecordOps, ObjectSteps
<1>2. /\ phase = "record" /\ pc \in 1..Len(Script) /\ Script[pc].op = "prove"
      /\ Target = Script[pc].r /\ Script[pc] \in RecordSteps /\ Target \in Objects
      /\ Running /\ Steps[pc].op = "prove"
  BY <1>1, InRecord DEF Prove, Doing
<1>3. /\ UNCHANGED <<there, default, mover, alerts, taken, claimed, lease, published, edits>>
      /\ faults' \in 0..MaxFaults
  BY FaultsInBound DEF Prove, stack
<1>4. CASE Stop /\ UNCHANGED own
  <2>1. Kept'
    BY <1>3, <1>4, SameKept, Types
  <2> QED BY <1>2, <1>3, <1>4, <2>1, PlainStops
<1>5. CASE Continue /\ own' = own \cup (LateClaims \cap {Target})
  <2>1. DefaultIsKept' /\ (Leased' <=> Leased) /\ lease' \in LeaseStates
    BY <1>3, SameDefault
  <2>2. own' \subseteq Objects /\ claimed' \subseteq Objects
    BY <1>2, <1>3, <1>5, Types
  <2>3. Kept'
    BY <1>3, <1>5, <2>1, <2>2, OwnKept
  <2>4. at # "reread" /\ Target \notin Fleet
    BY <1>2 DEF IInv, DoubtIsACreate, Doing, RecordSteps
  <2> DEFINE x == Script[pc]
  <2>5. \A r \in LateClaims \cup Fleet : ~failed /\ there'[r] \in Written => r \in own'
    BY <1>2, <1>3, <1>5, <2>4, LateIsKnown
  <2>6. x.op = "prove" /\ x.r = Target
    BY <1>2
  <2> HIDE DEF x
  <2> QED BY <1>2, <1>3, <1>5, <2>1, <2>3, <2>4, <2>5, <2>6, RecordGoesOn DEF x
<1> QED BY <1>4, <1>5 DEF Prove

\* A deletion that a read has confirmed ends the ownership.
LEMMA GoneKeeps ==
    ASSUME IInv, Flags', Gone
    PROVE  IInv'
<1>1. "gone" \in (RecordOps \ {"restore", "audit", "sweep"}) \cap ObjectSteps
  BY DEF RecordOps, ObjectSteps
<1>2. /\ phase = "record" /\ pc \in 1..Len(Script) /\ Script[pc].op = "gone"
      /\ Target = Script[pc].r /\ Script[pc] \in RecordSteps /\ Target \in Objects
      /\ Running /\ Steps[pc].op = "gone"
  BY <1>1, InRecord DEF Gone, Doing
<1>3. /\ UNCHANGED <<there, default, mover, alerts, taken, claimed, lease, published, edits>>
      /\ faults' \in 0..MaxFaults
  BY FaultsInBound DEF Gone, stack
<1>4. CASE Stop /\ UNCHANGED own
  <2>1. Kept'
    BY <1>3, <1>4, SameKept, Types
  <2> QED BY <1>2, <1>3, <1>4, <2>1, PlainStops
<1>5. CASE Continue /\ own' = own \ {Target} /\ there[Target] = "none"
  <2>0. there[Target] \notin Written
    BY <1>5 DEF Written
  <2>1. DefaultIsKept' /\ (Leased' <=> Leased) /\ lease' \in LeaseStates
    BY <1>3, SameDefault
  <2>2. own' \subseteq Objects /\ claimed' \subseteq Objects
    BY <1>2, <1>3, <1>5, Types
  <2>3. Kept'
    BY <1>3, <1>5, <2>0, <2>1, <2>2, OwnKept
  <2>4. at # "reread" /\ ~Doing("prove")
    BY <1>2 DEF IInv, DoubtIsACreate, Doing
  <2> DEFINE x == Script[pc]
  <2>5. \A r \in LateClaims \cup Fleet : ~failed /\ there'[r] \in Written => r \in own'
    BY <1>2, <1>3, <1>5, <2>0, <2>4, LateIsKnown
  <2>6. x.op = "gone" /\ x.r = Target
    BY <1>2
  <2> HIDE DEF x
  <2> QED BY <1>2, <1>3, <1>5, <2>1, <2>3, <2>4, <2>5, <2>6, RecordGoesOn DEF x
<1> QED BY <1>4, <1>5 DEF Gone

-----------------------------------------------------------------------------
(* Steps that create objects, and that delete them.                           *)

\* An object is written that is owned, or claimed late.
LEMMA PutKept ==
    ASSUME IInv, faults' \in 0..MaxFaults, NEW r \in Objects, NEW v \in Written, Put(r, v),
           v = "twice" => r = "case", r \in Fleet => v # "joined",
           own \subseteq own', own' \subseteq Objects,
           r \notin LateClaims \cup Fleet => r \in own',
           UNCHANGED <<claimed, lease, edits>>, default' \in Defaults, mover' \in Movers,
           DefaultIsKept'
    PROVE  Kept' /\ there' = [there EXCEPT ![r] = v]
<1>1. Kept
  BY KeptIs
<1>2. /\ there' = [there EXCEPT ![r] = v] /\ UNCHANGED <<alerts, taken>>
      /\ there \in [Objects -> ThereStates] /\ v \in ThereStates
  BY Types DEF Put, ThereStates
<1>3. DataOK'
  <2>1. there' \in [Objects -> {"none", "marked", "foreign"} \cup Written]
    BY <1>2 DEF ThereStates
  <2> QED BY <1>1, <1>2, <2>1 DEF Kept, DataOK, Defaults, Movers
<1>4. MineIsWhole'
  BY <1>1, <1>2 DEF Kept, MineIsWhole, Fleet, Integrations, Objects
<1>5. EarlyIsOwned'
  BY <1>1, <1>2 DEF Kept, EarlyIsOwned
<1>6. ForeignSurvives'
  BY <1>1, <1>2 DEF Kept, ForeignSurvives
<1> QED BY <1>2, <1>3, <1>4, <1>5, <1>6 DEF Kept

\* An object of the session is deleted, or a foreign data view under its id.
LEMMA TakeKept ==
    ASSUME IInv, faults' \in 0..MaxFaults, NEW r \in Objects, there[r] # "none", Take(r),
           there[r] = "foreign" => r \in {"source", "replacement"},
           r \in Fleet => there[r] = "ours",
           own' \subseteq own, \A q \in Objects \ {r} : q \in own => q \in own',
           UNCHANGED <<claimed, lease, edits>>
    PROVE  Kept' /\ there' = [there EXCEPT ![r] = "none"]
<1>1. Kept
  BY KeptIs
<1>2. /\ there' = [there EXCEPT ![r] = "none"] /\ UNCHANGED <<alerts, default, mover>>
      /\ taken' = taken \cup {<<r, there[r]>>} /\ "none" \notin Written
      /\ there \in [Objects -> ThereStates] /\ there[r] \in {"marked", "foreign"} \cup Written
  BY Types DEF Take, ThereStates, Written
<1>3. DataOK'
  <2>1. there' \in [Objects -> {"none", "marked", "foreign"} \cup Written]
    BY <1>2 DEF ThereStates
  <2>2. taken' \subseteq Objects \X ({"marked", "foreign"} \cup Written)
    BY <1>1, <1>2 DEF Kept, DataOK
  <2> QED BY <1>1, <1>2, <2>1, <2>2 DEF Kept, DataOK
<1>4. MineIsWhole'
  BY <1>1, <1>2 DEF Kept, MineIsWhole, Fleet, Integrations, Objects
<1>5. EarlyIsOwned'
  BY <1>1, <1>2 DEF Kept, EarlyIsOwned
<1>6. ForeignSurvives'
  BY <1>1, <1>2 DEF Kept, ForeignSurvives
<1>7. DefaultIsKept'
  BY <1>2, SameDefault
<1> QED BY <1>2, <1>3, <1>4, <1>5, <1>6, <1>7 DEF Kept

\* A data view that becomes the default by being created is leased, or the first there is.
LEMMA ImpliedKept ==
    ASSUME IInv, NEW r \in Objects, \E d \in Implied(r) : Move(d), lease' = lease,
           r \in {"source", "replacement"} => Leased
    PROVE  DefaultIsKept' /\ default' \in Defaults /\ mover' \in Movers
<1>1. \/ UNCHANGED <<default, mover>>
      \/ default' = r /\ r \in Views /\ mover' = "session"
  BY DEF Implied, Move
<1>2. default \in Defaults /\ mover \in Movers
  BY Types
<1>3. (Leased' <=> Leased) /\ DefaultIsKept
  BY DEF Leased, IInv
<1>4. default' \in Defaults /\ mover' \in Movers
  BY <1>1, <1>2 DEF Defaults, Movers
<1> QED BY <1>1, <1>3, <1>4 DEF DefaultIsKept, Views

\* What is claimed before it is created is owned when it is.
LEMMA EarlyIsClaimed ==
    ASSUME IInv, phase = "record", NEW op \in {"create", "write", "conflict"}, Doing(op)
    PROVE  /\ Target \notin LateClaims \cup Fleet => Target \in own
           /\ op # "conflict" /\ Target \in {"source", "replacement"} => Leased
           /\ op = "write" /\ Target \in LateClaims =>
                pc < Len(Script) /\ Script[pc + 1] = Do("prove", Target)
           /\ Target \in Objects \ Fleet
<1>1. op \in (RecordOps \ {"restore", "audit", "sweep"}) \cap ObjectSteps
  BY DEF RecordOps, ObjectSteps
<1>2. /\ Script[pc].op = op /\ Target = Script[pc].r /\ RecordFits(pc)
      /\ Script[pc] \in RecordSteps /\ Target \in Objects
  BY <1>1, InRecord
<1>3. Target \notin Fleet
  BY <1>2 DEF RecordSteps
<1> QED BY <1>2, <1>3 DEF RecordFits, IInv, ClaimedIsOwned, LeaseIsHeld

\* The script writes an object, and its answer arrives or is lost.
LEMMA PutGoesOn ==
    ASSUME IInv, phase = "record", Flags', NEW op \in {"create", "write"}, Doing(op),
           NEW v \in Written, v = "twice" => Target = "case", Put(Target, v),
           \E d \in Implied(Target) : Move(d), faults' \in 0..MaxFaults,
           UNCHANGED <<claimed, lease, published, edits>>,
           \/ /\ Continue /\ op = "create"
              /\ own' = own \cup (LateClaims \cap {Target})
           \/ Continue /\ op = "write" /\ own' = own
           \/ Stop /\ own' = own
    PROVE  IInv'
<1>1. /\ Target \in Objects \ Fleet
      /\ Target \notin LateClaims \cup Fleet => Target \in own
      /\ Target \in {"source", "replacement"} => Leased
      /\ op = "write" /\ Target \in LateClaims =>
           pc < Len(Script) /\ Script[pc + 1] = Do("prove", Target)
  BY EarlyIsClaimed
<1>2. DefaultIsKept' /\ default' \in Defaults /\ mover' \in Movers
  BY <1>1, ImpliedKept
<1>3. own \subseteq own' /\ own' \subseteq Objects
  BY <1>1, Types
<1>4. Kept' /\ there' = [there EXCEPT ![Target] = v]
  BY <1>1, <1>2, <1>3, PutKept
<1>5. CASE Stop
  <2>1. failed' = TRUE
    BY <1>5 DEF Stop
  <2> QED BY <1>4, <1>5, <2>1, StopKeeps DEF Running
<1>6. CASE /\ Continue
           /\ \/ op = "create" /\ own' = own \cup (LateClaims \cap {Target})
              \/ op = "write" /\ own' = own
  <2>1. Running /\ Steps[pc].op = op /\ Script[pc].op = op /\ Target = Script[pc].r
    BY Here DEF Doing, Target
  <2>2. at # "reread" /\ ~Doing("prove")
    BY <2>1 DEF IInv, DoubtIsACreate, Doing
  <2>3. there \in [Objects -> ThereStates]
    BY Types
  <2>4. /\ there'[Target] \in Written
        /\ \A r \in Objects \ {Target} : there'[r] = there[r]
    BY <1>1, <1>4, <2>3
  <2>5. ASSUME NEW r \in LateClaims \cup Fleet, ~failed, there'[r] \in Written
        PROVE  r \in own' \/ (pc < Len(Script) /\ Script[pc + 1] = Do("prove", r))
    <3>1. CASE r = Target
      BY <1>1, <1>6, <2>5, <3>1
    <3>2. CASE r # Target
      <4>1. r \in Objects
        BY DEF LateClaims, Fleet, Integrations, Objects, Indices
      <4> QED BY <1>3, <2>1, <2>2, <2>4, <2>5, <3>2, <4>1, LateIsKnown
    <3> QED BY <3>1, <3>2
  <2>6. Leased' <=> Leased
    BY DEF Leased
  <2> DEFINE x == Script[pc]
  <2>7. x.op = op /\ x.r = Target
    BY <2>1
  <2> HIDE DEF x
  <2> QED BY <1>3, <1>4, <1>6, <2>2, <2>4, <2>5, <2>6, <2>7, RecordGoesOn DEF x
<1> QED BY <1>5, <1>6

\* Creating an object.
LEMMA CreateKeeps ==
    ASSUME IInv, Flags', Create
    PROVE  IInv'
<1>1. /\ Doing("create") /\ Running /\ phase = "record" /\ faults' \in 0..MaxFaults
      /\ UNCHANGED <<claimed, lease, published, edits>>
  <2>1. Doing("create") /\ (Sound \/ Fault)
    BY DEF Create
  <2>2. "create" \in RecordOps \ {"restore", "audit", "sweep"}
    BY DEF RecordOps, ObjectSteps
  <2> QED BY <2>1, <2>2, InRecord, FaultsInBound DEF Create, Doing
<1>2. CASE Put(Target, "ours") /\ (\E d \in Implied(Target) : Move(d))
           /\ \/ Continue /\ own' = own \cup (LateClaims \cap {Target})
              \/ Stop /\ UNCHANGED own
  <2>1. "ours" \in Written /\ "ours" # "twice"
    BY DEF Written
  <2> QED BY <1>1, <1>2, <2>1, PutGoesOn
<1>3. CASE Stop /\ UNCHANGED <<stack, own>>
  <2>1. Kept'
    BY <1>1, <1>3, SameKept, Types DEF stack
  <2> QED BY <1>1, <1>3, <2>1, PlainStops DEF stack
<1> QED BY <1>2, <1>3 DEF Create

\* Writing an object over what is there.
LEMMA WriteKeeps ==
    ASSUME IInv, Flags', Write
    PROVE  IInv'
<1>1. /\ Doing("write") /\ Running /\ phase = "record" /\ faults' \in 0..MaxFaults
      /\ UNCHANGED <<own, claimed, lease, published, edits>>
  <2>1. Doing("write") /\ (Sound \/ Fault)
    BY DEF Write
  <2>2. "write" \in RecordOps \ {"restore", "audit", "sweep"}
    BY DEF RecordOps, ObjectSteps
  <2> QED BY <2>1, <2>2, InRecord, FaultsInBound DEF Write, Doing, held
<1>2. ASSUME NEW v \in {"ours", "joined"}, Put(Target, v),
             \E d \in Implied(Target) : Move(d), Continue \/ Stop
      PROVE  IInv'
  <2>1. v \in Written /\ v # "twice"
    BY DEF Written
  <2> QED BY <1>1, <1>2, <2>1, PutGoesOn
<1>3. CASE Target = "case" /\ Put(Target, "twice") /\ UNCHANGED <<default, mover>> /\ Continue
  <2>1. "twice" \in Written
    BY DEF Written
  <2>2. \E d \in Implied(Target) : Move(d)
    BY <1>3 DEF Implied, Move
  <2> QED BY <1>1, <1>3, <2>1, <2>2, PutGoesOn
<1>4. CASE Stop /\ UNCHANGED stack
  <2>1. Kept'
    BY <1>1, <1>4, SameKept, Types DEF stack
  <2> QED BY <1>1, <1>4, <2>1, PlainStops DEF stack
<1> QED BY <1>2, <1>3, <1>4 DEF Write

\* A create that must be refused.
LEMMA ConflictKeeps ==
    ASSUME IInv, Flags', Conflict
    PROVE  IInv'
<1>1. /\ Doing("conflict") /\ Running /\ phase = "record" /\ faults' \in 0..MaxFaults
      /\ UNCHANGED <<own, claimed, lease, published, edits>>
  <2>1. Doing("conflict") /\ (Sound \/ Fault)
    BY DEF Conflict
  <2>2. "conflict" \in RecordOps \ {"restore", "audit", "sweep"}
    BY DEF RecordOps, ObjectSteps
  <2> QED BY <2>1, <2>2, InRecord, FaultsInBound DEF Conflict, Doing, held
<1>2. CASE (Continue \/ Stop) /\ UNCHANGED stack
  <2>1. Kept' /\ (Leased' <=> Leased)
    BY <1>1, <1>2, SameKept, Types DEF stack, Leased
  <2> QED BY <1>1, <1>2, <2>1, PlainStops, PlainGoesOn DEF stack, PlainOps
<1>3. CASE Put(Target, "ours") /\ UNCHANGED <<default, mover>> /\ Stop
  <2>1. Target \in Objects /\ Target \in own
    <3>1. "conflict" \in (RecordOps \ {"restore", "audit", "sweep"}) \cap ObjectSteps
      BY DEF RecordOps, ObjectSteps
    <3>2. Target = Script[pc].r /\ Script[pc].op = "conflict" /\ Script[pc] \in RecordSteps
      BY <1>1, <3>1, InRecord
    <3>3. Target \notin LateClaims \cup Fleet
      BY <3>2 DEF RecordSteps
    <3> QED BY <1>1, <3>3, EarlyIsClaimed
  <2>2. "ours" \in Written /\ "ours" # "twice" /\ "ours" # "joined"
    BY DEF Written
  <2>3. DefaultIsKept' /\ default' \in Defaults /\ mover' \in Movers
    BY <1>1, <1>3, SameDefault, Types
  <2>4. Kept'
    BY <1>1, <1>3, <2>1, <2>2, <2>3, PutKept, Types
  <2>5. failed' = TRUE
    BY <1>1, <1>3 DEF Stop
  <2> QED BY <1>1, <1>3, <2>4, <2>5, StopKeeps
<1> QED BY <1>2, <1>3 DEF Conflict

\* What the script deletes is there and the session's, and nothing refers to it any more.
LEMMA MadeIsOurs ==
    ASSUME IInv, phase = "record", NEW op \in {"delete", "drop"}, Doing(op),
           op = "drop" => at # "verify"
    PROVE  /\ Target \in Objects /\ there[Target] \in Written
           /\ Target \in Fleet => there[Target] = "ours"
           /\ \A d \in Dependants(Target) : there[d] \notin Written
<1>1. op \in (RecordOps \ {"restore", "audit", "sweep"}) \cap ObjectSteps
  BY DEF RecordOps, ObjectSteps
<1>2. /\ Script[pc].op = op /\ Target = Script[pc].r /\ RecordFits(pc)
      /\ Target \in Objects /\ Steps[pc].op = op
  BY <1>1, InRecord DEF Doing
<1>3. Made(pc, Target) /\ \A d \in Dependants(Target) : ~Made(pc, d)
  BY <1>2 DEF RecordFits
<1>4. there[Target] \in Written
  <2>1. ~(Doing("drop") /\ at = "verify")
    BY <1>2 DEF Doing
  <2> QED BY <1>2, <1>3, <2>1 DEF IInv, MadeIsThere
<1>5. Target \in Fleet => there[Target] = "ours"
  <2>1. Target \in Fleet => Target # "case"
    BY DEF Fleet, Integrations
  <2> QED BY <1>2, <1>4, <2>1 DEF IInv, MineIsWhole, Written
<1>6. ASSUME NEW d \in Dependants(Target) PROVE there[d] \notin Written
  <2>1. d \in Objects \ {"case"}
    BY DEF Dependants, Objects, Integrations, Dashboards, Views, Fleet
  <2>2. at # "reread"
    BY <1>2 DEF IInv, DoubtIsACreate, Doing
  <2> QED BY <1>3, <2>1, <2>2 DEF IInv, OnlyMadeIsThere, Uncertain
<1> QED BY <1>2, <1>4, <1>5, <1>6

\* Deleting an object of the script.
LEMMA DeleteKeeps ==
    ASSUME IInv, Flags', Delete
    PROVE  IInv'
<1>1. /\ Doing("delete") /\ Running /\ phase = "record" /\ faults' \in 0..MaxFaults
      /\ UNCHANGED <<own, claimed, lease, published, edits>>
  <2>1. Doing("delete") /\ (Sound \/ Fault)
    BY DEF Delete
  <2>2. "delete" \in RecordOps \ {"restore", "audit", "sweep"}
    BY DEF RecordOps, ObjectSteps
  <2> QED BY <2>1, <2>2, InRecord, FaultsInBound DEF Delete, Doing, held
<1>2. /\ Target \in Objects /\ there[Target] \in Written
      /\ Target \in Fleet => there[Target] = "ours"
  BY <1>1, MadeIsOurs
<1>3. CASE Stop /\ UNCHANGED stack
  <2>1. Kept'
    BY <1>1, <1>3, SameKept, Types DEF stack
  <2> QED BY <1>1, <1>3, <2>1, PlainStops DEF stack
<1>4. ASSUME Kept', there' = [there EXCEPT ![Target] = there'[Target]],
             there'[Target] \notin Written \/ Target = "case", Continue \/ Stop
      PROVE  IInv'
  <2>1. CASE Stop
    <3>1. failed' = TRUE
      BY <1>1, <2>1 DEF Stop
    <3> QED BY <1>1, <1>4, <2>1, <3>1, StopKeeps
  <2>2. CASE Continue
    <3>1. Steps[pc].op = "delete" /\ Script[pc].op = "delete" /\ Target = Script[pc].r
      BY <1>1, Here DEF Doing, Target
    <3>2. at # "reread" /\ ~Doing("prove")
      BY <3>1 DEF IInv, DoubtIsACreate, Doing
    <3>3. there \in [Objects -> ThereStates] /\ (Leased' <=> Leased)
      BY <1>1, Types DEF Leased
    <3>4. \A r \in Objects \ {Target} : there'[r] = there[r]
      BY <1>2, <1>4, <3>3
    <3>5. ASSUME NEW r \in LateClaims \cup Fleet, ~failed, there'[r] \in Written
          PROVE  r \in own'
      <4>1. r \in Objects /\ r # "case"
        BY DEF LateClaims, Fleet, Integrations, Objects, Indices
      <4> QED BY <1>1, <1>4, <3>2, <3>4, <3>5, <4>1, LateIsKnown
    <3> DEFINE x == Script[pc]
    <3>6. x.op = "delete" /\ x.r = Target
      BY <3>1
    <3> HIDE DEF x
    <3> QED BY <1>1, <1>4, <2>2, <3>2, <3>3, <3>4, <3>5, <3>6, RecordGoesOn DEF x
  <2> QED BY <1>4, <2>1, <2>2
<1>5. CASE there[Target] = "twice" /\ Put(Target, "ours") /\ UNCHANGED <<default, mover>>
           /\ (Continue \/ Stop)
  <2>1. Target = "case" /\ Target \in own /\ Target \notin Fleet
    <3>1. Target = "case"
      BY <1>2, <1>5 DEF IInv, MineIsWhole
    <3>2. "case" \notin LateClaims \cup Fleet
      BY DEF LateClaims, Fleet, Integrations
    <3> QED BY <1>2, <3>1, <3>2 DEF IInv, EarlyIsOwned
  <2>2. "ours" \in Written /\ "ours" # "twice" /\ "ours" # "joined"
    BY DEF Written
  <2>3. DefaultIsKept' /\ default' \in Defaults /\ mover' \in Movers
    BY <1>1, <1>5, SameDefault, Types
  <2>4. Kept' /\ there' = [there EXCEPT ![Target] = "ours"]
    BY <1>1, <1>2, <1>5, <2>1, <2>2, <2>3, PutKept, Types
  <2>5. there' = [there EXCEPT ![Target] = there'[Target]]
    BY <1>2, <2>4, Types
  <2> QED BY <1>4, <1>5, <2>1, <2>4, <2>5
<1>6. CASE there[Target] # "none" /\ Take(Target) /\ (Continue \/ Stop)
  <2>1. Kept' /\ there' = [there EXCEPT ![Target] = "none"]
    <3>1. there[Target] # "foreign"
      BY <1>2 DEF Written
    <3> QED BY <1>1, <1>2, <1>6, <3>1, TakeKept
  <2>2. /\ there' = [there EXCEPT ![Target] = there'[Target]]
        /\ there'[Target] \notin Written
    BY <1>2, <2>1, Types DEF Written
  <2> QED BY <1>4, <1>6, <2>1, <2>2
<1> QED BY <1>3, <1>5, <1>6 DEF Delete

-----------------------------------------------------------------------------
(* Fleet's objects: created once, read again, dropped once.                   *)

\* The session is at the same step, and what it has made is there or in doubt.
LEMMA RecordStays ==
    ASSUME IInv, Kept', Flags', phase = "record", at' \in Requests \ {"post", "delete"},
           UNCHANGED <<phase, pc, own, lease, failed, errors, published>>,
           DoubtIsACreate', MadeIsThere', OnlyMadeIsThere', LateIsOwned'
    PROVE  IInv'
<1>1. TypeOK'
  <2>1. phase' = "record" /\ pc' \in 1..Len(Steps')
    BY DEF IInv, TypeOK, Steps
  <2> QED BY <2>1 DEF TypeOK, Kept, DataOK, Flags, Requests
<1>2. (ClaimedIsOwned /\ LeaseIsHeld)'
  BY DEF IInv, ClaimedIsOwned, LeaseIsHeld, Claimed, LeaseTaken, Leased
<1>3. (RestoreIsDue /\ LookedAt)'
  BY DEF RestoreIsDue, LookedAt
<1>4. SweptIsGone'
  BY DEF SweptIsGone, Swept
<1>5. PublishedIsClean'
  BY DEF IInv, PublishedIsClean
<1> QED BY <1>1, <1>2, <1>3, <1>4, <1>5 DEF IInv, Kept

\* Where a one-shot request is made.
LEMMA InFleet ==
    ASSUME IInv, NEW op \in {"once", "duplicate", "drop"}, Doing(op)
    PROVE  /\ phase = "record" /\ Running /\ Steps[pc].op = op /\ Script[pc].op = op
           /\ Target = Script[pc].r /\ Target \in Fleet /\ Target \in Objects
           /\ Target # "case" /\ ~Doing("prove")
<1>1. op \in (RecordOps \ {"restore", "audit", "sweep"}) \cap ObjectSteps
  BY DEF RecordOps, ObjectSteps
<1>2. /\ phase = "record" /\ Script[pc].op = op /\ Script[pc] \in RecordSteps
      /\ Target = Script[pc].r /\ Steps[pc].op = op /\ Running /\ Target \in Objects
  BY <1>1, InRecord DEF Doing
<1>3. Target \in Fleet
  BY <1>2 DEF RecordSteps
<1> QED BY <1>2, <1>3 DEF Doing, Fleet, Integrations

\* A create that must not be sent again.
LEMMA CreateOnceKeeps ==
    ASSUME IInv, Flags', CreateOnce
    PROVE  IInv'
<1>1. PICK op \in {"once", "duplicate"} : Doing(op)
  BY DEF CreateOnce
<1>2. /\ phase = "record" /\ Running /\ Steps[pc].op = op /\ Script[pc].op = op
      /\ Target = Script[pc].r /\ Target \in Fleet /\ Target \in Objects
      /\ Target # "case" /\ ~Doing("prove") /\ ~Doing("drop")
  BY <1>1, InFleet DEF Doing
<1>3. /\ at = "first" /\ faults' \in 0..MaxFaults
      /\ UNCHANGED <<claimed, lease, published, edits>>
  BY FaultsInBound DEF CreateOnce
<1>4. ASSUME Put(Target, "ours"), UNCHANGED <<default, mover>>, own \subseteq own', own'
               \subseteq Objects
      PROVE  /\ Kept' /\ there' = [there EXCEPT ![Target] = "ours"]
             /\ there'[Target] \in Written
             /\ \A r \in Objects \ {Target} : there'[r] = there[r]
  <2>1. "ours" \in Written /\ "ours" # "twice" /\ "ours" # "joined"
    BY DEF Written
  <2>2. DefaultIsKept' /\ default' \in Defaults /\ mover' \in Movers
    BY <1>3, <1>4, SameDefault, Types
  <2>3. Kept' /\ there' = [there EXCEPT ![Target] = "ours"]
    BY <1>2, <1>3, <1>4, <2>1, <2>2, PutKept
  <2> QED BY <1>2, <2>1, <2>3, Types
<1>5. CASE Put(Target, "ours") /\ UNCHANGED <<default, mover>> /\ own' = own \cup {Target}
           /\ IF Doing("once") THEN Continue ELSE Stop
  <2>1. own \subseteq own' /\ own' \subseteq Objects
    BY <1>2, <1>5, Types
  <2>2. CASE Stop
    <3>1. failed' = TRUE
      BY <1>2, <2>2 DEF Stop
    <3> QED BY <1>2, <1>3, <1>4, <1>5, <2>1, <2>2, <3>1, StopKeeps
  <2>3. CASE Continue /\ Doing("once")
    <3>1. op = "once"
      BY <1>2, <2>3 DEF Doing
    <3>2. ASSUME NEW r \in LateClaims \cup Fleet, ~failed, there'[r] \in Written
          PROVE  r \in own'
      <4>1. r \in Objects
        BY DEF LateClaims, Fleet, Integrations, Objects, Indices
      <4> QED BY <1>2, <1>3, <1>4, <1>5, <2>1, <3>2, <4>1, LateIsKnown
    <3>3. Leased' <=> Leased
      BY <1>3 DEF Leased
    <3> DEFINE x == Script[pc]
    <3>4. x.op = "once" /\ x.r = Target
      BY <1>2, <3>1
    <3> HIDE DEF x
    <3> QED BY <1>2, <1>3, <1>4, <1>5, <2>1, <2>3, <3>2, <3>3, <3>4, RecordGoesOn DEF x
  <2> QED BY <1>5, <2>2, <2>3
<1>6. CASE Put(Target, "ours") /\ UNCHANGED <<default, mover>> /\ Then("reread") /\ UNCHANGED own
  <2>1. Kept' /\ there'[Target] \in Written
        /\ \A r \in Objects \ {Target} : there'[r] = there[r]
    BY <1>4, <1>6, Types
  <2>2. /\ UNCHANGED <<phase, pc, failed, errors>> /\ at' = "reread"
        /\ Target' = Target /\ Doing(op)'
    BY <1>1, <1>6 DEF Then, Target, Steps, Doing, Running
  <2>3. DoubtIsACreate'
    BY <1>1, <2>2 DEF DoubtIsACreate
  <2>4. MadeIsThere'
    BY <1>2, <2>1, <2>2 DEF IInv, MadeIsThere, Made
  <2>5. OnlyMadeIsThere'
    BY <1>2, <1>3, <2>1, <2>2 DEF IInv, OnlyMadeIsThere, Uncertain, Made
  <2>6. LateIsOwned'
    <3>1. ASSUME NEW r \in LateClaims \cup Fleet, ~failed, there'[r] \in Written
          PROVE  r \in own \/ r = Target
      <4>1. r \in Objects
        BY DEF LateClaims, Fleet, Integrations, Objects, Indices
      <4> QED BY <1>2, <1>3, <2>1, <3>1, <4>1, LateIsKnown
    <3> QED BY <1>2, <1>6, <2>2, <3>1 DEF LateIsOwned
  <2> QED BY <1>2, <1>3, <1>6, <2>1, <2>2, <2>3, <2>4, <2>5, <2>6, RecordStays DEF Requests
<1>7. CASE (Then("refused") \/ Then("reread")) /\ UNCHANGED <<stack, own>>
  <2>1. Kept'
    BY <1>3, <1>7, SameKept, Types DEF stack
  <2>2. /\ UNCHANGED <<phase, pc, failed, errors, there>> /\ at' \in {"refused", "reread"}
        /\ Target' = Target /\ Doing(op)'
    BY <1>1, <1>7 DEF Then, Target, Steps, Doing, Running, stack
  <2>3. DoubtIsACreate'
    BY <1>1, <2>2 DEF DoubtIsACreate
  <2>4. MadeIsThere'
    BY <1>2, <1>3, <2>2 DEF IInv, MadeIsThere, Made
  <2>5. OnlyMadeIsThere'
    BY <1>2, <1>3, <2>2 DEF IInv, OnlyMadeIsThere, Uncertain, Made
  <2>6. LateIsOwned'
    BY <1>2, <1>3, <1>7, <2>2, LateIsKnown DEF LateIsOwned
  <2> QED BY <1>2, <1>3, <1>7, <2>1, <2>2, <2>3, <2>4, <2>5, <2>6, RecordStays DEF Requests
<1> QED BY <1>5, <1>6, <1>7 DEF CreateOnce

\* Reading back a create whose answer was lost.
LEMMA ClaimAmbiguousKeeps ==
    ASSUME IInv, Flags', ClaimAmbiguous
    PROVE  IInv'
<1>1. PICK op \in {"once", "duplicate"} : Doing(op)
  BY DEF ClaimAmbiguous
<1>2. /\ phase = "record" /\ Running /\ Steps[pc].op = op /\ Script[pc].op = op
      /\ Target = Script[pc].r /\ Target \in Fleet /\ Target \in Objects /\ ~Doing("prove")
  BY <1>1, InFleet
<1>3. /\ faults' \in 0..MaxFaults
      /\ UNCHANGED <<there, default, mover, alerts, taken, claimed, lease, published, edits>>
  BY FaultsInBound DEF ClaimAmbiguous, stack
<1>4. own \subseteq own' /\ own' \subseteq own \cup {Target} /\ own' \subseteq Objects
  BY <1>2, Types DEF ClaimAmbiguous
<1>5. Kept' /\ (Leased' <=> Leased)
  <2>1. DefaultIsKept' /\ (Leased' <=> Leased) /\ lease' \in LeaseStates
    BY <1>3, SameDefault
  <2> QED BY <1>3, <1>4, <2>1, OwnKept, Types
<1>6. CASE Stop
  <2>1. failed' = TRUE
    BY <1>2, <1>6 DEF Stop
  <2> QED BY <1>2, <1>3, <1>5, <1>6, <2>1, StopKeeps
<1>7. CASE Continue /\ Doing("duplicate") /\ at = "refused"
  <2>1. op = "duplicate"
    BY <1>2, <1>7 DEF Doing
  <2>2. \A r \in LateClaims \cup Fleet : ~failed /\ there'[r] \in Written => r \in own'
    BY <1>2, <1>3, <1>4, <1>7, LateIsKnown
  <2> DEFINE x == Script[pc]
  <2>3. x.op = "duplicate" /\ x.r = Target
    BY <1>2, <2>1
  <2> HIDE DEF x
  <2> QED BY <1>2, <1>3, <1>4, <1>5, <1>7, <2>2, <2>3, RecordGoesOn DEF x
<1> QED BY <1>6, <1>7 DEF ClaimAmbiguous

\* Deleting an object of Fleet, which is looked at first.
LEMMA DropKeeps ==
    ASSUME IInv, Flags', Drop
    PROVE  IInv'
<1>1. /\ phase = "record" /\ Running /\ Script[pc].op = "drop" /\ Doing("drop")
      /\ Target = Script[pc].r /\ Target \in Fleet /\ Target \in Objects /\ ~Doing("prove")
  BY InFleet DEF Drop
<1>2. /\ at = "first" /\ faults' \in 0..MaxFaults /\ Then("verify")
      /\ UNCHANGED <<own, claimed, lease, published, edits>>
  BY FaultsInBound DEF Drop, held
<1>3. there[Target] = "ours"
  BY <1>1, <1>2, MadeIsOurs
<1>4. /\ Kept'
      /\ \A r \in Objects \ {Target} : there'[r] = there[r]
      /\ \A r \in Objects : there'[r] \in Written => there[r] \in Written
  <2>1. CASE UNCHANGED stack
    BY <1>2, <2>1, SameKept, Types DEF stack
  <2>2. CASE there[Target] # "none" /\ Take(Target)
    <3>1. Kept' /\ there' = [there EXCEPT ![Target] = "none"]
      BY <1>1, <1>2, <1>3, <2>2, TakeKept
    <3> QED BY <1>1, <3>1, Types DEF Written
  <2> QED BY <2>1, <2>2 DEF Drop
<1>5. /\ UNCHANGED <<phase, pc, failed, errors>> /\ at' = "verify"
      /\ Target' = Target /\ Doing("drop")'
  BY <1>1, <1>2 DEF Then, Target, Steps, Doing, Running
<1>6. DoubtIsACreate'
  BY <1>5 DEF DoubtIsACreate
<1>7. MadeIsThere'
  BY <1>1, <1>2, <1>4, <1>5 DEF IInv, MadeIsThere, Made
<1>8. OnlyMadeIsThere'
  BY <1>1, <1>2, <1>4, <1>5 DEF IInv, OnlyMadeIsThere, Uncertain, Made
<1>9. LateIsOwned'
  <2>1. ASSUME NEW r \in LateClaims \cup Fleet, ~failed, there'[r] \in Written
        PROVE  r \in own
    <3>1. r \in Objects
      BY DEF LateClaims, Fleet, Integrations, Objects, Indices
    <3> QED BY <1>1, <1>2, <1>4, <2>1, <3>1, LateIsKnown
  <2> QED BY <1>2, <1>5, <2>1 DEF LateIsOwned
<1> QED BY <1>1, <1>2, <1>4, <1>5, <1>6, <1>7, <1>8, <1>9, RecordStays DEF Requests

\* Reading back that it is gone.
LEMMA DropVerifiedKeeps ==
    ASSUME IInv, Flags', DropVerified
    PROVE  IInv'
<1>1. /\ phase = "record" /\ Running /\ Script[pc].op = "drop"
      /\ Target = Script[pc].r /\ Target \in Fleet /\ Target \in Objects /\ ~Doing("prove")
  BY InFleet DEF DropVerified
<1>2. /\ UNCHANGED <<there, default, mover, alerts, taken, claimed, lease, published, edits>>
      /\ faults' \in 0..MaxFaults /\ at = "verify"
  BY FaultsInBound DEF DropVerified, stack
<1>3. CASE Stop /\ UNCHANGED own
  <2>1. Kept'
    BY <1>2, <1>3, SameKept, Types
  <2> QED BY <1>1, <1>2, <1>3, <2>1, PlainStops
<1>4. CASE Continue /\ own' = own \ {Target} /\ there[Target] = "none"
  <2>1. there[Target] \notin Written
    BY <1>4 DEF Written
  <2>2. DefaultIsKept' /\ (Leased' <=> Leased) /\ lease' \in LeaseStates
    BY <1>2, SameDefault
  <2>3. own' \subseteq Objects /\ claimed' \subseteq Objects
    BY <1>2, <1>4, Types
  <2>4. Kept'
    BY <1>2, <1>4, <2>1, <2>2, <2>3, OwnKept
  <2>5. \A r \in LateClaims \cup Fleet : ~failed /\ there'[r] \in Written => r \in own'
    BY <1>1, <1>2, <1>4, <2>1, LateIsKnown
  <2> DEFINE x == Script[pc]
  <2>6. x.op = "drop" /\ x.r = Target
    BY <1>1
  <2> HIDE DEF x
  <2> QED BY <1>1, <1>2, <1>4, <2>1, <2>2, <2>4, <2>5, <2>6, RecordGoesOn DEF x
<1> QED BY <1>3, <1>4 DEF DropVerified

-----------------------------------------------------------------------------
(* Cleanup.                                                                  *)

\* Without an error, what is owned is due when its turn comes.
LEMMA DueInTurn ==
    ASSUME IInv, Doing("remove"), ~errors, Target \in own
    PROVE  Due(Target)
<1>1. /\ phase = "cleanup" /\ pc \in 1..Len(Sweep) /\ Sweep[pc] = Do("remove", Target)
      /\ Target \in Objects /\ Sweep[pc].op = "remove" /\ Sweep[pc].r = Target
  BY InCleanup DEF Do
<1>2. \A step : Before(pc, step) => Swept(step)
  BY <1>1 DEF Before, Swept
<1>3. ASSUME NEW d \in Objects \ {"case"}, Before(pc, Do("remove", d))
      PROVE  d \notin own
  BY <1>2, <1>3 DEF IInv, SweptIsGone
<1>4. Integrations \cup Dashboards \cup Views \subseteq Objects \ {"case"}
  BY DEF Objects, Integrations, Dashboards, Views, Fleet
<1>5. Target = "parent" => own \cap Integrations = {}
  BY <1>1, <1>3, <1>4, SweepFits
<1>6. Target \in Views \cup {"data_view_index"} => ~Leased /\ own \cap Dashboards = {}
  <2>1. ASSUME Target \in Views \cup {"data_view_index"}
        PROVE  /\ Before(pc, Do("restore", "stack"))
               /\ \A d \in Dashboards : Before(pc, Do("remove", d))
    BY <1>1, <2>1, SweepFits
  <2>2. Swept(Do("restore", "stack")) => ~Leased
    BY DEF IInv, SweptIsGone
  <2> QED BY <1>2, <1>3, <1>4, <2>1, <2>2
<1>7. Target = "data_view_index" => own \cap Views = {}
  BY <1>1, <1>3, <1>4, SweepFits
<1> QED BY <1>5, <1>6, <1>7 DEF Due

\* A removal that is over: the object is not owned any more, or it is the case and gone.
LEMMA RemovalEnds ==
    ASSUME IInv, Kept', Flags', Doing("remove"), Continue, own' \subseteq own,
           UNCHANGED <<lease, published>>,
           \A r \in Objects : there'[r] \in Written => there[r] \in Written,
           \A r \in Objects : r \in own /\ r \notin own' => r = Target
             /\ there'[r] \notin Written,
           ~errors => Target \notin own' \/ (Target = "case" /\ there'["case"] \notin Written)
    PROVE  IInv'
<1>1. phase = "cleanup" /\ Sweep[pc] = Do("remove", Target) /\ Target \in Objects
  BY InCleanup
<1>2. Leased' <=> Leased
  BY DEF Leased
<1>3. ASSUME ~failed, NEW r \in LateClaims \cup Fleet, there'[r] \in Written
      PROVE  r \in own'
  <2>1. r \in Objects
    BY DEF LateClaims, Fleet, Integrations, Objects, Indices
  <2> QED BY <1>1, <1>3, <2>1 DEF IInv, LateIsOwned
<1>4. "case" \in Objects
  BY DEF Objects
<1> DEFINE x == Sweep[pc]
<1>5. x.op = "remove" /\ x.r = Target
  BY <1>1 DEF Do
<1> HIDE DEF x
<1> QED BY <1>1, <1>2, <1>3, <1>4, <1>5, CleanupGoesOn DEF x

\* Cleanup passes an object that it need not or must not delete.
LEMMA NotDueKeeps ==
    ASSUME IInv, Flags', NotDue
    PROVE  IInv'
<1>1. /\ Doing("remove") /\ Continue /\ ~Due(Target) /\ faults' \in 0..MaxFaults
      /\ UNCHANGED <<there, own, claimed, lease, default, mover, alerts, taken, published, edits>>
  BY Types DEF NotDue, stack, held
<1>2. Kept'
  BY <1>1, SameKept, Types
<1>3. ~errors => Target \notin own
  BY <1>1, DueInTurn
<1> QED BY <1>1, <1>2, <1>3, RemovalEnds

\* The ownership ends with a read that does not find the object.
LEMMA ReleasedKeeps ==
    ASSUME IInv, Flags', Doing("remove"), Continue, there[Target] \notin Written,
           own' = Released,
           faults' \in 0..MaxFaults,
           UNCHANGED <<there, claimed, lease, default, mover, alerts, taken, published, edits>>
    PROVE  IInv'
<1>2. own' \subseteq own /\ own' \subseteq Objects /\ claimed' \subseteq Objects
  BY Types DEF Released
<1>3. DefaultIsKept' /\ (Leased' <=> Leased) /\ lease' \in LeaseStates
  BY SameDefault
<1>4. Kept'
  BY <1>2, <1>3, OwnKept DEF Released
<1>5. Target \notin own' \/ Target = "case"
  BY DEF Released
<1>6. \A r \in Objects : r \in own /\ r \notin own' => r = Target
  BY DEF Released
<1> QED BY <1>2, <1>4, <1>5, <1>6, RemovalEnds

\* Cleanup reads an object it owns.
LEMMA LookKeeps ==
    ASSUME IInv, Flags', Look
    PROVE  IInv'
<1>1. /\ Doing("remove") /\ Running /\ at = "first" /\ Due(Target) /\ faults' \in 0..MaxFaults
      /\ UNCHANGED <<there, claimed, lease, default, mover, alerts, taken, published, edits>>
  BY FaultsInBound DEF Look, Doing, stack
<1>2. CASE there[Target] \in {"none", "foreign"} /\ Continue /\ own' = Released
  BY <1>1, <1>2, ReleasedKeeps DEF Written
<1>3. CASE /\ there[Target] # "none" /\ Proves(Target, there[Target])
           /\ Target = "parent" => ~Attached
           /\ Then("delete") /\ UNCHANGED own
  <2>1. Kept'
    BY <1>1, <1>3, SameKept, Types
  <2>2. ~Doing("drop") /\ ~Doing("restore")
    BY <1>1 DEF Doing
  <2> QED BY <1>1, <1>3, <2>1, <2>2, SameStepKeeps DEF Then, Requests
<1>4. CASE Stop /\ UNCHANGED own
  <2>1. Kept'
    BY <1>1, <1>4, SameKept, Types
  <2> QED BY <1>1, <1>4, <2>1, PlainStops
<1> QED BY <1>2, <1>3, <1>4 DEF Look

\* Cleanup reads back that an object is gone.
LEMMA RemoveVerifiedKeeps ==
    ASSUME IInv, Flags', RemoveVerified
    PROVE  IInv'
<1>1. /\ Doing("remove") /\ Running /\ faults' \in 0..MaxFaults
      /\ UNCHANGED <<there, claimed, lease, default, mover, alerts, taken, published, edits>>
  BY FaultsInBound DEF RemoveVerified, Doing, stack
<1>2. CASE there[Target] = "none" /\ Continue /\ own' = Released
  BY <1>1, <1>2, ReleasedKeeps DEF Written
<1>3. CASE Stop /\ UNCHANGED own
  <2>1. Kept'
    BY <1>1, <1>3, SameKept, Types
  <2> QED BY <1>1, <1>3, <2>1, PlainStops
<1> QED BY <1>2, <1>3 DEF RemoveVerified

\* Cleanup deletes an object it has just found its own.
LEMMA RemoveKeeps ==
    ASSUME IInv, Flags', Remove
    PROVE  IInv'
<1>1. /\ Doing("remove") /\ Running /\ at = "delete" /\ faults' \in 0..MaxFaults
      /\ UNCHANGED <<claimed, lease, published, edits>>
  BY FaultsInBound DEF Remove, Doing
<1>2. phase = "cleanup" /\ Target \in Objects
  BY <1>1, InCleanup
<1>3. there[Target] # "none" /\ Proves(Target, there[Target])
  BY <1>1 DEF IInv, LookedAt
<1>4. /\ there[Target] = "foreign" => Target \in {"source", "replacement"}
      /\ Target \in Fleet => there[Target] = "ours"
  BY <1>3 DEF Proves, Written
<1>5. ASSUME Take(Target), own' \subseteq own, \A q \in Objects \ {Target} : q \in own
               => q \in own'
      PROVE  /\ Kept' /\ there'[Target] = "none"
             /\ \A r \in Objects \ {Target} : there'[r] = there[r]
             /\ \A r \in Objects : there'[r] \in Written => there[r] \in Written /\ r # Target
  <2>1. Kept' /\ there' = [there EXCEPT ![Target] = "none"]
    BY <1>1, <1>2, <1>3, <1>4, <1>5, TakeKept
  <2> QED BY <1>2, <2>1, Types DEF Written
<1>6. \A r \in LateClaims \cup Fleet : r \in Objects
  BY DEF LateClaims, Fleet, Integrations, Objects, Indices
<1>7. CASE Take(Target) /\ Stop /\ UNCHANGED own
  <2>1. ASSUME ~failed', NEW r \in LateClaims \cup Fleet, there'[r] \in Written
        PROVE  r \in own'
    <3>1. ~failed
      BY <1>2, <1>7, <2>1 DEF Stop
    <3> QED BY <1>2, <1>5, <1>6, <1>7, <2>1, <3>1 DEF IInv, LateIsOwned
  <2> QED BY <1>1, <1>5, <1>7, <2>1, StopKeeps
<1>8. CASE /\ Take(Target) /\ Target \notin Verified /\ Continue /\ own' = own \ {Target}
  <2>1. own' \subseteq own /\ Target \notin own'
    BY <1>8
  <2>2. "none" \notin Written
    BY DEF Written
  <2> QED BY <1>1, <1>5, <1>8, <2>1, <2>2, RemovalEnds
<1>9. CASE Take(Target) /\ Then("verify") /\ UNCHANGED own
  <2>1. /\ Kept' /\ there'[Target] = "none"
        /\ \A r \in Objects \ {Target} : there'[r] = there[r]
        /\ \A r \in Objects : there'[r] \in Written => there[r] \in Written /\ r # Target
    BY <1>5, <1>9
  <2>2. /\ UNCHANGED <<phase, pc, failed, errors, own>> /\ at' = "verify"
             /\ phase' = "cleanup"
        /\ Leased' <=> Leased
    BY <1>1, <1>2, <1>9 DEF Then, Leased
  <2>3. TypeOK'
    <3>1. phase' = "cleanup" /\ pc' \in 1..Len(Steps')
      BY <1>2, <2>2 DEF IInv, TypeOK, Steps
    <3> QED BY <2>1, <2>2, <3>1 DEF TypeOK, Kept, DataOK, Flags, Requests
  <2>4. (DoubtIsACreate /\ MadeIsThere /\ OnlyMadeIsThere /\ ClaimedIsOwned /\ LeaseIsHeld)'
    BY <2>2 DEF DoubtIsACreate, MadeIsThere, OnlyMadeIsThere, ClaimedIsOwned, LeaseIsHeld
  <2>5. LateIsOwned'
    BY <1>2, <1>6, <2>1, <2>2 DEF IInv, LateIsOwned
  <2>6. (RestoreIsDue /\ LookedAt)'
    BY <2>2 DEF RestoreIsDue, LookedAt
  <2>7. SweptIsGone'
    BY <2>1, <2>2 DEF IInv, SweptIsGone, Swept
  <2>8. PublishedIsClean'
    BY <1>1, <1>2, <2>2 DEF IInv, PublishedIsClean
  <2> QED BY <2>1, <2>3, <2>4, <2>5, <2>6, <2>7, <2>8 DEF IInv, Kept
<1>10. CASE Stop /\ UNCHANGED <<stack, own>>
  <2>1. Kept'
    BY <1>1, <1>10, SameKept, Types DEF stack
  <2> QED BY <1>1, <1>10, <2>1, PlainStops DEF stack
<1> QED BY <1>7, <1>8, <1>9, <1>10 DEF Remove

-----------------------------------------------------------------------------
(* The end of the program, and the rest of the world.                         *)

\* The fixtures are written when both parts have succeeded.
LEMMA WriteRecordingKeeps ==
    ASSUME IInv, Flags', WriteRecording
    PROVE  IInv'
<1>1. /\ phase = "write" /\ phase' = "done" /\ published' = TRUE
      /\ UNCHANGED <<pc, at, there, own, claimed, lease, default, mover, alerts, taken, failed,
           errors,
                     faults, edits>>
  BY DEF WriteRecording, stack, held
<1>2. Kept' /\ (Leased' <=> Leased)
  BY <1>1, SameKept, Types DEF Leased
<1>3. TypeOK'
  <2>1. phase' = "done" /\ pc' \in 1..Len(Steps')
    BY <1>1 DEF IInv, TypeOK, Steps
  <2>2. at' \in Requests
    BY <1>1, KeptIs
  <2> QED BY <1>2, <2>1, <2>2 DEF TypeOK, Kept, DataOK, Flags, Requests
<1>4. DoubtIsACreate'
  BY <1>1 DEF IInv, DoubtIsACreate, Doing, Running
<1>5. (MadeIsThere /\ OnlyMadeIsThere /\ ClaimedIsOwned /\ LeaseIsHeld)'
  BY <1>1 DEF MadeIsThere, OnlyMadeIsThere, ClaimedIsOwned, LeaseIsHeld
<1>6. LateIsOwned'
  BY <1>1 DEF IInv, LateIsOwned
<1>7. (RestoreIsDue /\ LookedAt)'
  BY <1>1 DEF RestoreIsDue, LookedAt, Doing, Running
<1>8. SweptIsGone'
  BY <1>1, <1>2 DEF IInv, SweptIsGone, Swept
<1>9. PublishedIsClean'
  BY <1>1 DEF IInv, PublishedIsClean
<1> QED BY <1>2, <1>3, <1>4, <1>5, <1>6, <1>7, <1>8, <1>9 DEF IInv, Kept

\* What the others create is not the session's.
LEMMA OthersCreateKeeps ==
    ASSUME IInv, Flags', OthersCreate
    PROVE  IInv'
<1>1. PICK r \in Shared, v \in {"marked", "foreign"} :
        there[r] = "none" /\ there' = [there EXCEPT ![r] = v]
  BY DEF OthersCreate
<1>2. /\ edits' \in 0..MaxEdits
      /\ UNCHANGED <<phase, pc, at, own, claimed, lease, default, mover, alerts, taken, failed,
           errors,
                     published, faults>>
  BY Types, RecorderAssumption DEF OthersCreate, held
<1>3. /\ r \in Objects /\ there' \in [Objects -> ThereStates]
      /\ \A q \in Objects : there'[q] \in Written <=> there[q] \in Written
      /\ \A q \in Objects : there[q] # "none" => there'[q] = there[q]
      /\ \A q \in Objects : there'[q] \in Written => there'[q] = there[q]
  BY <1>1, Types, RecorderAssumption DEF ThereStates, Written
<1>4. /\ Steps' = Steps /\ Target' = Target
      /\ Running' <=> Running
      /\ Leased' <=> Leased
  BY <1>2 DEF Steps, Target, Running, Leased
<1>5. Attached' <=> Attached
  BY <1>3 DEF Attached, Objects, Fleet, Integrations, Written
<1>6. Kept'
  <2>1. Kept
    BY KeptIs
  <2>2. DataOK'
    BY <1>2, <1>3, <2>1 DEF Kept, DataOK, ThereStates
  <2>3. MineIsWhole'
    BY <1>3, <2>1 DEF Kept, MineIsWhole, Written, Fleet, Integrations, Objects
  <2>4. EarlyIsOwned' /\ ForeignSurvives' /\ DefaultIsKept'
    BY <1>2, <1>3, <2>1, SameDefault DEF Kept, EarlyIsOwned, ForeignSurvives
  <2> QED BY <2>2, <2>3, <2>4 DEF Kept
<1>7. TypeOK'
  <2>1. phase' \in {"record", "cleanup", "write", "done"} /\ pc' \in 1..Len(Steps')
    BY <1>2, <1>4 DEF IInv, TypeOK
  <2>2. at' \in Requests
    BY <1>2, KeptIs
  <2> QED BY <1>6, <2>1, <2>2 DEF TypeOK, Kept, DataOK, Flags, Requests
<1>8. DoubtIsACreate'
  BY <1>2 DEF IInv, DoubtIsACreate, Doing, Running, Steps
<1>9. MadeIsThere'
  BY <1>2, <1>3 DEF IInv, MadeIsThere, Made, Doing, Running, Steps, Target
<1>10. OnlyMadeIsThere'
  BY <1>2, <1>3 DEF IInv, OnlyMadeIsThere, Uncertain, Made, Steps, Target
<1>11. (ClaimedIsOwned /\ LeaseIsHeld)'
  BY <1>2, <1>4 DEF IInv, ClaimedIsOwned, LeaseIsHeld, Claimed, LeaseTaken
<1>12. LateIsOwned'
  <2>1. \A q \in LateClaims \cup Fleet : q \in Objects
    BY DEF LateClaims, Fleet, Integrations, Objects, Indices
  <2> QED BY <1>2, <1>3, <2>1 DEF IInv, LateIsOwned, Doing, Running, Steps, Target
<1>13. RestoreIsDue'
  BY <1>2 DEF IInv, RestoreIsDue, Doing, Running, Steps, Leased
<1>14. LookedAt'
  <2>1. ASSUME Doing("remove")', at' = "delete"
        PROVE  Doing("remove") /\ at = "delete" /\ Target \in Objects
    <3>1. Doing("remove") /\ at = "delete"
      BY <1>2, <2>1 DEF Doing, Running, Steps
    <3> QED BY <3>1, InCleanup
  <2>2. Due(Target)' <=> Due(Target)
    BY <1>2, <1>4 DEF Due
  <2>3. ASSUME Doing("remove")', at' = "delete"
        PROVE  /\ there'[Target] # "none" /\ Proves(Target, there'[Target]) /\ Due(Target)
               /\ Target = "parent" => ~Attached
    BY <1>3, <2>1, <2>3 DEF IInv, LookedAt
  <2> QED BY <1>4, <1>5, <2>2, <2>3 DEF LookedAt
<1>15. SweptIsGone'
  <2>1. "case" \in Objects
    BY DEF Objects
  <2> QED BY <1>2, <1>3, <1>4, <2>1 DEF IInv, SweptIsGone, Swept
<1>16. PublishedIsClean'
  BY <1>2 DEF IInv, PublishedIsClean
<1> QED BY <1>6, <1>7, <1>8, <1>9, <1>10, <1>11, <1>12, <1>13, <1>14, <1>15, <1>16 DEF IInv,
       Kept

\* Another client chooses a default.
LEMMA OthersSetDefaultKeeps ==
    ASSUME IInv, Flags', OthersSetDefault
    PROVE  IInv'
<1>1. /\ edits' \in 0..MaxEdits /\ default' \in {"others"} \cup Unset /\ mover' = "unseen"
      /\ UNCHANGED <<phase, pc, at, there, own, claimed, lease, alerts, taken, failed, errors,
                     published, faults>>
  BY Types, RecorderAssumption DEF OthersSetDefault, held
<1>2. default' \in Defaults /\ mover' \in Movers /\ DefaultIsKept'
  BY <1>1 DEF IInv, DefaultIsKept, Defaults, Movers, Unset, Leased
<1>3. Kept'
  BY <1>1, <1>2, DefaultKept, Types
<1>4. Doing("remove") /\ at' = "delete" =>
        /\ there[Target] # "none" /\ Proves(Target, there[Target]) /\ Due(Target)
        /\ Target = "parent" => ~Attached
  BY <1>1 DEF IInv, LookedAt
<1>5. at' \in Requests
  BY <1>1, KeptIs
<1>6. Doing("restore") /\ at' = "post" =>
        Leased /\ (Restorable(lease, default') \/ mover' = "unseen")
  BY <1>1 DEF IInv, RestoreIsDue
<1> QED BY <1>1, <1>3, <1>4, <1>5, <1>6, SameStepKeeps

\* The alert rule runs.
LEMMA FireKeeps ==
    ASSUME IInv, Flags', Fire
    PROVE  IInv'
<1>1. /\ Running /\ alerts' = "open"
      /\ UNCHANGED <<phase, pc, at, there, own, claimed, lease, default, mover, taken, failed,
           errors,
                     published, faults, edits>>
  BY DEF Fire, held
<1>2. Kept'
  BY <1>1, SameKept, Types
<1>3. Doing("remove") /\ at' = "delete" =>
        /\ there[Target] # "none" /\ Proves(Target, there[Target]) /\ Due(Target)
        /\ Target = "parent" => ~Attached
  BY <1>1 DEF IInv, LookedAt
<1>4. Doing("restore") /\ at' = "post" =>
        Leased /\ (Restorable(lease, default') \/ mover' = "unseen")
  BY <1>1 DEF IInv, RestoreIsDue
<1>5. at' \in Requests
  BY <1>1, KeptIs
<1> QED BY <1>1, <1>2, <1>3, <1>4, <1>5, SameStepKeeps

\* Nothing happens.
LEMMA StutterKeeps ==
    ASSUME IInv, UNCHANGED vars
    PROVE  IInv'
<1>1. UNCHANGED <<phase, pc, at, there, own, claimed, armed, lease, default, mover, enabled,
                  alerts, failed, errors, published, taken, faults, edits>>
  BY DEF vars
<1>2. Kept'
  BY <1>1, SameKept, Types
<1>3. Flags'
  BY <1>1, KeptIs, Zenon DEF Flags
<1>4. Doing("remove") /\ at' = "delete" =>
        /\ there[Target] # "none" /\ Proves(Target, there[Target]) /\ Due(Target)
        /\ Target = "parent" => ~Attached
  BY <1>1 DEF IInv, LookedAt
<1>5. Doing("restore") /\ at' = "post" =>
        Leased /\ (Restorable(lease, default') \/ mover' = "unseen")
  BY <1>1 DEF IInv, RestoreIsDue
<1>6. at' \in Requests
  BY <1>1, KeptIs
<1> QED BY <1>1, <1>2, <1>3, <1>4, <1>5, <1>6, SameStepKeeps

-----------------------------------------------------------------------------
(* The invariant.                                                            *)

\* A session starts with a stack that has nothing of it.
LEMMA RecorderStart ==
    ASSUME Init
    PROVE  IInv
<1>1. /\ phase = "record" /\ pc = 1 /\ at = "first" /\ Steps = Script
      /\ \A r \in Objects : there[r] = "none"
      /\ \A r \in Objects : there[r] \notin Written
      /\ \A r \in Objects \ {"case"} : there[r] \notin Written
      /\ \A r \in Objects \ (LateClaims \cup Fleet) : there[r] \notin Written
  BY DEF Init, Steps, Written
<1>2. Flags
  BY Zenon DEF Init, Flags
<1>3. TypeOK
  <2>1. there \in [Objects -> {"none", "marked", "foreign"} \cup Written]
    BY DEF Init
  <2>2. pc \in 1..Len(Steps)
    BY <1>1, ScriptFits
  <2>3. 0 \in 0..MaxFaults /\ 0 \in 0..MaxEdits
    BY RecorderAssumption
  <2> QED BY <1>1, <1>2, <2>1, <2>2, <2>3 DEF Init, TypeOK, Flags, Unset
<1>4. DoubtIsACreate /\ RestoreIsDue /\ LookedAt
  BY <1>1 DEF DoubtIsACreate, RestoreIsDue, LookedAt
<1>5. LateClaims \cup Fleet \subseteq Objects
  BY DEF LateClaims, Fleet, Integrations, Objects, Indices
<1>6. MineIsWhole /\ EarlyIsOwned /\ LateIsOwned
  BY <1>1, <1>5 DEF MineIsWhole, EarlyIsOwned, LateIsOwned, Written
<1>7. MadeIsThere /\ OnlyMadeIsThere /\ ClaimedIsOwned /\ LeaseIsHeld
  BY <1>1, ScriptBegins DEF MadeIsThere, OnlyMadeIsThere, ClaimedIsOwned, LeaseIsHeld
<1>8. DefaultIsKept /\ SweptIsGone /\ PublishedIsClean /\ ForeignSurvives
  BY <1>1 DEF Init, DefaultIsKept, SweptIsGone, Swept, PublishedIsClean, ForeignSurvives, Unset
<1> QED BY <1>3, <1>4, <1>6, <1>7, <1>8 DEF IInv

\* Every step of the session, of its cleanup and of others keeps the invariant.
LEMMA RecorderNext ==
    ASSUME IInv, [Next]_vars
    PROVE  IInv'
<1>1. CASE UNCHANGED vars
  BY <1>1, StutterKeeps
<1>2. CASE Next
  <2>1. Flags'
    BY <1>2, KeptIs, FlagsNext
  <2>2. CASE \/ RequireAbsent \/ Unclaimed \/ Use \/ Recheck \/ CheckLeased \/ Dangling
             \/ Quiet \/ Poll \/ Disable \/ Close \/ Audit \/ Arm
    BY <2>1, <2>2, LookingKeeps
  <2>3. CASE \/ Snapshot \/ Stake \/ SetDefault \/ RestoreRead \/ RestorePost \/ RestoreVerify
             \/ SweepDisable \/ SweepCheck \/ SweepClose
    BY <2>1, <2>3, SnapshotKeeps, StakeKeeps, SetDefaultKeeps, RestoreReadKeeps,
       RestorePostKeeps, RestoreVerifyKeeps, SweepAlertsKeeps
  <2>4. CASE \/ Claim \/ TakeLease \/ Prove \/ Gone \/ Create \/ Write \/ Conflict \/ Delete
    BY <2>1, <2>4, ClaimKeeps, TakeLeaseKeeps, ProveKeeps, GoneKeeps, CreateKeeps,
       WriteKeeps, ConflictKeeps, DeleteKeeps
  <2>5. CASE \/ CreateOnce \/ ClaimAmbiguous \/ Drop \/ DropVerified
    BY <2>1, <2>5, CreateOnceKeeps, ClaimAmbiguousKeeps, DropKeeps, DropVerifiedKeeps
  <2>6. CASE \/ NotDue \/ Look \/ Remove \/ RemoveVerified
    BY <2>1, <2>6, NotDueKeeps, LookKeeps, RemoveKeeps, RemoveVerifiedKeeps
  <2>7. CASE \/ WriteRecording \/ Exited \/ OthersCreate \/ OthersSetDefault \/ Fire
    BY <2>1, <2>7, WriteRecordingKeeps, StutterKeeps, OthersCreateKeeps,
       OthersSetDefaultKeeps, FireKeeps DEF Exited
  <2> QED BY <1>2, <2>2, <2>3, <2>4, <2>5, <2>6, <2>7 DEF Next
<1> QED BY <1>1, <1>2

\* At each of its steps, whatever failed before and whatever other clients did meanwhile,
\* the session has on the stack what its script has made, and owns what it must.
THEOREM RecorderInvariant ==
    Spec => []IInv
BY RecorderStart, RecorderNext, PTL DEF Spec

\* Every variable keeps its type.
THEOREM RecorderTypeOK ==
    Spec => []TypeOK
<1>1. IInv => TypeOK
  BY DEF IInv
<1> QED BY <1>1, RecorderInvariant, PTL

\* Neither the script nor cleanup deletes what is not the session's, but for two data views.
THEOREM RecorderForeignSurvives ==
    Spec => []ForeignSurvives
<1>1. IInv => ForeignSurvives
  BY DEF IInv
<1> QED BY <1>1, RecorderInvariant, PTL

\* When the fixtures are written nothing of the session is left, and when only the
\* recording failed, nothing that was claimed before it was created.
THEOREM RecorderNothingLeftBehind ==
    Spec => []NothingLeftBehind
<1>1. ASSUME IInv PROVE NothingLeftBehind
  <2>1. ASSUME phase = "done", ~errors
        PROVE  /\ \A r \in Objects \ (LateClaims \cup Fleet) : there[r] \notin Written
               /\ own \subseteq {"case"} /\ ~Leased
    <3>1. \A step : Swept(step)
      BY <2>1 DEF Swept
    <3>2. /\ ~Leased
          /\ \A r \in Objects : r \notin own \/ (r = "case" /\ there[r] \notin Written)
      BY <1>1, <2>1, <3>1 DEF IInv, SweptIsGone
    <3> QED BY <1>1, <3>2, Types DEF IInv, EarlyIsOwned
  <2>2. ASSUME published
        PROVE  /\ phase = "done" /\ ~errors /\ alerts # "open"
               /\ \A r \in LateClaims \cup Fleet : there[r] \notin Written
    <3>1. phase = "done" /\ ~failed /\ ~errors /\ alerts # "open"
      BY <1>1, <2>2 DEF IInv, PublishedIsClean
    <3>2. own \subseteq {"case"} /\ "case" \notin LateClaims \cup Fleet
      BY <2>1, <3>1 DEF LateClaims, Fleet, Integrations
    <3> QED BY <1>1, <3>1, <3>2 DEF IInv, LateIsOwned
  <2> QED BY <2>1, <2>2 DEF NothingLeftBehind
<1> QED BY <1>1, RecorderInvariant, PTL

-----------------------------------------------------------------------------
(* What a step may do to the objects and to the default.                      *)

\* Only three actions take an object of the session away.
LEMMA OnlyThreeDelete ==
    ASSUME IInv, Next, NEW r \in Objects, there[r] \in Written, there'[r] = "none"
    PROVE  r = Target /\ (Delete \/ Drop \/ Remove)
<1>1. "none" \notin Written /\ there \in [Objects -> ThereStates]
  BY Types DEF Written
<1>2. there'[r] # there[r]
  BY <1>1
<1>3. ASSUME NEW q, NEW v, Put(q, v), v # "none" PROVE FALSE
  BY <1>1, <1>2, <1>3 DEF Put
<1>4. ASSUME NEW q, Take(q) PROVE r = q
  BY <1>1, <1>2, <1>4 DEF Take
<1>5. ~(RequireAbsent \/ Unclaimed \/ Claim \/ Prove \/ Use \/ Gone)
  BY <1>2 DEF RequireAbsent, Unclaimed, Claim, Prove, Use, Gone, stack, held
<1>6. ~(Arm \/ ClaimAmbiguous \/ Recheck \/ DropVerified \/ Audit \/ Snapshot)
  BY <1>2 DEF Arm, ClaimAmbiguous, Recheck, DropVerified, Audit, Snapshot, stack, held
<1>7. ~(TakeLease \/ CheckLeased \/ Stake \/ SetDefault \/ Dangling \/ RestoreRead)
  BY <1>2 DEF TakeLease, CheckLeased, Stake, SetDefault, Dangling, RestoreRead, stack, held
<1>8. ~(RestorePost \/ RestoreVerify \/ Quiet \/ Poll \/ Disable \/ Close)
  BY <1>2 DEF RestorePost, RestoreVerify, Quiet, Poll, Disable, Close, stack, held
<1>9. ~(SweepDisable \/ SweepCheck \/ SweepClose \/ NotDue \/ Look \/ RemoveVerified)
  BY <1>2 DEF SweepDisable, SweepCheck, SweepClose, NotDue, Look, RemoveVerified, stack, held
<1>10. ~(WriteRecording \/ Exited \/ OthersSetDefault \/ Fire)
  BY <1>2 DEF WriteRecording, Exited, OthersSetDefault, Fire, stack, held, vars
<1>11. ~(Create \/ Write \/ Conflict \/ CreateOnce)
  BY <1>2, <1>3 DEF Create, Write, Conflict, CreateOnce, stack
<1>12. ~OthersCreate
  BY <1>1, <1>2 DEF OthersCreate
<1>13. Delete => r = Target
  BY <1>2, <1>3, <1>4 DEF Delete, stack
<1>14. Drop => r = Target
  BY <1>2, <1>4 DEF Drop, stack
<1>15. Remove => r = Target
  BY <1>2, <1>4 DEF Remove, stack
<1> QED BY <1>5, <1>6, <1>7, <1>8, <1>9, <1>10, <1>11, <1>12, <1>13, <1>14, <1>15 DEF Next

\* Neither the script nor cleanup deletes an object before what refers to it.
THEOREM RecorderDependantsGoFirst ==
    Spec => DependantsGoFirst
<1>1. ASSUME IInv, [Next]_vars, NEW r \in Objects, there[r] \in Written, there'[r] = "none",
             NEW d \in Dependants(r)
      PROVE  there[d] # "ours"
  <2>1. "ours" \in Written /\ "none" \notin Written
    BY DEF Written
  <2>2. Next
    BY <1>1, <2>1 DEF vars
  <2>3. r = Target /\ (Delete \/ Drop \/ Remove)
    BY <1>1, <2>2, OnlyThreeDelete
  <2>4. CASE Delete
    <3>1. Doing("delete") /\ phase = "record"
      <4>1. "delete" \in RecordOps \ {"restore", "audit", "sweep"}
        BY DEF RecordOps, ObjectSteps
      <4> QED BY <1>1, <2>4, <4>1, InRecord DEF Delete
    <3> QED BY <1>1, <2>1, <2>3, <3>1, MadeIsOurs
  <2>5. CASE Drop
    <3>1. Doing("drop") /\ at = "first" /\ phase = "record"
      BY <1>1, <2>5, InFleet DEF Drop
    <3> QED BY <1>1, <2>1, <2>3, <3>1, MadeIsOurs
  <2>6. CASE Remove
    <3>1. Due(Target) /\ (Target = "parent" => ~Attached)
      BY <1>1, <2>6 DEF Remove, IInv, LookedAt
    <3>2. \A q \in Dashboards \cup Views : q \in Objects \ (LateClaims \cup Fleet)
      BY DEF Dashboards, Views, Objects, LateClaims, Fleet, Integrations
    <3>3. \A q \in Dashboards \cup Views : there[q] = "ours" => q \in own
      BY <1>1, <2>1, <3>2 DEF IInv, EarlyIsOwned
    <3>4. CASE r = "parent"
      BY <1>1, <2>3, <3>1, <3>4 DEF Dependants, Attached
    <3>5. CASE r = "companion"
      BY <1>1, <2>3, <3>1, <3>3, <3>5 DEF Dependants, Due, Views
    <3>6. CASE r = "data_view_index"
      BY <1>1, <2>3, <3>1, <3>3, <3>6 DEF Dependants, Due
    <3>7. CASE r \notin {"parent", "companion", "data_view_index"}
      BY <1>1, <3>7 DEF Dependants
    <3> QED BY <3>4, <3>5, <3>6, <3>7
  <2> QED BY <2>3, <2>4, <2>5, <2>6
<1>2. ASSUME IInv, [Next]_vars
      PROVE  [\A r \in Objects :
                there[r] \in Written /\ there'[r] = "none" =>
                  \A d \in Dependants(r) : there[d] # "ours"]_vars
  BY <1>1, <1>2
<1> QED BY <1>2, RecorderInvariant, PTL DEF Spec, DependantsGoFirst

\* A restore puts its own default over another client's only when that was chosen behind
\* the restore's read.
LEMMA OthersKeepTheirDefault ==
    ASSUME IInv, [Next]_vars, Doing("restore"), default = "others", mover # "unseen",
           mover' = "session"
    PROVE  default' = "others"
<1>1. \A op \in {"create", "write", "conflict", "default"} : ~Doing(op)
  BY DEF Doing
<1>2. ~(Create \/ Write \/ Conflict \/ SetDefault)
  BY <1>1 DEF Create, Write, Conflict, SetDefault
<1>3. RequireAbsent \/ Unclaimed \/ Claim \/ Prove \/ Use \/ Gone
      => default' = "others"
  BY DEF RequireAbsent, Unclaimed, Claim, Prove, Use, Gone, stack, held
<1>4. Arm \/ ClaimAmbiguous \/ Recheck \/ DropVerified \/ Audit \/ Snapshot
      => default' = "others"
  BY DEF Arm, ClaimAmbiguous, Recheck, DropVerified, Audit, Snapshot, stack, held
<1>5. TakeLease \/ CheckLeased \/ Stake \/ Dangling \/ RestoreRead \/ RestoreVerify
      => default' = "others"
  BY DEF TakeLease, CheckLeased, Stake, Dangling, RestoreRead, RestoreVerify, stack, held
<1>6. Quiet \/ Poll \/ Disable \/ Close \/ SweepDisable \/ SweepCheck
      => default' = "others"
  BY DEF Quiet, Poll, Disable, Close, SweepDisable, SweepCheck, stack, held
<1>7. SweepClose \/ NotDue \/ Look \/ RemoveVerified \/ WriteRecording \/ Exited
      => default' = "others"
  BY DEF SweepClose, NotDue, Look, RemoveVerified, WriteRecording, Exited, stack, held, vars
<1>8. OthersCreate \/ Fire
      => default' = "others"
  BY DEF OthersCreate, Fire, stack, held
<1>9. CreateOnce \/ Delete \/ Drop \/ Remove => default' = "others"
  BY DEF CreateOnce, Delete, Drop, Remove, Take, stack
<1>10. RestorePost => default' = "others"
  <2>1. RestorePost => Restorable(lease, default)
    BY DEF RestorePost, IInv, RestoreIsDue
  <2>2. Restorable(lease, default) => lease.was = "others"
    BY DEF Restorable, Expected, Unset
  <2>3. lease.was = "others" => Reported(lease.was) = {"others"}
    BY DEF Reported, Unset
  <2> QED BY <2>1, <2>2, <2>3 DEF RestorePost, Move
<1>11. ~OthersSetDefault
  BY DEF OthersSetDefault
<1>12. UNCHANGED vars => default' = "others"
  BY DEF vars
<1> QED BY <1>2, <1>3, <1>4, <1>5, <1>6, <1>7, <1>8, <1>9, <1>10, <1>11, <1>12 DEF Next

\* The default that was found is given back, and another's is displaced unseen only.
THEOREM RecorderDefaultIsGivenBack ==
    Spec => DefaultIsGivenBack
<1>1. ASSUME IInv
      PROVE  ~Leased => /\ default \notin {"source", "replacement"}
                        /\ mover = "session" => default \in {lease.was, "companion"}
  BY <1>1 DEF IInv, DefaultIsKept
<1>2. ASSUME IInv, [Next]_vars
      PROVE  [Doing("restore") /\ default' # default /\ mover' = "session"
                => default # "others" \/ mover = "unseen"]_vars
  BY <1>2, OthersKeepTheirDefault
<1> QED BY <1>1, <1>2, RecorderInvariant, PTL DEF Spec, DefaultIsGivenBack
=============================================================================
