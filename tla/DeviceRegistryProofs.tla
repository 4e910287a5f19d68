------------------------- MODULE DeviceRegistryProofs -------------------------
(***************************************************************************)
(* Proofs about DeviceRegistry, for any devices, configurations, files,    *)
(* hashes and number of starts, as long as the AIDs suffice: which lists   *)
(* mergeDevices and prepareDevices give, by induction on their loops; that *)
(* every restart exposes what was exposed, under the same AIDs; and, of    *)
(* devices that the configurations leave no doubt of, that none leaves the *)
(* registry, none has two accessories, each one enrolled is exposed by the *)
(* next start, and one that nothing competes with keeps its AID for ever.  *)
(***************************************************************************)
EXTENDS DeviceRegistry, FiniteSetTheorems, WellFoundedInduction, TLAPS

-----------------------------------------------------------------------------
(* Induction, over a set of numbers instead of an operator *)

LEMMA Least ==
  ASSUME NEW T \in SUBSET Nat, T # {}
  PROVE  \E n \in T : \A m \in T : n <= m
<1> DEFINE R == OpToRel(<, Nat)
<1>1. R = {xy \in Nat \X Nat : xy[1] < xy[2]}
  BY DEF OpToRel
<1>2. IsWellFoundedOn(R, Nat)
  BY NatLessThanWellFounded
<1> HIDE DEF R
<1>3. PICK x \in T : \A y \in T : ~ (<<y, x>> \in R)
  BY <1>2, WFMin
<1>4. ASSUME NEW y \in T PROVE x <= y
  <2>1. x \in Nat /\ y \in Nat /\ <<y, x>> \in Nat \X Nat
    OBVIOUS
  <2>2. <<y, x>> \in R <=> y < x
    BY <1>1, <2>1
  <2> QED BY <1>3, <2>1, <2>2
<1> QED BY <1>4

LEMMA Induction ==
  ASSUME NEW n \in Nat, NEW T, 0 \in T, \A k \in 0..(n - 1) : k \in T => k + 1 \in T
  PROVE  \A k \in 0..n : k \in T
<1> DEFINE U == {k \in 0..n : k \notin T}
<1> SUFFICES ASSUME U # {} PROVE FALSE
  OBVIOUS
<1>1. PICK m \in U : \A k \in U : m <= k
  <2>1. U \in SUBSET Nat
    OBVIOUS
  <2> HIDE DEF U
  <2> QED BY <2>1, Least
<1>2. m \in 0..n /\ m \notin T /\ m # 0
  BY <1>1
<1>3. m - 1 \in 0..(n - 1) /\ m - 1 \in 0..n /\ ~(m <= m - 1) /\ (m - 1) + 1 = m
  BY <1>2
<1>4. m - 1 \in T
  BY <1>1, <1>3
<1> QED BY <1>2, <1>3, <1>4

(* A loop of n steps over values of S has values.                            *)
IsRun(f, n, base, steps) == f[0] = base /\ \A k \in 1..n : f[k] = steps[k][f[k - 1]]

LEMMA Iterates ==
  ASSUME NEW n \in Nat, NEW S, NEW base \in S, NEW steps \in [1..n -> [S -> S]]
  PROVE  \E f \in [0..n -> S] : IsRun(f, n, base, steps)
<1> DEFINE G(m, f) == f \in [0..m -> S] /\ IsRun(f, m, base, steps)
           T == {m \in 0..n : \E f : G(m, f)}
<1>1. 0 \in T
  <2>1. G(0, [i \in 0..0 |-> base])
    BY DEF IsRun
  <2>2. 0 \in 0..n
    OBVIOUS
  <2> HIDE DEF G
  <2> QED BY <2>1, <2>2
<1>2. ASSUME NEW k \in 0..(n - 1), k \in T PROVE k + 1 \in T
  <2>1. PICK f : G(k, f)
    BY <1>2
  <2> DEFINE g == [i \in 0..(k + 1) |-> IF i <= k THEN f[i] ELSE steps[k + 1][f[k]]]
  <2>2. f[k] \in S /\ steps[k + 1] \in [S -> S]
    BY <2>1
  <2>3. g \in [0..(k + 1) -> S] /\ g[0] = base
    BY <2>1, <2>2 DEF IsRun
  <2>4. \A i \in 1..(k + 1) : g[i] = steps[i][g[i - 1]]
    BY <2>1 DEF IsRun
  <2>5. G(k + 1, g)
    BY <2>3, <2>4 DEF IsRun
  <2> HIDE DEF G, g
  <2> QED BY <2>5
<1> HIDE DEF T
<1>3. \A k \in 0..n : k \in T
  BY <1>1, <1>2, Induction
<1>4. n \in T
  BY <1>3
<1> QED BY <1>4 DEF T

-----------------------------------------------------------------------------
(* Data *)

(* Devices before they are prepared, of the user or of a report, or saved.   *)
Wide ==
  {d \in [mac : Macs \cup {None}, did : Dids \cup {None}, aid : AIDs \cup {0},
          product : {None, "supported", "other"}] : Address(d) # None}

LEMMA AIDsOK == AIDs \subseteq Nat /\ \A a \in AIDs : a >= 2
<1>1. \A d \in Configured : d.aid \in Nat \ {1}
  BY RegistryAssumption
<1>2. MaxAID \in Nat
  BY RegistryAssumption
<1> QED BY <1>1, <1>2 DEF AIDs

LEMMA EntryOK == Entry \subseteq Wide /\ \A d \in Entry : d.product # None /\ d.aid >= 2
BY AIDsOK, RegistryAssumption DEF Entry, Wide

LEMMA ConfiguredOK ==
  ASSUME NEW c \in Loadable
  PROVE  c.devices \in Seq(Wide) /\ ValidDevices(c.devices)
<1>1. ValidDevices(c.devices)
  <2>1. CASE \E pin \in Pins : c = Defaults(pin)
    BY <2>1 DEF Defaults, ValidDevices
  <2>2. CASE \E f \in Files \ {Absent} : Valid(f) /\ c = Normalized(f)
    <3>1. PICK f \in Files \ {Absent} : Valid(f) /\ c = Normalized(f)
      BY <2>2
    <3>2. c.devices = f.devices
      BY <3>1, RegistryAssumption DEF Normalized
    <3> QED BY <3>1, <3>2 DEF Valid
  <2> QED BY <2>1, <2>2 DEF Loadable
<1>2. c.devices \in Seq(Configured)
  BY RegistryAssumption
<1>3. ASSUME NEW i \in 1..Len(c.devices) PROVE c.devices[i] \in Wide
  <2> DEFINE d == c.devices[i]
  <2>1. d \in Configured
    BY <1>2
  <2>2. d \in [mac : Macs \cup {None}, did : Dids \cup {None}, aid : Nat \ {1},
               product : {None, "supported", "other"}]
    BY <2>1, RegistryAssumption
  <2>3. d.aid \in AIDs \cup {0}
    BY <2>1, <2>2 DEF AIDs
  <2>4. Address(d) # None
    BY <1>1, <1>2 DEF ValidDevices
  <2> HIDE DEF d
  <2>5. d \in [mac : Macs \cup {None}, did : Dids \cup {None}, aid : AIDs \cup {0},
               product : {None, "supported", "other"}]
    BY <2>2, <2>3
  <2>6. d \in Wide
    BY <2>4, <2>5 DEF Wide
  <2> QED BY <2>6 DEF d
<1> QED BY <1>1, <1>2, <1>3

LEMMA ReportOK ==
  ASSUME NEW p \in Physical
  PROVE  FromReport(p) \in Wide
BY RegistryAssumption DEF FromReport, Wide, Address, Macs, Dids

(* The same device, and the address of a device.                             *)
LEMMA SameOK ==
  ASSUME NEW d \in Wide, NEW e \in Wide
  PROVE  /\ SameDevice(d, d)
         /\ SameDevice(d, e) => SameDevice(e, d)
         /\ Address(d) = Address(e) => SameDevice(d, e)
         /\ Address(d) \in DOMAIN DefaultAID /\ DefaultAID[Address(d)] \in 2..(MaxAID + 2)
<1>1. Macs \cap Dids = {} /\ Macs \cup Dids \subseteq DOMAIN DefaultAID
  BY RegistryAssumption
<1>2. Address(d) \in Macs \cup Dids
  BY DEF Wide, Address
<1>3. DefaultAID[Address(d)] \in 2..(MaxAID + 2)
  BY <1>1, <1>2, RegistryAssumption
<1>4. Address(d) = Address(e) => SameDevice(d, e)
  BY <1>1 DEF Wide, Address, SameDevice
<1> QED BY <1>1, <1>2, <1>3, <1>4 DEF Wide, Address, SameDevice

-----------------------------------------------------------------------------
(* mergeDevices *)

(* Its loop, a device at a time.                                             *)
MergeStep(list, d) == IF Found(list, d) THEN list ELSE Append(list, d)

IsMerging(f, C, D) ==
  f[0] = C /\ \A k \in 1..Len(D) : f[k] = MergeStep(f[k - 1], D[k])

LEMMA MergeStepOK ==
  ASSUME NEW S, NEW list \in Seq(S), NEW d \in S
  PROVE  MergeStep(list, d) \in Seq(S)
BY DEF MergeStep

LEMMA MergeLoop ==
  ASSUME NEW S, NEW C \in Seq(S), NEW D \in Seq(S)
  PROVE  \E f \in [0..Len(D) -> Seq(S)] :
           IsMerging(f, C, D) /\ MergeDevices(C, D) = f[Len(D)]
<1> DEFINE n == Len(D)
           Lists == Seq(S)
           steps == [k \in 1..n |-> [m \in Lists |-> MergeStep(m, D[k])]]
           F(f) == f = [k \in 0..n |-> IF k = 0 THEN C ELSE MergeStep(f[k - 1], D[k])]
<1>1. n \in Nat /\ C \in Lists /\ steps \in [1..n -> [Lists -> Lists]]
  <2>1. \A k \in 1..n : D[k] \in S
    OBVIOUS
  <2>2. n \in Nat /\ C \in Lists
    OBVIOUS
  <2>3. \A k \in 1..n, m \in Lists : MergeStep(m, D[k]) \in Lists
    BY <2>1, MergeStepOK
  <2> HIDE DEF F, Lists, n
  <2> QED BY <2>2, <2>3
<1>2. \E f : F(f)
  <2> HIDE DEF n, steps, Lists
  <2>1. PICK f \in [0..n -> Lists] : IsRun(f, n, C, steps)
    BY <1>1, Iterates
  <2>2. \A k \in 1..n : f[k - 1] \in Lists /\ f[k] = steps[k][f[k - 1]]
    BY <1>1, <2>1 DEF IsRun
  <2>3. \A k \in 1..n : f[k] = MergeStep(f[k - 1], D[k])
    BY <2>2 DEF steps
  <2>4. F(f)
    BY <1>1, <2>1, <2>3 DEF IsRun
  <2> HIDE DEF F
  <2> QED BY <2>4
<1>3. PICK f : f = (CHOOSE g : F(g)) /\ F(f)
  <2> HIDE DEF F
  <2> QED BY <1>2
<1>4. MergeDevices(C, D) = f[n]
  BY <1>3 DEF MergeDevices, MergeStep
<1>5. F(f)
  BY <1>3
<1> HIDE DEF n, steps
<1>6. f[0] = C /\ \A k \in 1..n : f[k] = MergeStep(f[k - 1], D[k])
  BY <1>1, <1>5
<1>7. \A k \in 0..n : f[k] \in Seq(S)
  <2> DEFINE T == {k \in 0..n : f[k] \in Seq(S)}
  <2>1. 0 \in T
    BY <1>1, <1>6
  <2>2. ASSUME NEW k \in 0..(n - 1), k \in T PROVE k + 1 \in T
    <3>1. k + 1 \in 1..n /\ (k + 1) - 1 = k
      BY <1>1
    <3>2. f[k + 1] = MergeStep(f[k], D[k + 1])
      BY <1>6, <3>1
    <3>3. D[k + 1] \in S
      BY <3>1 DEF n
    <3>4. f[k] \in Seq(S) /\ k + 1 \in 0..n
      BY <2>2, <3>1
    <3>5. f[k + 1] \in Seq(S)
      BY <3>2, <3>3, <3>4, MergeStepOK
    <3> QED BY <3>4, <3>5
  <2> HIDE DEF T
  <2>3. \A k \in 0..n : k \in T
    BY <1>1, <2>1, <2>2, Induction
  <2> QED BY <2>3 DEF T
<1>8. f \in [0..n -> Seq(S)]
  BY <1>5, <1>7
<1> QED BY <1>4, <1>8, <1>6 DEF n, IsMerging

(* The list M that it has made of the configured devices C and the first k   *)
(* of the saved devices D: those of C, then others that are like none before.*)
FoundBefore(M, i, d) == \E j \in 1..(i - 1) : SameDevice(M[j], d)
Comes(M, i, D, j) == M[i] = D[j] /\ \A l \in 1..(j - 1) : FoundBefore(M, i, D[l])

Merged(C, D, M, k) ==
  /\ Len(C) <= Len(M) /\ \A i \in 1..Len(C) : M[i] = C[i]
  /\ \A i \in (Len(C) + 1)..Len(M) :
       /\ M[i] \in Range(D) /\ \A j \in 1..(i - 1) : ~SameDevice(M[j], M[i])
       /\ \E j \in 1..Len(D) : Comes(M, i, D, j)
  /\ \A j \in 1..k : Found(M, D[j])

LEMMA AppendOK ==
  ASSUME NEW S, NEW s \in Seq(S), NEW e \in S
  PROVE  /\ Append(s, e) \in Seq(S) /\ Len(s) \in Nat
         /\ Len(Append(s, e)) = Len(s) + 1 /\ DOMAIN Append(s, e) = 1..(Len(s) + 1)
         /\ DOMAIN s = 1..Len(s)
         /\ Append(s, e)[Len(s) + 1] = e
         /\ \A i \in 1..Len(s) : Append(s, e)[i] = s[i]
OBVIOUS

LEMMA MergedStep ==
  ASSUME NEW C \in Seq(Wide), NEW D \in Seq(Wide), NEW M \in Seq(Wide),
         NEW k \in 0..(Len(D) - 1), Merged(C, D, M, k)
  PROVE  Merged(C, D, MergeStep(M, D[k + 1]), k + 1)
<1> DEFINE d == D[k + 1]
<1>1. d \in Wide /\ d \in Range(D) /\ SameDevice(d, d)
  BY SameOK DEF Range
<1>2. CASE Found(M, d)
  <2>1. MergeStep(M, d) = M
    BY <1>2 DEF MergeStep
  <2>2. \A j \in 1..k : Found(M, D[j])
    BY DEF Merged
  <2>3. \A j \in 1..(k + 1) : j \in 1..k \/ j = k + 1
    OBVIOUS
  <2> HIDE DEF d
  <2>4. \A j \in 1..(k + 1) : Found(M, D[j])
    BY <1>2, <2>2, <2>3 DEF d
  <2> QED BY <2>1, <2>4 DEF Merged, d
<1>3. CASE ~Found(M, d)
  <2> DEFINE A == Append(M, d)
  <2>1. MergeStep(M, d) = A
    BY <1>3 DEF MergeStep
  <2>2. /\ Len(A) = Len(M) + 1 /\ DOMAIN A = 1..(Len(M) + 1) /\ A[Len(M) + 1] = d
        /\ \A i \in 1..Len(M) : A[i] = M[i]
        /\ Len(M) \in Nat /\ DOMAIN M = 1..Len(M)
    BY <1>1, AppendOK
  <2>3. \A j \in 1..Len(M) : ~SameDevice(M[j], d)
    BY <1>3 DEF Found
  <2> HIDE DEF A, d
  <2>4. Len(C) <= Len(A) /\ \A i \in 1..Len(C) : A[i] = C[i]
    BY <2>2 DEF Merged
  <2>5. ASSUME NEW i \in (Len(C) + 1)..Len(A)
        PROVE  /\ A[i] \in Range(D) /\ \A j \in 1..(i - 1) : ~SameDevice(A[j], A[i])
               /\ \E j \in 1..Len(D) : Comes(A, i, D, j)
    <3>1. CASE i = Len(M) + 1
      <4>1. A[i] = d /\ (\A j \in 1..(i - 1) : j \in 1..Len(M) /\ A[j] = M[j])
        BY <2>2, <3>1
      <4>2. k + 1 \in 1..Len(D)
        OBVIOUS
      <4>3. ASSUME NEW l \in 1..((k + 1) - 1) PROVE FoundBefore(A, i, D[l])
        <5>1. l \in 1..k
          OBVIOUS
        <5>2. PICK j \in DOMAIN M : SameDevice(M[j], D[l])
          BY <5>1 DEF Merged, Found
        <5>3. j \in 1..(i - 1) /\ A[j] = M[j]
          BY <2>2, <3>1, <5>2
        <5> QED BY <5>2, <5>3 DEF FoundBefore
      <4>4. Comes(A, i, D, k + 1)
        BY <4>1, <4>3 DEF Comes, d
      <4> QED BY <1>1, <2>3, <4>1, <4>2, <4>4
    <3>2. CASE i # Len(M) + 1
      <4>1. Len(C) \in Nat /\ i \in (Len(C) + 1)..Len(M) /\ i \in 1..Len(M)
        BY <2>2, <3>2
      <4>2. A[i] = M[i] /\ \A j \in 1..(i - 1) : A[j] = M[j]
        BY <2>2, <4>1
      <4>3. M[i] \in Range(D) /\ \A j \in 1..(i - 1) : ~SameDevice(M[j], M[i])
        BY <4>1 DEF Merged
      <4>4. PICK j \in 1..Len(D) : Comes(M, i, D, j)
        BY <4>1 DEF Merged
      <4>5. \A e : FoundBefore(M, i, e) => FoundBefore(A, i, e)
        BY <4>2 DEF FoundBefore
      <4>6. Comes(A, i, D, j)
        BY <4>2, <4>4, <4>5 DEF Comes
      <4> QED BY <4>2, <4>3, <4>6
    <3> QED BY <3>1, <3>2
  <2>6. ASSUME NEW j \in 1..(k + 1) PROVE Found(A, D[j])
    <3>1. CASE j = k + 1
      <4>1. Len(M) + 1 \in DOMAIN A /\ A[Len(M) + 1] = D[j]
        BY <2>2, <3>1 DEF d
      <4>2. SameDevice(D[j], D[j])
        BY <1>1, <3>1 DEF d
      <4> QED BY <4>1, <4>2 DEF Found
    <3>2. CASE j # k + 1
      <4>1. j \in 1..k
        BY <3>2
      <4>2. PICK i \in DOMAIN M : SameDevice(M[i], D[j])
        BY <4>1 DEF Merged, Found
      <4> QED BY <2>2, <4>2 DEF Found
    <3> QED BY <3>1, <3>2
  <2> QED BY <2>1, <2>4, <2>5, <2>6 DEF Merged, d
<1> QED BY <1>2, <1>3

LEMMA MergeOK ==
  ASSUME NEW C \in Seq(Wide), NEW D \in Seq(Wide)
  PROVE  /\ MergeDevices(C, D) \in Seq(Wide)
         /\ Merged(C, D, MergeDevices(C, D), Len(D))
<1>1. PICK f \in [0..Len(D) -> Seq(Wide)] :
        IsMerging(f, C, D) /\ MergeDevices(C, D) = f[Len(D)]
  BY MergeLoop
<1> DEFINE n == Len(D)
           T == {k \in 0..n : Merged(C, D, f[k], k)}
<1>2. n \in Nat
  OBVIOUS
<1>3. 0 \in T
  BY <1>1, <1>2 DEF Merged, IsMerging
<1>4. ASSUME NEW k \in 0..(n - 1), k \in T PROVE k + 1 \in T
  <2>1. f[k] \in Seq(Wide) /\ Merged(C, D, f[k], k) /\ k + 1 \in 0..n
    BY <1>2, <1>4
  <2>2. f[k + 1] = MergeStep(f[k], D[k + 1])
    BY <1>1, <1>2 DEF IsMerging
  <2>3. Merged(C, D, f[k + 1], k + 1)
    BY <2>1, <2>2, MergedStep
  <2> QED BY <2>1, <2>3
<1> HIDE DEF T
<1>5. \A k \in 0..n : k \in T
  BY <1>2, <1>3, <1>4, Induction
<1>6. Merged(C, D, f[n], n) /\ f[n] \in Seq(Wide)
  BY <1>2, <1>5 DEF T
<1> QED BY <1>1, <1>6

-----------------------------------------------------------------------------
(* prepareDevices *)

(* The AID after k steps from a, as long as it wraps once.                   *)
After(a, k) ==
  IF k = 0 THEN a ELSE IF a + k <= MaxAID THEN a + k
  ELSE IF a <= MaxAID THEN a + k - MaxAID + 1 ELSE k + 1

LEMMA AfterOK ==
  ASSUME NEW a \in Nat, a >= 2, NEW k \in 0..(MaxAID - 2)
  PROVE  /\ a <= MaxAID + 2 => After(a, k) \in 2..(MaxAID + 2)
         /\ k > 0 => After(a, k) = NextAID(After(a, k - 1))
         /\ \A m \in 0..(MaxAID - 2) : After(a, k) = After(a, m) => k = m
<1>1. MaxAID \in Nat
  BY RegistryAssumption
<1> QED BY <1>1 DEF After, NextAID

(* Its steps from a.                                                         *)
Probe(a, n) == CHOOSE f : f = [k \in 0..n |-> IF k = 0 THEN a ELSE NextAID(f[k - 1])]

LEMMA ProbeOK ==
  ASSUME NEW n \in Nat, n + 2 <= MaxAID, NEW a \in Nat, a >= 2
  PROVE  /\ Probe(a, n) = [k \in 0..n |-> After(a, k)]
         /\ \A k \in 0..n : /\ a <= MaxAID + 2 => After(a, k) \in 2..(MaxAID + 2)
                            /\ \A m \in 0..n : After(a, k) = After(a, m) => k = m
<1> DEFINE F(f) == f = [k \in 0..n |-> IF k = 0 THEN a ELSE NextAID(f[k - 1])]
           h == [k \in 0..n |-> After(a, k)]
<1>1. MaxAID \in Nat /\ 0..n \subseteq 0..(MaxAID - 2)
  BY RegistryAssumption
<1>2. \A k \in 0..n : h[k] = After(a, k)
  OBVIOUS
<1>3. ASSUME NEW k \in 0..n
       PROVE  /\ a <= MaxAID + 2 => h[k] \in 2..(MaxAID + 2)
              /\ k = 0 => h[k] = a
              /\ k # 0 => h[k] = NextAID(h[k - 1])
              /\ \A m \in 0..n : h[k] = h[m] => k = m
  <2>1. k \in 0..(MaxAID - 2) /\ (k # 0 => k > 0 /\ k - 1 \in 0..n)
    BY <1>1
  <2> HIDE DEF h
  <2>2. /\ a <= MaxAID + 2 => After(a, k) \in 2..(MaxAID + 2)
        /\ k # 0 => After(a, k) = NextAID(After(a, k - 1))
    BY <1>1, <2>1, AfterOK
  <2>3. \A m \in 0..n : After(a, k) = After(a, m) => k = m
    BY <1>1, <2>1, AfterOK
  <2>4. k = 0 => After(a, k) = a
    BY DEF After
  <2> QED BY <1>2, <2>1, <2>2, <2>3, <2>4
<1>4. F(h)
  <2>1. \A k \in 0..n : h[k] = IF k = 0 THEN a ELSE NextAID(h[k - 1])
    <3> HIDE DEF h
    <3> QED BY <1>3
  <2> DEFINE H == [k \in 0..n |-> IF k = 0 THEN a ELSE NextAID(h[k - 1])]
  <2>2. h = [k \in 0..n |-> h[k]]
    OBVIOUS
  <2> HIDE DEF h
  <2>3. h = H
    BY <2>1, <2>2
  <2> QED BY <2>3
<1> HIDE DEF h
<1>5. ASSUME NEW f, F(f) PROVE f = h
  <2> DEFINE T == {k \in 0..n : f[k] = h[k]}
  <2>1. 0 \in T
    BY <1>1, <1>3, <1>5
  <2>2. ASSUME NEW k \in 0..(n - 1), k \in T PROVE k + 1 \in T
    <3>1. k + 1 \in 0..n /\ (k + 1) - 1 = k /\ k + 1 # 0
      BY <1>1
    <3>2. f[k + 1] = NextAID(f[k])
      BY <1>5, <3>1
    <3>3. h[k + 1] = NextAID(h[k])
      BY <1>3, <3>1
    <3> QED BY <2>2, <3>1, <3>2, <3>3
  <2> HIDE DEF T
  <2>3. \A k \in 0..n : k \in T
    BY <1>1, <2>1, <2>2, Induction
  <2>4. \A k \in 0..n : f[k] = h[k]
    BY <2>3 DEF T
  <2>5. f = [k \in 0..n |-> f[k]] /\ h = [k \in 0..n |-> h[k]]
    BY <1>4, <1>5
  <2> QED BY <2>4, <2>5
<1>6. (CHOOSE f : F(f)) = h
  <2> HIDE DEF F
  <2> QED BY <1>4, <1>5
<1> QED BY <1>1, <1>6, <1>3, <1>2 DEF Probe, h

(* The search for an AID ends with a free one, no more steps from the default*)
(* AID than AIDs are used, and with the default AID if that is free.         *)
LEMMA FreeOK ==
  ASSUME NEW d \in Wide, NEW used, IsFiniteSet(used), Cardinality(used) + 2 <= MaxAID
  PROVE  LET a == DefaultAID[Address(d)]
         IN /\ FreeAID(d, used) \in 2..(MaxAID + 2) \ used
            /\ FreeAID(d, used) \in {After(a, k) : k \in 0..Cardinality(used)}
            /\ a \notin used => FreeAID(d, used) = a
<1> DEFINE n == Cardinality(used)
           a == DefaultAID[Address(d)]
           h == Probe(a, n)
           Free(k) == h[k] \notin used /\ \A j \in 0..(k - 1) : h[j] \in used
<1>1. /\ n \in Nat /\ MaxAID \in Nat /\ n + 2 <= MaxAID
      /\ a \in Nat /\ a >= 2 /\ a <= MaxAID + 2
  BY SameOK, FS_CardinalityType, RegistryAssumption
<1> HIDE DEF n, a
<1>2. /\ h = [k \in 0..n |-> After(a, k)]
      /\ \A k \in 0..n : /\ After(a, k) \in 2..(MaxAID + 2)
                         /\ \A m \in 0..n : After(a, k) = After(a, m) => k = m
  BY <1>1, ProbeOK
<1>3. FreeAID(d, used) = h[CHOOSE k \in 0..n : Free(k)]
  BY DEF FreeAID, Probe, n, a
<1> HIDE DEF h
<1>4. \A k \in 0..n : h[k] = After(a, k) /\ h[k] \in 2..(MaxAID + 2)
  BY <1>2
<1>5. \A k \in 0..n : \A m \in 0..n : h[k] = h[m] => k = m
  BY <1>2
<1>6. h[0] = a
  <2>1. 0 \in 0..n
    BY <1>1
  <2> QED BY <1>4, <2>1 DEF After
<1>7. \E k \in 0..n : h[k] \notin used
  <2> SUFFICES ASSUME \A k \in 0..n : h[k] \in used PROVE FALSE
    OBVIOUS
  <2>1. 0 \in Int /\ n \in Int /\ ~(0 > n) /\ n - 0 + 1 = n + 1
    BY <1>1
  <2>2. IsFiniteSet(0..n) /\ Cardinality(0..n) = n + 1
    BY <2>1, FS_Interval
  <2>3. h \in [0..n -> used]
    BY <1>2
  <2>4. IsFiniteSet(used) /\ Cardinality(used) < Cardinality(0..n)
    BY <1>1, <2>2 DEF n
  <2> DEFINE Steps == 0..n
  <2> HIDE DEF Steps
  <2>5. IsFiniteSet(Steps) /\ Cardinality(used) < Cardinality(Steps) /\ h \in [Steps -> used]
    BY <2>2, <2>3, <2>4 DEF Steps
  <2>6. \E x, y \in Steps : x # y /\ h[x] = h[y]
    BY <2>4, <2>5, FS_PigeonHole
  <2>7. PICK x \in Steps, y \in Steps : x # y /\ h[x] = h[y]
    BY <2>6
  <2> QED BY <1>5, <2>7 DEF Steps
<1>8. \E k \in 0..n : Free(k)
  <2> DEFINE U == {k \in 0..n : h[k] \notin used}
  <2>1. U \in SUBSET Nat /\ U # {}
    BY <1>1, <1>7
  <2> HIDE DEF U
  <2>2. PICK k \in U : \A m \in U : k <= m
    BY <2>1, Least
  <2>3. k \in 0..n /\ h[k] \notin used
    BY DEF U
  <2>4. \A j \in 0..(k - 1) : j \in 0..n /\ ~(k <= j)
    BY <1>1, <2>3
  <2>5. \A j \in 0..(k - 1) : h[j] \in used
    BY <2>2, <2>4 DEF U
  <2> QED BY <2>3, <2>5
<1>9. (CHOOSE k \in 0..n : Free(k)) \in 0..n /\ Free(CHOOSE k \in 0..n : Free(k))
  <2> HIDE DEF Free
  <2> QED BY <1>8
<1> HIDE DEF Free
<1>10. a \notin used => (CHOOSE k \in 0..n : Free(k)) = 0
  <2> DEFINE c == CHOOSE k \in 0..n : Free(k)
  <2>1. c \in 0..n /\ \A j \in 0..(c - 1) : h[j] \in used
    BY <1>9 DEF Free
  <2> HIDE DEF c
  <2>2. c # 0 => 0 \in 0..(c - 1)
    BY <1>1, <2>1
  <2> QED BY <1>6, <2>1, <2>2 DEF c
<1>11. a \notin used => FreeAID(d, used) = a
  BY <1>3, <1>10, <1>6
<1>12. FreeAID(d, used) \in 2..(MaxAID + 2) \ used
  BY <1>3, <1>9, <1>4 DEF Free
<1>13. FreeAID(d, used) \in {After(a, k) : k \in 0..n}
  BY <1>3, <1>9, <1>4
<1> QED BY <1>11, <1>12, <1>13 DEF n, a

(* A device that is prepared when the AIDs of used are used.                 *)
LEMMA PreparedOK ==
  ASSUME NEW d \in Wide, NEW used, IsFiniteSet(used), Cardinality(used) + 2 <= MaxAID
  PROVE  LET e == Prepared(d, used)
         IN /\ e \in Entry /\ e.mac = d.mac /\ e.did = d.did /\ e.aid \notin used
            /\ e.product = Identified(d)
            /\ e.aid = IF d.aid >= 2 /\ d.aid \notin used THEN d.aid ELSE FreeAID(d, used)
            /\ d \in Entry /\ d.aid \notin used => e = d
<1> DEFINE e == Prepared(d, used)
           aid == IF d.aid >= 2 /\ d.aid \notin used THEN d.aid ELSE FreeAID(d, used)
<1>1. aid \in AIDs \ used
  BY FreeOK, AIDsOK DEF Wide, AIDs
<1>2. d \in Entry /\ d.aid \notin used => aid = d.aid /\ Identified(d) = d.product
  BY EntryOK DEF Identified
<1>3. Identified(d) \in {"supported", "other"}
  BY DEF Wide, Identified
<1> HIDE DEF aid
<1>4. e = [d EXCEPT !.product = Identified(d), !.aid = aid]
  BY DEF Prepared, aid
<1> HIDE DEF e
<1>5. /\ e \in [mac : Macs \cup {None}, did : Dids \cup {None}, aid : AIDs,
               product : {"supported", "other"}]
      /\ e.mac = d.mac /\ e.did = d.did /\ e.aid = aid /\ e.product = Identified(d)
  BY <1>1, <1>3, <1>4 DEF Wide
<1>6. e \in Entry
  BY <1>5 DEF Entry, Wide, Address
<1>7. d \in Entry /\ d.aid \notin used => e = d
  BY <1>2, <1>4 DEF Entry
<1> QED BY <1>1, <1>5, <1>6, <1>7 DEF e, aid

(* The AIDs of the first i - 1 devices of a list.                            *)
Used(list, i) == {list[j].aid : j \in 1..(i - 1)}

LEMMA UsedOK ==
  ASSUME NEW f, NEW i \in Nat, i # 0
  PROVE  IsFiniteSet(Used(f, i)) /\ Cardinality(Used(f, i)) <= i - 1
<1> DEFINE S == 1..(i - 1)
           U == Used(f, i)
           g == [j \in S |-> f[j].aid]
<1>1. IsFiniteSet(S) /\ Cardinality(S) = i - 1
  <2>1. 1 \in Int /\ i - 1 \in Int
    OBVIOUS
  <2>2. IsFiniteSet(S) /\ Cardinality(S) = (IF 1 > i - 1 THEN 0 ELSE (i - 1) - 1 + 1)
    BY <2>1, FS_Interval
  <2> QED BY <2>2
<1>2. g \in Surjection(S, U)
  BY DEF Used, Surjection
<1> HIDE DEF S, U, g
<1>3. IsFiniteSet(U) /\ Cardinality(U) <= Cardinality(S)
  BY <1>1, <1>2, FS_Surjection
<1> QED BY <1>1, <1>3 DEF U

(* What the loop makes of the first m devices of a list.                     *)
IsPreparing(f, list, m) == f = [i \in 1..m |-> Prepared(list[i], Used(f, i))]

LEMMA PreparingAt ==
  ASSUME NEW f, NEW list, NEW m, IsPreparing(f, list, m), NEW i \in 1..m
  PROVE  f[i] = Prepared(list[i], Used(f, i))
<1> DEFINE g == [k \in 1..m |-> Prepared(list[k], Used(f, k))]
<1>1. g[i] = Prepared(list[i], Used(f, i))
  OBVIOUS
<1>2. f = g
  BY DEF IsPreparing
<1> HIDE DEF g
<1> QED BY <1>1, <1>2

LEMMA PrepareLoop ==
  ASSUME NEW S, NEW list \in Seq(S)
  PROVE  IsPreparing(PrepareDevices(list).list, list, Len(list))
<1> DEFINE n == Len(list)
           T == {m \in 0..n : \E f : IsPreparing(f, list, m)}
<1>1. 0 \in T
  <2>1. IsPreparing(<<>>, list, 0)
    BY DEF IsPreparing
  <2> QED BY <2>1
<1>2. ASSUME NEW m \in 0..(n - 1), m \in T PROVE m + 1 \in T
  <2>1. PICK f : IsPreparing(f, list, m)
    BY <1>2
  <2> DEFINE g == [i \in 1..(m + 1) |-> Prepared(list[i], Used(f, i))]
  <2>2. \A i \in 1..m : f[i] = g[i]
    BY <2>1 DEF IsPreparing
  <2>3. \A i \in 1..(m + 1) : Used(g, i) = Used(f, i)
    <3> TAKE i \in 1..(m + 1)
    <3>1. \A j \in 1..(i - 1) : j \in 1..m
      OBVIOUS
    <3> HIDE DEF g
    <3>2. \A j \in 1..(i - 1) : g[j].aid = f[j].aid
      BY <2>2, <3>1
    <3> QED BY <3>2 DEF Used
  <2>4. g = [i \in 1..(m + 1) |-> Prepared(list[i], Used(g, i))]
    <3> DEFINE h == [i \in 1..(m + 1) |-> Prepared(list[i], Used(g, i))]
    <3>1. h = g
      BY <2>3
    <3> QED BY <3>1
  <2> HIDE DEF g
  <2> QED BY <2>4 DEF IsPreparing
<1>3. n \in Nat
  OBVIOUS
<1> HIDE DEF T, n
<1>4. \A m \in 0..n : m \in T
  BY <1>1, <1>2, <1>3, Induction
<1> USE DEF n
<1> DEFINE F(f) == f = [i \in DOMAIN list |-> Prepared(list[i], Used(f, i))]
<1>5. ASSUME NEW f PROVE F(f) <=> IsPreparing(f, list, n)
  <2>1. DOMAIN list = 1..n
    OBVIOUS
  <2> QED BY <2>1 DEF IsPreparing
<1>6. \E f : F(f)
  <2>1. \E f : IsPreparing(f, list, n)
    BY <1>4 DEF T
  <2> HIDE DEF F
  <2> QED BY <1>5, <2>1
<1>7. F(CHOOSE f : F(f))
  <2> HIDE DEF F
  <2> QED BY <1>6
<1>8. PrepareDevices(list).list = CHOOSE f : F(f)
  BY DEF PrepareDevices, Used
<1> HIDE DEF F
<1> QED BY <1>5, <1>7, <1>8

(* The first devices are prepared without regard to those after them.        *)
LEMMA PreparePrefix ==
  ASSUME NEW S, NEW list \in Seq(S), NEW other \in Seq(S), NEW m \in Nat,
         m <= Len(list), m <= Len(other), \A i \in 1..m : list[i] = other[i]
  PROVE  \A i \in 1..m : PrepareDevices(list).list[i] = PrepareDevices(other).list[i]
<1> DEFINE f == PrepareDevices(list).list
           g == PrepareDevices(other).list
           T == {k \in 0..m : \A i \in 1..k : f[i] = g[i]}
<1>1. IsPreparing(f, list, Len(list)) /\ IsPreparing(g, other, Len(other))
  BY PrepareLoop
<1> HIDE DEF f, g
<1>2. ASSUME NEW i \in 1..m
      PROVE  f[i] = Prepared(list[i], Used(f, i)) /\ g[i] = Prepared(other[i], Used(g, i))
  <2>1. i \in 1..Len(list) /\ i \in 1..Len(other)
    OBVIOUS
  <2>2. f[i] = Prepared(list[i], Used(f, i))
    BY <1>1, <2>1, PreparingAt
  <2>3. g[i] = Prepared(other[i], Used(g, i))
    BY <1>1, <2>1, PreparingAt
  <2> QED BY <2>2, <2>3
<1>3. 0 \in T
  OBVIOUS
<1>4. ASSUME NEW k \in 0..(m - 1), k \in T PROVE k + 1 \in T
  <2>1. \A j \in 1..((k + 1) - 1) : f[j] = g[j]
    BY <1>4
  <2>2. Used(f, k + 1) = Used(g, k + 1)
    BY <2>1 DEF Used
  <2>3. f[k + 1] = g[k + 1]
    BY <1>2, <2>2
  <2>4. \A i \in 1..(k + 1) : i \in 1..((k + 1) - 1) \/ i = k + 1
    OBVIOUS
  <2>5. \A i \in 1..(k + 1) : f[i] = g[i]
    BY <2>1, <2>3, <2>4
  <2> QED BY <2>5
<1> HIDE DEF T
<1>5. \A k \in 0..m : k \in T
  BY <1>3, <1>4, Induction
<1>6. m \in T
  BY <1>5
<1> QED BY <1>6 DEF T, f, g

(* A list is prepared device by device: each gets an AID of its own, and one *)
(* that no device before it has got stays.                                   *)
PreparedFrom(list, new) ==
  /\ new \in Seq(Entry) /\ Len(new) = Len(list) /\ OneAIDEach(new)
  /\ \A i \in 1..Len(list) :
       /\ new[i].mac = list[i].mac /\ new[i].did = list[i].did
       /\ new[i].product = Identified(list[i])
       /\ list[i] \in Entry /\ (\A j \in 1..(i - 1) : new[j].aid # list[i].aid)
          => new[i] = list[i]

LEMMA PrepareOK ==
  ASSUME NEW list \in Seq(Wide), Len(list) + 1 <= MaxAID
  PROVE  PreparedFrom(list, PrepareDevices(list).list)
<1> DEFINE f == PrepareDevices(list).list
           n == Len(list)
<1>1. f = [i \in 1..n |-> Prepared(list[i], Used(f, i))]
  BY PrepareLoop DEF IsPreparing
<1> HIDE DEF f
<1>2. n \in Nat /\ MaxAID \in Nat /\ \A i \in 1..n : list[i] \in Wide
  BY RegistryAssumption
<1>3. ASSUME NEW i \in 1..n
      PROVE  /\ f[i] \in Entry /\ f[i].mac = list[i].mac /\ f[i].did = list[i].did
             /\ f[i].aid \notin Used(f, i) /\ f[i].product = Identified(list[i])
             /\ list[i] \in Entry /\ list[i].aid \notin Used(f, i) => f[i] = list[i]
  <2>1. f[i] = Prepared(list[i], Used(f, i))
    BY <1>1
  <2>2. IsFiniteSet(Used(f, i)) /\ Cardinality(Used(f, i)) <= i - 1
    BY UsedOK
  <2>3. Cardinality(Used(f, i)) + 2 <= MaxAID
    BY <1>2, <2>2, FS_CardinalityType
  <2> QED BY <1>2, <2>1, <2>2, <2>3, PreparedOK
<1>4. f \in Seq(Entry) /\ Len(f) = n /\ DOMAIN f = 1..n
  <2>1. f \in [1..n -> Entry]
    BY <1>1, <1>3
  <2> QED BY <1>2, <2>1
<1>5. \A i \in 1..n, j \in 1..n : j < i => f[j].aid # f[i].aid
  <2> TAKE i \in 1..n, j \in 1..n
  <2>1. j < i => f[j].aid \in Used(f, i)
    BY DEF Used
  <2> QED BY <1>3, <2>1
<1>6. OneAIDEach(f)
  <2>1. \A i, j \in 1..n : i = j \/ i < j \/ j < i
    BY <1>2
  <2> QED BY <1>4, <1>5, <2>1 DEF OneAIDEach
<1>7. \A i \in 1..n : (\A j \in 1..(i - 1) : f[j].aid # list[i].aid)
                         => list[i].aid \notin Used(f, i)
  BY DEF Used
<1> QED BY <1>3, <1>4, <1>6, <1>7 DEF PreparedFrom, f

-----------------------------------------------------------------------------
(* There are more AIDs than devices *)

Reported == {p.mac : p \in Physical}

LEMMA Plenty ==
  /\ Cardinality(DOMAIN DefaultAID) \in Nat /\ MaxAID \in Nat
  /\ IsFiniteSet(Reported) /\ Cardinality(Reported) \in Nat
  /\ Cardinality(DOMAIN DefaultAID) + Cardinality(Reported) + 2 <= MaxAID
<1>1. IsFiniteSet(DOMAIN DefaultAID)
  BY RegistryAssumption
<1>2. Reported \subseteq DOMAIN DefaultAID
  BY RegistryAssumption DEF Reported, Macs
<1>3. IsFiniteSet(Reported)
  BY <1>1, <1>2, FS_Subset
<1>4. Cardinality(DOMAIN DefaultAID) \in Nat /\ Cardinality(Reported) \in Nat
  BY <1>1, <1>3, FS_CardinalityType
<1> QED BY <1>3, <1>4, RegistryAssumption DEF Reported, MostDevices

LEMMA FewDevices ==
  ASSUME NEW list \in Seq(Wide),
         \A i, j \in 1..Len(list) : Address(list[i]) = Address(list[j]) => i = j
  PROVE  Len(list) <= Cardinality(DOMAIN DefaultAID) /\ Len(list) + 2 <= MaxAID
<1> DEFINE n == Len(list)
           A == DOMAIN DefaultAID
           f == [i \in 1..n |-> Address(list[i])]
<1>1. n \in Nat /\ \A i \in 1..n : list[i] \in Wide
  OBVIOUS
<1>2. f \in Injection(1..n, A)
  <2>1. \A i \in 1..n : Address(list[i]) \in A
    BY <1>1, SameOK
  <2> QED BY <2>1 DEF Injection, IsInjective
<1> HIDE DEF f, n, A
<1>3. IsFiniteSet(A)
  BY RegistryAssumption DEF A
<1>4. Cardinality(1..n) <= Cardinality(A)
  BY <1>2, <1>3, FS_Injection
<1>5. Cardinality(1..n) = n
  <2>1. 1 \in Int /\ n \in Int
    BY <1>1
  <2>2. Cardinality(1..n) = (IF 1 > n THEN 0 ELSE n - 1 + 1)
    BY <2>1, FS_Interval
  <2> QED BY <1>1, <2>2
<1> QED BY <1>1, <1>4, <1>5, Plenty DEF n, A

(* Devices that are not the same, saved or configured, have their addresses. *)
LEMMA ApartFew ==
  ASSUME NEW list \in Seq(Wide), Apart(list)
  PROVE  Len(list) <= Cardinality(DOMAIN DefaultAID) /\ Len(list) + 2 <= MaxAID
<1>1. \A i, j \in 1..Len(list) : Address(list[i]) = Address(list[j]) => i = j
  <2> TAKE i, j \in 1..Len(list)
  <2>1. list[i] \in Wide /\ list[j] \in Wide
    OBVIOUS
  <2> QED BY <2>1, SameOK DEF Apart
<1> QED BY <1>1, FewDevices

LEMMA ConfiguredFew ==
  ASSUME NEW c \in Loadable
  PROVE  Len(c.devices) <= Cardinality(DOMAIN DefaultAID) /\ Len(c.devices) + 2 <= MaxAID
<1>1. c.devices \in Seq(Wide) /\ ValidDevices(c.devices)
  BY ConfiguredOK
<1> QED BY <1>1, FewDevices DEF ValidDevices

LEMMA MergedFew ==
  ASSUME NEW c \in Loadable, NEW D \in Seq(Wide), NEW M \in Seq(Wide),
         Merged(c.devices, D, M, Len(D))
  PROVE  Len(M) <= Cardinality(DOMAIN DefaultAID) /\ Len(M) + 2 <= MaxAID
<1> DEFINE C == c.devices
<1>1. C \in Seq(Wide) /\ ValidDevices(C) /\ Len(C) \in Nat /\ DOMAIN C = 1..Len(C)
  BY ConfiguredOK
<1> HIDE DEF C
<1>2. ASSUME NEW i \in 1..Len(M), NEW j \in 1..Len(M), i < j
      PROVE  Address(M[i]) # Address(M[j])
  <2>1. CASE j <= Len(C)
    <3>1. i \in 1..Len(C) /\ j \in 1..Len(C) /\ i # j
      BY <1>1, <1>2, <2>1
    <3>2. M[i] = C[i] /\ M[j] = C[j]
      BY <3>1 DEF Merged, C
    <3> QED BY <1>1, <3>1, <3>2 DEF ValidDevices
  <2>2. CASE ~(j <= Len(C))
    <3>1. j \in (Len(C) + 1)..Len(M) /\ i \in 1..(j - 1)
      BY <1>1, <1>2, <2>2
    <3>2. ~SameDevice(M[i], M[j])
      BY <3>1 DEF Merged, C
    <3>3. M[i] \in Wide /\ M[j] \in Wide
      OBVIOUS
    <3> QED BY <3>2, <3>3, SameOK
  <2> QED BY <2>1, <2>2
<1>3. \A i, j \in 1..Len(M) : Address(M[i]) = Address(M[j]) => i = j
  <2> TAKE i, j \in 1..Len(M)
  <2>1. i < j \/ j < i \/ i = j
    OBVIOUS
  <2> QED BY <1>2, <2>1
<1> QED BY <1>3, FewDevices

-----------------------------------------------------------------------------
(* What is settled stays *)

(* A device that is appended takes no AID of another.                        *)
LEMMA AppendDeviceOK ==
  ASSUME NEW list \in Seq(Entry), OneAIDEach(list), NEW p \in Physical,
         Len(list) + 2 <= MaxAID
  PROVE  LET new == AppendDevice(list, p)
             n == Len(list)
         IN /\ new \in Seq(Entry) /\ Len(new) = n + 1 /\ OneAIDEach(new)
            /\ \A i \in 1..n : new[i] = list[i]
            /\ new[n + 1].mac = p.mac /\ new[n + 1].did = p.did
            /\ new[n + 1].product = "supported"
<1> DEFINE new == AppendDevice(list, p)
           n == Len(list)
           A == Append(list, FromReport(p))
           T == {k \in 0..n : \A i \in 1..k : new[i] = list[i]}
<1>1. FromReport(p) \in Wide /\ list \in Seq(Wide)
  BY ReportOK, EntryOK
<1>2. /\ A \in Seq(Wide) /\ n \in Nat /\ Len(A) = n + 1 /\ A[n + 1] = FromReport(p)
      /\ \A i \in 1..n : A[i] = list[i]
  BY <1>1, AppendOK
<1> HIDE DEF A
<1>3. PreparedFrom(A, new)
  <2>1. Len(A) + 1 <= MaxAID
    BY <1>2
  <2>2. new = PrepareDevices(A).list
    BY DEF AppendDevice, A
  <2> HIDE DEF new
  <2> QED BY <1>2, <2>1, <2>2, PrepareOK
<1> HIDE DEF new
<1>4. 0 \in T
  BY <1>2
<1>5. ASSUME NEW k \in 0..(n - 1), k \in T PROVE k + 1 \in T
  <2>1. k + 1 \in 1..n /\ k + 1 \in 1..Len(A)
    BY <1>2
  <2>2. A[k + 1] = list[k + 1] /\ list[k + 1] \in Entry
    BY <1>2, <2>1
  <2>3. \A j \in 1..((k + 1) - 1) : new[j].aid # list[k + 1].aid
    <3> TAKE j \in 1..((k + 1) - 1)
    <3>1. new[j] = list[j] /\ j \in DOMAIN list /\ k + 1 \in DOMAIN list /\ j # k + 1
      BY <1>5, <2>1
    <3> QED BY <3>1 DEF OneAIDEach
  <2>4. new[k + 1] = list[k + 1]
    BY <1>3, <2>1, <2>2, <2>3 DEF PreparedFrom
  <2>5. \A i \in 1..(k + 1) : i \in 1..k \/ i = k + 1
    BY <1>2
  <2> QED BY <1>5, <2>1, <2>4, <2>5
<1> HIDE DEF T
<1>6. \A k \in 0..n : k \in T
  BY <1>2, <1>4, <1>5, Induction
<1>7. \A i \in 1..n : new[i] = list[i]
  <2>1. n \in T
    BY <1>2, <1>6
  <2> QED BY <2>1 DEF T
<1>8. n + 1 \in 1..Len(A)
  BY <1>2
<1>9. Identified(A[n + 1]) = "supported"
  BY <1>2, RegistryAssumption DEF FromReport, Identified
<1>10. new[n + 1].mac = p.mac /\ new[n + 1].did = p.did /\ new[n + 1].product = "supported"
  BY <1>2, <1>3, <1>8, <1>9 DEF PreparedFrom, FromReport
<1> QED BY <1>2, <1>3, <1>7, <1>10 DEF PreparedFrom, new

(* A list is merged with the configuration and prepared.                     *)
LEMMA RestoredOK ==
  ASSUME NEW c \in Loadable, NEW D \in Seq(Wide)
  PROVE  LET M == MergeDevices(c.devices, D)
             own == PrepareDevices(c.devices).list
             new == PrepareDevices(M).list
         IN /\ M \in Seq(Wide) /\ Merged(c.devices, D, M, Len(D)) /\ PreparedFrom(M, new)
            /\ PreparedFrom(c.devices, own)
            /\ \A i \in 1..Len(c.devices) : new[i] = own[i]
            /\ Len(M) <= Cardinality(DOMAIN DefaultAID)
<1> DEFINE C == c.devices
           M == MergeDevices(C, D)
<1>1. C \in Seq(Wide) /\ Len(C) + 2 <= MaxAID /\ Len(C) \in Nat
  BY ConfiguredOK, ConfiguredFew
<1>2. M \in Seq(Wide) /\ Merged(C, D, M, Len(D))
  <2> HIDE DEF C
  <2> QED BY <1>1, MergeOK
<1> HIDE DEF M
<1>3. Len(M) <= Cardinality(DOMAIN DefaultAID) /\ Len(M) + 2 <= MaxAID /\ Len(M) \in Nat
  BY <1>2, MergedFew
<1> HIDE DEF C
<1>4. PreparedFrom(M, PrepareDevices(M).list) /\ PreparedFrom(C, PrepareDevices(C).list)
  <2>1. Len(M) + 1 <= MaxAID /\ Len(C) + 1 <= MaxAID
    BY <1>1, <1>3, Plenty
  <2> QED BY <1>1, <1>2, <2>1, PrepareOK
<1>5. \A i \in 1..Len(C) : PrepareDevices(M).list[i] = PrepareDevices(C).list[i]
  <2>1. Len(C) <= Len(M) /\ \A i \in 1..Len(C) : M[i] = C[i]
    BY <1>2 DEF Merged
  <2> QED BY <1>1, <1>2, <2>1, PreparePrefix
<1> QED BY <1>2, <1>3, <1>4, <1>5 DEF C, M

(* What a start exposes is settled.                                          *)
Shown(list) == {d \in Range(list) : Supported(d)}

LEMMA StartSettles ==
  ASSUME NEW c \in Loadable, NEW D \in Seq(Wide)
  PROVE  LET new == PrepareDevices(MergeDevices(c.devices, D)).list
         IN /\ new \in Seq(Entry) /\ Len(new) <= Cardinality(DOMAIN DefaultAID)
            /\ Settled(c.devices, Shown(new), new)
<1> DEFINE C == c.devices
           M == MergeDevices(C, D)
           N == PrepareDevices(M).list
           O == PrepareDevices(C).list
<1>1. /\ M \in Seq(Wide) /\ Merged(C, D, M, Len(D)) /\ PreparedFrom(M, N)
      /\ PreparedFrom(C, O) /\ (\A i \in 1..Len(C) : N[i] = O[i])
      /\ Len(M) <= Cardinality(DOMAIN DefaultAID)
  BY RestoredOK
<1>2. C \in Seq(Wide)
  BY ConfiguredOK
<1> HIDE DEF C, M, N, O
<1>3. /\ N \in Seq(Entry) /\ O \in Seq(Entry) /\ Len(N) = Len(M) /\ Len(O) = Len(C)
      /\ Len(C) \in Nat /\ Len(M) \in Nat /\ Len(C) <= Len(M) /\ OneAIDEach(N)
      /\ DOMAIN N = 1..Len(M) /\ DOMAIN C = 1..Len(C) /\ DOMAIN O = 1..Len(C)
  BY <1>1, <1>2 DEF PreparedFrom, Merged
<1>4. Range(O) \subseteq Range(N)
  <2> SUFFICES ASSUME NEW i \in 1..Len(C) PROVE O[i] \in Range(N)
    BY <1>3 DEF Range
  <2> QED BY <1>1, <1>3 DEF Range
<1>5. ASSUME NEW i \in 1..Len(M), N[i] \notin Range(O)
      PROVE  ~Found(C, N[i]) /\ \A j \in 1..Len(M) : SameDevice(N[i], N[j]) => i = j
  <2>1. ~(i <= Len(C))
    <3>1. i <= Len(C) => i \in 1..Len(C) /\ i \in DOMAIN O
      BY <1>3
    <3> QED BY <1>1, <1>5, <3>1 DEF Range
  <2>2. \A j \in 1..Len(M) : M[j] \in Wide /\ N[j].mac = M[j].mac /\ N[j].did = M[j].did
    BY <1>1 DEF PreparedFrom
  <2>3. \A j \in (Len(C) + 1)..Len(M) : \A k \in 1..(j - 1) : ~SameDevice(M[k], M[j])
    BY <1>1 DEF Merged
  <2>4. ASSUME NEW j \in 1..Len(M), SameDevice(N[i], N[j]) PROVE i = j
    <3>1. SameDevice(M[i], M[j]) /\ SameDevice(M[j], M[i])
      <4>1. SameDevice(M[i], M[j])
        BY <2>2, <2>4 DEF SameDevice
      <4> QED BY <2>2, <4>1, SameOK
    <3>2. j < i => FALSE
      <4>1. j < i => i \in (Len(C) + 1)..Len(M) /\ j \in 1..(i - 1)
        BY <1>3, <2>1
      <4> QED BY <2>3, <3>1, <4>1
    <3>3. i < j => FALSE
      <4>1. i < j => j \in (Len(C) + 1)..Len(M) /\ i \in 1..(j - 1)
        BY <1>3, <2>1
      <4> QED BY <2>3, <3>1, <4>1
    <3> QED BY <1>3, <3>2, <3>3
  <2>5. ASSUME NEW j \in 1..Len(C) PROVE ~SameDevice(C[j], N[i])
    <3>1. j \in 1..(i - 1) /\ i \in (Len(C) + 1)..Len(M)
      BY <1>3, <2>1
    <3>2. ~SameDevice(C[j], M[i])
      BY <1>1, <2>3, <3>1 DEF Merged
    <3> QED BY <2>2, <3>2 DEF SameDevice
  <2> QED BY <1>3, <2>4, <2>5 DEF Found
<1>6. ASSUME NEW d \in Shown(N) \ Range(O)
      PROVE  ~Found(C, d) /\ \A e \in Range(N) : SameDevice(d, e) => d = e
  <2>1. PICK i \in 1..Len(M) : d = N[i]
    BY <1>3 DEF Shown, Range
  <2>2. ~Found(C, d) /\ \A j \in 1..Len(M) : SameDevice(d, N[j]) => i = j
    BY <1>5, <2>1
  <2> QED BY <1>3, <2>1, <2>2 DEF Range
<1>7. Settled(C, Shown(N), N)
  BY <1>3, <1>4, <1>6 DEF Settled, O, Shown
<1> QED BY <1>1, <1>3, <1>7 DEF C, M, N

(* Merging and preparing settled devices again keeps their AIDs.             *)
LEMMA RestartKeeps ==
  ASSUME NEW c \in Loadable, NEW D \in Seq(Entry), NEW E, Settled(c.devices, E, D)
  PROVE  E \subseteq Range(PrepareDevices(MergeDevices(c.devices, D)).list)
<1> DEFINE C == c.devices
           M == MergeDevices(C, D)
           N == PrepareDevices(M).list
           O == PrepareDevices(C).list
           c0 == Len(C)
           m0 == Len(M)
           T == {k \in 0..m0 : \A i \in 1..k : i > c0 => N[i] = M[i]}
<1>1. D \in Seq(Wide) /\ DOMAIN D = 1..Len(D)
  BY EntryOK
<1>2. /\ M \in Seq(Wide) /\ Merged(C, D, M, Len(D)) /\ PreparedFrom(M, N)
      /\ PreparedFrom(C, O) /\ (\A i \in 1..c0 : N[i] = O[i])
  BY <1>1, RestoredOK
<1>3. C \in Seq(Wide)
  BY ConfiguredOK
<1>4. Settled(C, E, D)
  OBVIOUS
<1> HIDE DEF C, M, N, O
<1>5. /\ N \in Seq(Entry) /\ O \in Seq(Entry) /\ Len(N) = m0 /\ Len(O) = c0
      /\ c0 \in Nat /\ m0 \in Nat /\ c0 <= m0
      /\ DOMAIN N = 1..m0 /\ DOMAIN M = 1..m0 /\ DOMAIN C = 1..c0 /\ DOMAIN O = 1..c0
  BY <1>2, <1>3 DEF PreparedFrom, Merged
<1>6. /\ OneAIDEach(D) /\ Range(O) \subseteq Range(D) /\ E \subseteq Range(D)
      /\ \A d \in E \ Range(O) :
           ~Found(C, d) /\ \A e \in Range(D) : SameDevice(d, e) => d = e
  BY <1>4 DEF Settled, O
<1>7. \A d, e \in Range(D) : d.aid = e.aid => d = e
  BY <1>6 DEF OneAIDEach, Range
<1>8. ASSUME NEW i \in 1..c0 PROVE N[i] = O[i] /\ O[i] \in Range(O) /\ O[i] \in Range(D)
                                    /\ M[i] = C[i] /\ O[i].mac = C[i].mac /\ O[i].did = C[i].did
  BY <1>2, <1>5, <1>6 DEF Range, PreparedFrom, Merged
<1>9. ASSUME NEW i \in 1..m0, i > c0
      PROVE  /\ M[i] \in Range(D) /\ M[i] \in Entry
             /\ \A j \in 1..(i - 1) : ~SameDevice(M[j], M[i])
  <2>1. i \in (c0 + 1)..m0
    BY <1>5, <1>9
  <2>2. M[i] \in Range(D) /\ \A j \in 1..(i - 1) : ~SameDevice(M[j], M[i])
    BY <1>2, <2>1 DEF Merged
  <2> QED BY <1>1, <2>2 DEF Range
<1>10. 0 \in T
  BY <1>5
<1>11. ASSUME NEW k \in 0..(m0 - 1), k \in T PROVE k + 1 \in T
  <2>1. k + 1 \in 1..m0 /\ k + 1 \in 0..m0 /\ (k + 1) - 1 = k
    BY <1>5
  <2>2. \A i \in 1..k : i > c0 => N[i] = M[i]
    BY <1>11
  <2>3. ASSUME k + 1 > c0 PROVE N[k + 1] = M[k + 1]
    <3>1. /\ M[k + 1] \in Range(D) /\ M[k + 1] \in Entry
          /\ \A j \in 1..k : ~SameDevice(M[j], M[k + 1])
      BY <1>9, <2>1, <2>3
    <3>2. ASSUME NEW j \in 1..k PROVE N[j].aid # M[k + 1].aid
      <4>1. j \in 1..m0 /\ M[j] \in Wide /\ M[k + 1] \in Wide
        BY <1>2, <1>5, <2>1
      <4>2. N[j] \in Range(D) /\ N[j].mac = M[j].mac /\ N[j].did = M[j].did
        <5>1. CASE j \in 1..c0
          BY <1>8, <5>1
        <5>2. CASE j > c0
          BY <1>9, <2>2, <4>1, <5>2
        <5> QED BY <1>5, <5>1, <5>2
      <4>3. ~SameDevice(N[j], M[k + 1])
        BY <3>1, <4>2 DEF SameDevice
      <4>4. N[j] # M[k + 1]
        BY <4>1, <4>3, SameOK
      <4> QED BY <1>7, <3>1, <4>2, <4>4
    <3>3. k + 1 \in 1..Len(M)
      BY <2>1
    <3> QED BY <1>2, <2>1, <3>1, <3>2, <3>3 DEF PreparedFrom
  <2>4. \A i \in 1..(k + 1) : i \in 1..k \/ i = k + 1
    BY <1>5
  <2>5. \A i \in 1..(k + 1) : i > c0 => N[i] = M[i]
    BY <2>2, <2>3, <2>4
  <2> QED BY <2>1, <2>5
<1> HIDE DEF T
<1>12. \A k \in 0..m0 : k \in T
  BY <1>5, <1>10, <1>11, Induction
<1>13. \A i \in 1..m0 : i > c0 => N[i] = M[i]
  <2>1. m0 \in T
    BY <1>5, <1>12
  <2> QED BY <2>1 DEF T
<1>14. ASSUME NEW d \in E PROVE d \in Range(N)
  <2>1. CASE d \in Range(O)
    <3>1. PICK i \in 1..c0 : d = O[i]
      BY <1>5, <2>1 DEF Range
    <3>2. i \in DOMAIN N /\ N[i] = d
      BY <1>5, <1>8, <3>1
    <3> QED BY <3>2 DEF Range
  <2>2. CASE d \notin Range(O)
    <3>1. /\ d \in Range(D) /\ ~Found(C, d)
          /\ \A e \in Range(D) : SameDevice(d, e) => d = e
      BY <1>6, <2>2
    <3>2. PICK j \in 1..Len(D) : d = D[j]
      BY <1>1, <3>1 DEF Range
    <3>3. PICK i \in 1..m0 : SameDevice(M[i], d)
      BY <1>2, <1>5, <3>2 DEF Merged, Found
    <3>4. i > c0
      <4>1. i \notin 1..c0
        BY <1>5, <1>8, <3>1, <3>3 DEF Found
      <4> QED BY <1>5, <4>1
    <3>5. M[i] \in Range(D) /\ M[i] \in Wide /\ d \in Wide
      BY <1>1, <1>2, <1>9, <3>2, <3>4
    <3>6. M[i] = d
      BY <3>1, <3>3, <3>5, SameOK
    <3>7. i \in DOMAIN N /\ N[i] = d
      BY <1>5, <1>13, <3>4, <3>6
    <3> QED BY <3>7 DEF Range
  <2> QED BY <2>1, <2>2
<1> QED BY <1>14 DEF C, M, N

-----------------------------------------------------------------------------
(* The steps *)

(* A sorted list has the devices of the list.                                *)
LEMMA SortedOK ==
  ASSUME NEW list \in Seq(Entry), NEW sorted \in Sorted(list)
  PROVE  /\ sorted \in Seq(Entry) /\ Len(sorted) = Len(list) /\ Range(sorted) = Range(list)
         /\ OneAIDEach(list) => OneAIDEach(sorted)
<1> DEFINE S == DOMAIN list
<1>1. PICK p \in Bijection(S, S) : sorted = [i \in S |-> list[p[i]]]
  BY DEF Sorted
<1>2. /\ p \in [S -> S] /\ (\A i, j \in S : p[i] = p[j] => i = j)
      /\ \A j \in S : \E i \in S : p[i] = j
  BY <1>1 DEF Bijection, Injection, Surjection, IsInjective
<1>3. S = 1..Len(list) /\ Len(list) \in Nat /\ \A i \in S : list[i] \in Entry
  OBVIOUS
<1> HIDE DEF S
<1>4. sorted \in [S -> Entry] /\ DOMAIN sorted = S /\ \A i \in S : sorted[i] = list[p[i]]
  BY <1>1, <1>2, <1>3
<1>5. sorted \in Seq(Entry) /\ Len(sorted) = Len(list)
  BY <1>3, <1>4
<1>6. Range(sorted) = Range(list)
  BY <1>2, <1>4 DEF Range, S
<1>7. ASSUME OneAIDEach(list) PROVE OneAIDEach(sorted)
  <2> SUFFICES ASSUME NEW i \in S, NEW j \in S, sorted[i].aid = sorted[j].aid PROVE i = j
    BY <1>4 DEF OneAIDEach
  <2>1. p[i] \in S /\ p[j] \in S /\ list[p[i]].aid = list[p[j]].aid
    BY <1>2, <1>4
  <2>2. p[i] = p[j]
    BY <1>7, <2>1 DEF OneAIDEach, S
  <2> QED BY <1>2, <2>2
<1> QED BY <1>5, <1>6, <1>7

LEMMA ExposeOK ==
  ASSUME identity \in [Physical -> AIDs \cup {0}],
         NEW list \in Seq(Entry), NEW sorted \in Sorted(list), Expose(sorted)
  PROVE  /\ phase' = "running" /\ exposed' = Shown(list) /\ exposed' \subseteq Entry
         /\ devices' \in Seq(Entry) /\ Len(devices') = Len(list)
         /\ Range(devices') = Range(list)
         /\ OneAIDEach(list) => OneAIDEach(devices')
         /\ identity' \in [Physical -> AIDs \cup {0}]
<1>1. /\ sorted \in Seq(Entry) /\ Len(sorted) = Len(list) /\ Range(sorted) = Range(list)
      /\ OneAIDEach(list) => OneAIDEach(sorted)
  BY SortedOK
<1>2. devices' = sorted /\ phase' = "running" /\ exposed' = Shown(list)
  BY <1>1 DEF Expose, Shown
<1>3. exposed' \subseteq Entry
  BY <1>2 DEF Shown, Range
<1> DEFINE Matches(p) == {i \in DOMAIN sorted : Supported(sorted[i]) /\ SameDevice(sorted[i], p)}
           First(p) == CHOOSE i \in Matches(p) : \A j \in Matches(p) : i <= j
<1>4. identity' = [p \in Physical |->
                    IF Matches(p) = {} THEN identity[p] ELSE sorted[First(p)].aid]
  BY DEF Expose
<1>5. ASSUME NEW p \in Physical, Matches(p) # {} PROVE sorted[First(p)].aid \in AIDs
  <2> DEFINE Q == Matches(p)
  <2>1. Q \in SUBSET Nat /\ Q # {}
    BY <1>1, <1>5
  <2> HIDE DEF Q
  <2>2. \E i \in Q : \A j \in Q : i <= j
    BY <2>1, Least
  <2>3. (CHOOSE i \in Q : \A j \in Q : i <= j) \in Q
    BY <2>2
  <2>4. First(p) \in DOMAIN sorted
    BY <2>3 DEF Q
  <2> HIDE DEF First
  <2>5. sorted[First(p)] \in Entry
    BY <1>1, <2>4
  <2> QED BY <2>5 DEF Entry
<1> HIDE DEF Matches, First
<1>6. identity' \in [Physical -> AIDs \cup {0}]
  BY <1>4, <1>5
<1> QED BY <1>1, <1>2, <1>3, <1>6

(* The invariant in two parts, the one of config.json and the other.         *)
FileOK ==
  /\ file \in Files \cup {Absent} \cup {Defaults(pin) : pin \in Pins}
  /\ config # None => file # Absent /\ Valid(file) /\ Normalized(file) = config

DevicesOK ==
  /\ config \in Loadable \cup {None}
  /\ disk \in Seq(Entry)
  /\ phase \in {"stopped", "discovering", "running"}
  /\ phase = "stopped" <=> config = None
  /\ devices \in Seq(Entry)
  /\ exposed \subseteq Entry
  /\ unknown \subseteq Reported
  /\ identity \in [Physical -> AIDs \cup {0}]
  /\ config # None =>
       exposed \subseteq Range(PrepareDevices(MergeDevices(config.devices, disk)).list)
  /\ phase = "stopped" => devices = <<>> /\ exposed = {}
  /\ phase = "discovering" =>
       /\ config.devices = <<>> /\ exposed = {}
       /\ OneAIDEach(devices) /\ Apart(devices)
  /\ phase = "running" =>
       /\ Settled(config.devices, exposed, devices)
       /\ Len(devices) <= Cardinality(DOMAIN DefaultAID) + Cardinality(unknown)

LEMMA Parts == DeviceInv <=> FileOK /\ DevicesOK /\ starts \in 0..MaxStarts
BY DEF DeviceInv, RegistryInv, TypeOK, RestartIsAlike, FileOK, DevicesOK, Reported

LEMMA StoppedOK ==
  ASSUME DevicesOK, Stopped, disk' \in Seq(Entry), UNCHANGED identity
  PROVE  DevicesOK'
BY DEF DevicesOK, Stopped

(* The registry is saved, if it must be, and the accessories made.           *)
LEMMA SaveAndExposeOK ==
  ASSUME DevicesOK, NEW c \in Loadable, NEW list \in Seq(Entry), NEW changed \in BOOLEAN,
         Settled(c.devices, Shown(list), list), Len(list) <= Cardinality(DOMAIN DefaultAID),
         ~changed => list = PrepareDevices(MergeDevices(c.devices, disk)).list,
         SaveAndExpose(c, list, changed)
  PROVE  DevicesOK' /\ config' \in {c, None}
<1>1. CASE Stopped /\ Save(list, FALSE) /\ UNCHANGED identity
  <2>1. disk' \in Seq(Entry)
    BY <1>1 DEF Save, DevicesOK
  <2> QED BY <1>1, <2>1, StoppedOK DEF Stopped
<1>2. CASE /\ \E sorted \in Sorted(list) : Expose(sorted)
           /\ config' = c
           /\ IF changed THEN Save(list, TRUE) ELSE UNCHANGED disk
           /\ UNCHANGED unknown
  <2>1. /\ phase' = "running" /\ exposed' = Shown(list) /\ exposed' \subseteq Entry
        /\ devices' \in Seq(Entry) /\ Len(devices') = Len(list)
        /\ Range(devices') = Range(list)
        /\ OneAIDEach(list) => OneAIDEach(devices')
        /\ identity' \in [Physical -> AIDs \cup {0}]
    BY <1>2, ExposeOK DEF DevicesOK
  <2>2. Settled(c.devices, exposed', devices')
    BY <2>1 DEF Settled
  <2>3. disk' \in Seq(Entry) /\ (disk' = list \/ (~changed /\ disk' = disk))
    BY <1>2 DEF Save, DevicesOK
  <2>4. exposed' \subseteq Range(PrepareDevices(MergeDevices(c.devices, disk')).list)
    <3>1. CASE disk' = list
      BY <2>1, <3>1, RestartKeeps
    <3>2. CASE ~changed /\ disk' = disk
      <4>1. Shown(list) \subseteq Range(list)
        BY DEF Shown
      <4> QED BY <2>1, <3>2, <4>1
    <3> QED BY <2>3, <3>1, <3>2
  <2>5. Cardinality(unknown') \in Nat /\ unknown' \subseteq Reported
    <3>1. unknown' \subseteq Reported
      BY <1>2 DEF DevicesOK
    <3>2. IsFiniteSet(unknown')
      BY <3>1, Plenty, FS_Subset
    <3> QED BY <3>1, <3>2, FS_CardinalityType
  <2>6. Len(devices') <= Cardinality(DOMAIN DefaultAID) + Cardinality(unknown')
    BY <2>1, <2>5, Plenty
  <2>7. config' = c /\ c # None
    BY <1>2, RegistryAssumption
  <2> QED BY <2>1, <2>2, <2>3, <2>4, <2>5, <2>6, <2>7 DEF DevicesOK
<1> QED BY <1>1, <1>2 DEF SaveAndExpose

LEMMA StartOK ==
  ASSUME DevicesOK, NEW c \in Loadable, StartWith(c), phase = "stopped"
  PROVE  DevicesOK' /\ config' \in {c, None}
<1> DEFINE M == MergeDevices(c.devices, disk)
           new == PrepareDevices(M).list
           changed == PrepareDevices(M).changed
<1>1. disk \in Seq(Entry) /\ disk \in Seq(Wide)
  BY EntryOK DEF DevicesOK
<1>2. /\ new \in Seq(Entry) /\ Len(new) <= Cardinality(DOMAIN DefaultAID)
      /\ Settled(c.devices, Shown(new), new)
  BY <1>1, StartSettles
<1>3. CASE /\ new = <<>> /\ phase' = "discovering" /\ config' = c
           /\ UNCHANGED <<disk, devices, exposed, unknown, identity>>
  <2>1. c.devices = <<>>
    <3>1. /\ M \in Seq(Wide) /\ Merged(c.devices, disk, M, Len(disk)) /\ PreparedFrom(M, new)
      BY <1>1, RestoredOK
    <3>2. c.devices \in Seq(Wide) /\ Len(c.devices) \in Nat
      BY ConfiguredOK
    <3> HIDE DEF M, new
    <3>3. Len(M) = Len(new) /\ Len(c.devices) <= Len(M) /\ Len(new) = 0
      BY <1>3, <3>1 DEF PreparedFrom, Merged
    <3> QED BY <3>2, <3>3
  <2>2. devices' = <<>> /\ exposed' = {} /\ disk' = disk /\ unknown' = unknown
    BY <1>3 DEF DevicesOK
  <2>3. OneAIDEach(devices') /\ Apart(devices')
    BY <2>2 DEF OneAIDEach, Apart
  <2>4. c # None
    BY RegistryAssumption
  <2> QED BY <1>3, <2>1, <2>2, <2>3, <2>4 DEF DevicesOK
<1>4. CASE SaveAndExpose(c, new, changed)
  <2>1. changed \in BOOLEAN /\ (~changed => new = PrepareDevices(M).list)
    BY DEF PrepareDevices
  <2> HIDE DEF new, changed
  <2>2. ~changed => new = PrepareDevices(MergeDevices(c.devices, disk)).list
    BY DEF new
  <2> QED BY <1>2, <1>4, <2>1, <2>2, SaveAndExposeOK
<1> QED BY <1>3, <1>4 DEF StartWith

(* What is discovered is settled, as nothing is configured.                  *)
LEMMA DiscoveredSettles ==
  ASSUME NEW list \in Seq(Entry), OneAIDEach(list), Apart(list)
  PROVE  Settled(<<>>, Shown(list), list) /\ Len(list) <= Cardinality(DOMAIN DefaultAID)
<1>1. Len(list) <= Cardinality(DOMAIN DefaultAID)
  BY ApartFew, EntryOK
<1>2. Range(PrepareDevices(<<>>).list) = {}
  <2>1. <<>> \in Seq(Wide) /\ Len(<<>>) + 1 <= MaxAID
    BY Plenty
  <2>2. PreparedFrom(<<>>, PrepareDevices(<<>>).list)
    BY <2>1, PrepareOK
  <2> QED BY <2>2 DEF PreparedFrom, Range
<1>3. \A d : ~Found(<<>>, d)
  BY DEF Found
<1>4. \A d, e \in Range(list) : SameDevice(d, e) => d = e
  BY DEF Apart, Range
<1> QED BY <1>1, <1>2, <1>3, <1>4 DEF Settled, Shown

LEMMA WindowEndsOK ==
  ASSUME DevicesOK, phase = "discovering", NEW list \in Seq(Entry),
         OneAIDEach(list), Apart(list), SaveAndExpose(config, list, TRUE)
  PROVE  DevicesOK' /\ config' \in {config, None}
<1>1. config \in Loadable /\ config.devices = <<>>
  BY DEF DevicesOK
<1>2. Settled(config.devices, Shown(list), list) /\ Len(list) <= Cardinality(DOMAIN DefaultAID)
  BY <1>1, DiscoveredSettles
<1> QED BY <1>1, <1>2, SaveAndExposeOK

LEMMA DiscoveredApart ==
  ASSUME NEW list \in Seq(Entry), OneAIDEach(list), Apart(list), NEW p \in Physical,
         Len(list) + 2 <= MaxAID, ~Found(list, p)
  PROVE  Apart(AppendDevice(list, p))
<1> DEFINE new == AppendDevice(list, p)
           n == Len(list)
<1>1. /\ new \in Seq(Entry) /\ Len(new) = n + 1 /\ \A i \in 1..n : new[i] = list[i]
      /\ new[n + 1].mac = p.mac /\ new[n + 1].did = p.did
  BY AppendDeviceOK
<1> HIDE DEF new
<1>2. DOMAIN new = 1..(n + 1) /\ DOMAIN list = 1..n
  BY <1>1
<1>3. ASSUME NEW i \in 1..n
      PROVE  ~SameDevice(new[i], new[n + 1]) /\ ~SameDevice(new[n + 1], new[i])
  <2>1. ~SameDevice(list[i], p)
    BY <1>2 DEF Found
  <2>2. ~SameDevice(new[i], new[n + 1])
    BY <1>1, <2>1 DEF SameDevice
  <2>3. new[i] \in Wide /\ new[n + 1] \in Wide
    BY <1>1, <1>2, EntryOK
  <2> QED BY <2>2, <2>3, SameOK
<1>4. ASSUME NEW i \in 1..(n + 1), NEW j \in 1..(n + 1), SameDevice(new[i], new[j])
      PROVE  i = j
  <2>1. (i \in 1..n \/ i = n + 1) /\ (j \in 1..n \/ j = n + 1)
    BY <1>2
  <2>2. CASE i \in 1..n /\ j \in 1..n
    BY <1>1, <1>2, <1>4, <2>2 DEF Apart
  <2> QED BY <1>3, <1>4, <2>1, <2>2
<1> QED BY <1>2, <1>4 DEF Apart, new

LEMMA DiscoverOK ==
  ASSUME DevicesOK, NEW p \in Physical, Discover(p)
  PROVE  DevicesOK' /\ config' \in {config, None}
<1> DEFINE list == IF Found(devices, p) THEN devices ELSE AppendDevice(devices, p)
           n == Len(devices)
<1>1. /\ phase = "discovering" /\ devices \in Seq(Entry)
      /\ OneAIDEach(devices) /\ Apart(devices) /\ n \in Nat
  BY DEF Discover, DevicesOK
<1>2. list \in Seq(Entry) /\ OneAIDEach(list) /\ Apart(list)
  <2>1. CASE ~Found(devices, p)
    <3>1. n + 2 <= MaxAID
      BY <1>1, ApartFew, EntryOK
    <3>2. /\ list \in Seq(Entry) /\ Len(list) = n + 1 /\ OneAIDEach(list)
          /\ \A i \in 1..n : list[i] = devices[i]
          /\ list[n + 1].mac = p.mac /\ list[n + 1].did = p.did
      BY <1>1, <2>1, <3>1, AppendDeviceOK
    <3>3. Apart(list)
      BY <1>1, <2>1, <3>1, DiscoveredApart
    <3> QED BY <3>2, <3>3
  <2> QED BY <1>1, <2>1
<1> HIDE DEF list, n
<1>3. CASE SaveAndExpose(config, list, TRUE)
  BY <1>1, <1>2, <1>3, WindowEndsOK
<1>4. CASE devices' = list /\ UNCHANGED <<config, disk, phase, exposed, unknown, identity>>
  BY <1>1, <1>2, <1>4 DEF DevicesOK
<1> QED BY <1>3, <1>4 DEF Discover, list

LEMMA EnrollFew ==
  ASSUME DevicesOK, NEW p \in Physical, Enroll(p)
  PROVE  /\ unknown' \subseteq Reported /\ Cardinality(unknown) \in Nat
         /\ Cardinality(unknown') = Cardinality(unknown) + 1
         /\ Len(devices) + 1 <= MostDevices /\ Len(devices) + 2 <= MaxAID
<1>1. /\ p.mac \notin unknown /\ unknown' = unknown \cup {p.mac}
      /\ unknown \subseteq Reported /\ devices \in Seq(Entry)
      /\ Len(devices) <= Cardinality(DOMAIN DefaultAID) + Cardinality(unknown)
  BY DEF Enroll, DevicesOK
<1>2. unknown' \subseteq Reported
  BY <1>1 DEF Reported
<1>3. IsFiniteSet(unknown) /\ Cardinality(unknown) \in Nat
  BY <1>1, Plenty, FS_Subset, FS_CardinalityType
<1>4. Cardinality(unknown') = Cardinality(unknown) + 1
  BY <1>1, <1>3, FS_AddElement
<1>5. Cardinality(unknown') <= Cardinality(Reported)
  BY <1>2, Plenty, FS_Subset
<1>6. Len(devices) \in Nat
  BY <1>1
<1> QED BY <1>1, <1>2, <1>3, <1>4, <1>5, <1>6, Plenty DEF MostDevices, Reported

LEMMA EnrollOK ==
  ASSUME DevicesOK, NEW p \in Physical, Enroll(p)
  PROVE  DevicesOK'
<1> DEFINE n == Len(devices)
           new == AppendDevice(devices, p)
<1>1. /\ phase = "running" /\ p.mac \notin unknown /\ unknown' = unknown \cup {p.mac}
      /\ UNCHANGED <<config, phase, exposed, identity>>
      /\ \A d \in exposed : ~SameDevice(d, p)
  BY DEF Enroll
<1>2. /\ config \in Loadable /\ devices \in Seq(Entry) /\ n \in Nat
      /\ Settled(config.devices, exposed, devices)
      /\ n <= Cardinality(DOMAIN DefaultAID) + Cardinality(unknown)
  BY <1>1 DEF DevicesOK
<1>3. /\ unknown' \subseteq Reported /\ n + 2 <= MaxAID
      /\ Cardinality(unknown') = Cardinality(unknown) + 1 /\ Cardinality(unknown) \in Nat
  BY EnrollFew
<1>4. CASE UNCHANGED <<devices, disk>>
  <2>1. Len(devices') <= Cardinality(DOMAIN DefaultAID) + Cardinality(unknown')
    BY <1>2, <1>3, <1>4, Plenty
  <2> QED BY <1>1, <1>2, <1>3, <1>4, <2>1 DEF DevicesOK
<1>5. CASE devices' = new /\ \E ok \in BOOLEAN : Save(devices', ok)
  <2>1. /\ new \in Seq(Entry) /\ Len(new) = n + 1 /\ OneAIDEach(new)
        /\ \A i \in 1..n : new[i] = devices[i]
        /\ new[n + 1].mac = p.mac /\ new[n + 1].did = p.did
    BY <1>2, <1>3, AppendDeviceOK DEF Settled
  <2> HIDE DEF new
  <2>2. DOMAIN new = 1..(n + 1) /\ DOMAIN devices = 1..n
    BY <1>2, <2>1
  <2>3. Range(devices) \subseteq Range(new) /\ \A e \in Range(new) \ Range(devices) : e = new[n + 1]
    <3>1. \A i \in 1..(n + 1) : i \in 1..n \/ i = n + 1
      BY <1>2
    <3>2. 1..n \subseteq 1..(n + 1)
      BY <1>2
    <3> QED BY <2>1, <2>2, <3>1, <3>2 DEF Range
  <2>4. \A d \in exposed : ~SameDevice(d, new[n + 1])
    BY <1>1, <2>1 DEF SameDevice
  <2>5. Settled(config.devices, exposed, new)
    BY <1>2, <2>1, <2>3, <2>4 DEF Settled
  <2>6. Len(new) <= Cardinality(DOMAIN DefaultAID) + Cardinality(unknown')
    BY <1>2, <1>3, <2>1, Plenty
  <2>7. disk' \in Seq(Entry) /\ (disk' = disk \/ disk' = new)
    BY <1>5, <2>1 DEF Save, DevicesOK
  <2>8. exposed \subseteq Range(PrepareDevices(MergeDevices(config.devices, disk')).list)
    <3>1. CASE disk' = disk
      BY <1>2, <3>1, RegistryAssumption DEF DevicesOK
    <3>2. CASE disk' = new
      BY <1>2, <2>1, <2>5, <3>2, RestartKeeps
    <3> QED BY <2>7, <3>1, <3>2
  <2> QED BY <1>1, <1>2, <1>3, <1>5, <2>1, <2>5, <2>6, <2>7, <2>8 DEF DevicesOK
<1> QED BY <1>4, <1>5 DEF Enroll

(* A configuration that is loaded is in the file, or written there first.    *)
LEMMA LoadOK ==
  ASSUME NEW c \in Loadable, LoadOrCreate(c), FileOK
  PROVE  /\ file' \in Files \cup {Absent} \cup {Defaults(pin) : pin \in Pins}
         /\ file' # Absent /\ Valid(file') /\ Normalized(file') = c
<1>1. CASE file # Absent /\ Valid(file) /\ c = Normalized(file) /\ UNCHANGED file
  BY <1>1 DEF FileOK
<1>2. CASE \E pin \in Pins : c = Normalized(Defaults(pin)) /\ WriteJSON(c)
  <2>1. PICK pin \in Pins : c = Normalized(Defaults(pin)) /\ file' = c
    BY <1>2 DEF WriteJSON
  <2>2. Normalized(Defaults(pin)) = Defaults(pin)
    BY DEF Normalized, Defaults
  <2>3. Valid(Defaults(pin))
    BY <2>2 DEF Valid, Defaults, ValidDevices
  <2>4. c # Absent
    BY RegistryAssumption
  <2> QED BY <2>1, <2>2, <2>3, <2>4
<1> QED BY <1>1, <1>2 DEF LoadOrCreate

LEMMA InvInit == Init => DeviceInv
<1> SUFFICES ASSUME Init PROVE DeviceInv
  OBVIOUS
<1>1. starts \in 0..MaxStarts
  BY RegistryAssumption DEF Init
<1>2. FileOK
  BY DEF Init, FileOK
<1>3. DevicesOK
  BY DEF Init, DevicesOK
<1> QED BY <1>1, <1>2, <1>3, Parts

LEMMA InvNext == DeviceInv /\ [Next]_vars => DeviceInv'
<1> SUFFICES ASSUME FileOK, DevicesOK, starts \in 0..MaxStarts, [Next]_vars
             PROVE  FileOK' /\ DevicesOK' /\ starts' \in 0..MaxStarts
  <2>1. FileOK' /\ DevicesOK' /\ starts' \in 0..MaxStarts => DeviceInv'
    BY DEF DeviceInv, RegistryInv, TypeOK, RestartIsAlike, FileOK, DevicesOK, Reported
  <2> QED BY <2>1, Parts
<1>1. CASE Start
  <2>1. PICK c \in Loadable : LoadOrCreate(c) /\ StartWith(c)
    BY <1>1 DEF Start
  <2>2. DevicesOK' /\ config' \in {c, None}
    BY <1>1, <2>1, StartOK DEF Start
  <2>3. FileOK'
    BY <2>1, <2>2, LoadOK DEF FileOK
  <2>4. starts' \in 0..MaxStarts
    BY <1>1, RegistryAssumption DEF Start
  <2> QED BY <2>2, <2>3, <2>4
<1>2. CASE StartFails
  <2>1. DevicesOK'
    BY <1>2 DEF StartFails, DevicesOK
  <2>2. config' = None
    BY <1>2 DEF StartFails, DevicesOK
  <2>3. FileOK'
    BY <1>2, <2>2, LoadOK DEF FileOK, StartFails
  <2>4. starts' \in 0..MaxStarts
    BY <1>2, RegistryAssumption DEF StartFails
  <2> QED BY <2>1, <2>3, <2>4
<1>3. ASSUME NEW p \in Physical, Discover(p)
      PROVE  FileOK' /\ DevicesOK' /\ starts' \in 0..MaxStarts
  <2>1. DevicesOK' /\ config' \in {config, None}
    BY <1>3, DiscoverOK
  <2>2. UNCHANGED <<file, starts>>
    BY <1>3 DEF Discover
  <2> QED BY <2>1, <2>2 DEF FileOK
<1>4. ASSUME NEW p \in Physical, Enroll(p)
      PROVE  FileOK' /\ DevicesOK' /\ starts' \in 0..MaxStarts
  <2>1. DevicesOK'
    BY <1>4, EnrollOK
  <2>2. UNCHANGED <<file, config, starts>>
    BY <1>4 DEF Enroll
  <2> QED BY <2>1, <2>2 DEF FileOK
<1>5. CASE WindowEnds
  <2>1. DevicesOK' /\ config' \in {config, None}
    <3>1. /\ phase = "discovering" /\ SaveAndExpose(config, devices, TRUE)
          /\ devices \in Seq(Entry) /\ OneAIDEach(devices) /\ Apart(devices)
      BY <1>5 DEF WindowEnds, DevicesOK
    <3> QED BY <3>1, WindowEndsOK
  <2>2. UNCHANGED <<file, starts>>
    BY <1>5 DEF WindowEnds
  <2> QED BY <2>1, <2>2 DEF FileOK
<1>6. CASE Stop
  <2>1. Stopped /\ UNCHANGED <<file, starts, identity>>
    BY <1>6 DEF Stop
  <2>2. disk' \in Seq(Entry)
    BY <1>6 DEF Stop, Save, DevicesOK
  <2>3. DevicesOK'
    BY <2>1, <2>2, StoppedOK
  <2> QED BY <2>1, <2>3 DEF FileOK, Stopped
<1>7. CASE Edit
  <2>1. DevicesOK' /\ config' = None
    BY <1>7 DEF Edit, DevicesOK
  <2>2. FileOK'
    BY <1>7, <2>1 DEF Edit, FileOK
  <2> QED BY <1>7, <2>1, <2>2 DEF Edit
<1>8. CASE UNCHANGED vars
  BY <1>8 DEF vars, FileOK, DevicesOK
<1> QED BY <1>1, <1>2, <1>3, <1>4, <1>5, <1>6, <1>7, <1>8 DEF Next

(* DeviceInv holds in every state: what the bridge exposes is settled, and   *)
(* the AIDs suffice.                                                         *)
THEOREM DevicesSettled == Spec => []DeviceInv
<1> QED BY InvInit, InvNext, PTL DEF Spec

(* RegistryInv: the types, and a restart exposes every device that was       *)
(* exposed, under the same AID.                                              *)
THEOREM RestartsAlike == Spec => []RegistryInv
<1>1. DeviceInv => RegistryInv
  BY DEF DeviceInv
<1> QED BY <1>1, DevicesSettled, PTL

(* AIDsUnique: no two accessories have one AID, and none has that of the     *)
(* bridge.                                                                   *)
THEOREM OneAIDPerAccessory == Spec => []AIDsUnique
<1>1. DeviceInv => AIDsUnique
  <2> SUFFICES ASSUME DeviceInv PROVE AIDsUnique
    OBVIOUS
  <2>1. DevicesOK
    BY Parts
  <2>2. \A d \in exposed : d.aid \in AIDs
    BY <2>1 DEF DevicesOK, Entry
  <2>3. CASE phase = "running"
    <3>1. OneAIDEach(devices) /\ exposed \subseteq Range(devices)
      BY <2>1, <2>3 DEF DevicesOK, Settled
    <3>2. \A d, e \in exposed : d.aid = e.aid => d = e
      BY <3>1 DEF OneAIDEach, Range
    <3> QED BY <2>2, <3>2 DEF AIDsUnique
  <2>4. CASE phase # "running"
    <3>1. exposed = {}
      BY <2>1, <2>4 DEF DevicesOK
    <3> QED BY <3>1 DEF AIDsUnique
  <2> QED BY <2>3, <2>4
<1> QED BY <1>1, DevicesSettled, PTL

-----------------------------------------------------------------------------
(* Devices that the configurations leave no doubt of *)

(* Every saved device was configured or reported.                            *)
Like(d, e) == d.mac = e.mac /\ d.did = e.did

Sourced(d) ==
  \/ \E e \in Configured : Like(d, e) /\ Identified(d) = Identified(e)
  \/ \E q \in Physical : Like(d, q) /\ Identified(d) = "supported"

AllSourced(list) == \A d \in Range(list) : Sourced(d)

LEMMA SourcedSame ==
  ASSUME NEW p \in Unambiguous, NEW d, NEW e, Sourced(d), Sourced(e), SameDevice(d, p)
  PROVE  SameDevice(e, p) <=> SameDevice(d, e)
<1>1. PICK k \in Physical \cup Configured : Like(d, k)
  BY DEF Sourced
<1>2. PICK l \in Physical \cup Configured : Like(e, l)
  BY DEF Sourced
<1>3. SameDevice(k, p)
  BY <1>1 DEF Like, SameDevice
<1>4. SameDevice(l, p) <=> SameDevice(k, l)
  BY <1>3 DEF Unambiguous
<1>5. SameDevice(l, p) <=> SameDevice(e, p)
  BY <1>2 DEF Like, SameDevice
<1>6. SameDevice(k, l) <=> SameDevice(d, e)
  BY <1>1, <1>2 DEF Like, SameDevice
<1> QED BY <1>4, <1>5, <1>6

LEMMA SourcedConfigured ==
  ASSUME NEW c \in Loadable
  PROVE  AllSourced(c.devices)
<1>1. Range(c.devices) \subseteq Configured
  BY DEF Configured
<1> QED BY <1>1 DEF AllSourced, Sourced, Like

LEMMA IdentifiedOnce == \A d, e : e.product = Identified(d) => Identified(e) = Identified(d)
BY RegistryAssumption DEF Identified

(* What a start makes of the saved devices D: all are sourced, at most one   *)
(* is an unambiguous device, and it is one if one of D was.                  *)
LEMMA RestoredSourced ==
  ASSUME NEW c \in Loadable, NEW D \in Seq(Entry), AllSourced(D)
  PROVE  LET M == MergeDevices(c.devices, D)
             new == PrepareDevices(M).list
         IN /\ AllSourced(M) /\ AllSourced(new)
            /\ \A p \in Unambiguous :
                 /\ Found(D, p) => Found(M, p)
                 /\ Found(M, p) => Found(new, p)
                 /\ \A i, j \in 1..Len(M) :
                      SameDevice(M[i], p) /\ SameDevice(M[j], p) => i = j
<1> DEFINE C == c.devices
           M == MergeDevices(C, D)
           N == PrepareDevices(M).list
<1>1. D \in Seq(Wide) /\ DOMAIN D = 1..Len(D) /\ Len(D) \in Nat
  BY EntryOK
<1>2. /\ M \in Seq(Wide) /\ Merged(C, D, M, Len(D)) /\ PreparedFrom(M, N)
      /\ C \in Seq(Wide)
  BY <1>1, RestoredOK, ConfiguredOK
<1>3. AllSourced(C)
  BY SourcedConfigured
<1> HIDE DEF M, N
<1>4. /\ Len(M) \in Nat /\ Len(C) \in Nat /\ DOMAIN M = 1..Len(M) /\ DOMAIN N = 1..Len(M)
      /\ DOMAIN C = 1..Len(C)
  BY <1>2 DEF PreparedFrom
<1>5. ASSUME NEW i \in 1..Len(M) PROVE Sourced(M[i])
  <2>1. CASE i \in 1..Len(C)
    BY <1>2, <1>3, <1>4, <2>1 DEF Merged, AllSourced, Range
  <2>2. CASE i \notin 1..Len(C)
    <3>1. i \in (Len(C) + 1)..Len(M)
      BY <1>4, <2>2
    <3>2. M[i] \in Range(D)
      BY <1>2, <3>1 DEF Merged
    <3> QED BY <3>2 DEF AllSourced
  <2> QED BY <2>1, <2>2
<1>6. ASSUME NEW i \in 1..Len(M)
      PROVE  /\ Like(N[i], M[i]) /\ Identified(N[i]) = Identified(M[i]) /\ Sourced(N[i])
             /\ \A p : SameDevice(M[i], p) <=> SameDevice(N[i], p)
  <2>1. Like(N[i], M[i]) /\ N[i].product = Identified(M[i])
    BY <1>2 DEF PreparedFrom, Like
  <2>2. Identified(N[i]) = Identified(M[i])
    BY <2>1, IdentifiedOnce
  <2>3. Sourced(N[i])
    BY <1>5, <2>1, <2>2 DEF Sourced, Like
  <2> QED BY <2>1, <2>2, <2>3 DEF Like, SameDevice
<1>7. AllSourced(M) /\ AllSourced(N)
  BY <1>4, <1>5, <1>6 DEF AllSourced, Range
<1>8. ASSUME NEW p \in Unambiguous
      PROVE  /\ Found(D, p) => Found(M, p)
             /\ Found(M, p) => Found(N, p)
             /\ \A i, j \in 1..Len(M) : SameDevice(M[i], p) /\ SameDevice(M[j], p) => i = j
  <2>1. ASSUME Found(D, p) PROVE Found(M, p)
    <3>1. PICK j \in 1..Len(D) : SameDevice(D[j], p)
      BY <1>1, <2>1 DEF Found
    <3>2. PICK i \in 1..Len(M) : SameDevice(M[i], D[j])
      BY <1>2, <1>4 DEF Merged, Found
    <3>3. SameDevice(D[j], M[i])
      <4>1. M[i] \in Wide /\ D[j] \in Wide
        BY <1>1, <1>2
      <4> QED BY <3>2, <4>1, SameOK
    <3>4. Sourced(D[j])
      BY <1>1 DEF AllSourced, Range
    <3>5. SameDevice(M[i], p)
      BY <1>5, <3>1, <3>3, <3>4, SourcedSame
    <3> QED BY <1>4, <3>5 DEF Found
  <2>2. Found(M, p) => Found(N, p)
    BY <1>4, <1>6 DEF Found
  <2>3. ASSUME NEW i \in 1..Len(M), NEW j \in 1..Len(M), i < j,
               SameDevice(M[i], p), SameDevice(M[j], p)
        PROVE  FALSE
    <3>1. SameDevice(M[i], M[j])
      BY <1>5, <2>3, SourcedSame
    <3>2. j \in 1..Len(C)
      <4>1. j \notin 1..Len(C) => j \in (Len(C) + 1)..Len(M) /\ i \in 1..(j - 1)
        BY <1>4, <2>3
      <4> QED BY <1>2, <3>1, <4>1 DEF Merged
    <3>3. i \in 1..Len(C) /\ i # j
      BY <1>4, <2>3, <3>2
    <3>4. M[i] = C[i] /\ M[j] = C[j]
      BY <1>2, <3>2, <3>3 DEF Merged
    <3>5. SameDevice(C[i], p) /\ SameDevice(C[j], p) /\ i \in DOMAIN C /\ j \in DOMAIN C
      BY <1>4, <2>3, <3>2, <3>3, <3>4
    <3> QED BY <3>3, <3>5 DEF Unambiguous, C
  <2>4. \A i, j \in 1..Len(M) : SameDevice(M[i], p) /\ SameDevice(M[j], p) => i = j
    <3> TAKE i, j \in 1..Len(M)
    <3>1. i < j \/ j < i \/ i = j
      BY <1>4
    <3> QED BY <2>3, <3>1
  <2> QED BY <2>1, <2>2, <2>4
<1> QED BY <1>7, <1>8 DEF M, N

(* Nothing is saved when the discovery begins, and a running bridge has      *)
(* every device that is saved.                                               *)
OriginInv ==
  /\ AllSourced(disk) /\ AllSourced(devices)
  /\ phase = "discovering" => disk = <<>>
  /\ phase = "running" => \A p \in Unambiguous : Found(disk, p) => Found(devices, p)

Keeps == \A p \in Unambiguous : Found(disk, p) => Found(disk', p)

Exposes ==
  phase # "running" /\ phase' = "running"
  => \A p \in Unambiguous :
       /\ \A d \in Configured : SameDevice(d, p) => d.product # "other"
       /\ Found(disk, p)
       => \E d \in exposed' : SameDevice(d, p)

LEMMA FoundRange ==
  \A list, p : Found(list, p) <=> \E d \in Range(list) : SameDevice(d, p)
BY DEF Found, Range

LEMMA SaveAndExposeGives ==
  ASSUME DevicesOK, NEW c \in Loadable, NEW list \in Seq(Entry), NEW changed \in BOOLEAN,
         SaveAndExpose(c, list, changed)
  PROVE  \/ phase' = "stopped" /\ devices' = <<>> /\ disk' = disk
         \/ /\ phase' = "running" /\ Range(devices') = Range(list) /\ exposed' = Shown(list)
            /\ disk' = list \/ (~changed /\ disk' = disk)
<1>1. CASE Stopped /\ Save(list, FALSE) /\ UNCHANGED identity
  BY <1>1 DEF Stopped, Save
<1>2. CASE /\ \E sorted \in Sorted(list) : Expose(sorted)
           /\ IF changed THEN Save(list, TRUE) ELSE UNCHANGED disk
  <2>1. phase' = "running" /\ exposed' = Shown(list) /\ Range(devices') = Range(list)
    BY <1>2, ExposeOK DEF DevicesOK
  <2> QED BY <1>2, <2>1 DEF Save
<1> QED BY <1>1, <1>2 DEF SaveAndExpose

LEMMA OriginStart ==
  ASSUME DevicesOK, OriginInv, NEW c \in Loadable, StartWith(c), phase = "stopped"
  PROVE  OriginInv' /\ Keeps /\ Exposes
<1> DEFINE M == MergeDevices(c.devices, disk)
           N == PrepareDevices(M).list
           changed == PrepareDevices(M).changed
<1>1. disk \in Seq(Entry) /\ AllSourced(disk) /\ AllSourced(devices) /\ disk \in Seq(Wide)
  BY EntryOK DEF DevicesOK, OriginInv
<1>2. /\ AllSourced(M) /\ AllSourced(N)
      /\ \A p \in Unambiguous : Found(disk, p) => Found(N, p)
  BY <1>1, RestoredSourced
<1>3. /\ N \in Seq(Entry) /\ M \in Seq(Wide) /\ PreparedFrom(M, N)
      /\ Merged(c.devices, disk, M, Len(disk))
  BY <1>1, StartSettles, RestoredOK
<1>4. changed \in BOOLEAN
  BY DEF PrepareDevices
<1> HIDE DEF M, N, changed
<1>5. CASE N = <<>> /\ phase' = "discovering" /\ UNCHANGED <<disk, devices>>
  <2>1. Len(M) = 0
    BY <1>3, <1>5 DEF PreparedFrom
  <2>2. \A j \in 1..Len(disk) : FALSE
    BY <1>3, <2>1 DEF Merged, Found
  <2>3. disk = <<>>
    <3>1. Len(disk) \in Nat /\ (Len(disk) # 0 => 1 \in 1..Len(disk))
      BY <1>1
    <3> QED BY <1>1, <2>2, <3>1
  <2> QED BY <1>1, <1>5, <2>3 DEF OriginInv, Keeps, Exposes
<1>6. CASE SaveAndExpose(c, N, changed)
  <2>1. CASE phase' = "stopped" /\ devices' = <<>> /\ disk' = disk
    BY <1>1, <2>1 DEF OriginInv, Keeps, Exposes, AllSourced, Range
  <2>2. CASE /\ phase' = "running" /\ Range(devices') = Range(N) /\ exposed' = Shown(N)
             /\ disk' = N \/ disk' = disk
    <3>1. AllSourced(devices') /\ AllSourced(disk')
      BY <1>1, <1>2, <2>2 DEF AllSourced
    <3>2. \A p : Found(N, p) => Found(devices', p)
      BY <2>2, FoundRange
    <3>3. OriginInv' /\ Keeps
      BY <1>2, <2>2, <3>1, <3>2 DEF OriginInv, Keeps
    <3>4. ASSUME NEW p \in Unambiguous, Found(disk, p),
                 \A d \in Configured : SameDevice(d, p) => d.product # "other"
          PROVE  \E d \in exposed' : SameDevice(d, p)
      <4>1. PICK d \in Range(N) : SameDevice(d, p)
        BY <1>2, <3>4, FoundRange
      <4>2. Sourced(d) /\ d \in Entry
        BY <1>2, <1>3, <4>1 DEF AllSourced, Range
      <4>3. Identified(d) = "supported"
        <5>1. CASE \E e \in Configured : Like(d, e) /\ Identified(d) = Identified(e)
          <6>1. PICK e \in Configured : Like(d, e) /\ Identified(d) = Identified(e)
            BY <5>1
          <6>2. SameDevice(e, p)
            BY <4>1, <6>1 DEF Like, SameDevice
          <6>3. e.product \in {None, "supported"}
            BY <3>4, <6>2, RegistryAssumption
          <6> QED BY <6>1, <6>3 DEF Identified
        <5>2. CASE \E q \in Physical : Like(d, q) /\ Identified(d) = "supported"
          BY <5>2
        <5> QED BY <4>2, <5>1, <5>2 DEF Sourced
      <4>4. d \in Shown(N)
        BY <4>1, <4>2, <4>3, EntryOK DEF Shown, Supported, Identified
      <4> QED BY <2>2, <4>1, <4>4
    <3> QED BY <3>3, <3>4 DEF Exposes
  <2> QED BY <1>3, <1>4, <1>6, <2>1, <2>2, SaveAndExposeGives
<1> QED BY <1>5, <1>6 DEF StartWith, M, N, changed

(* The end of a discovery.                                                   *)
LEMMA OriginFound ==
  ASSUME DevicesOK, OriginInv, phase = "discovering", NEW list \in Seq(Entry),
         AllSourced(list), SaveAndExpose(config, list, TRUE)
  PROVE  OriginInv' /\ Keeps /\ Exposes
<1>1. config \in Loadable /\ disk = <<>>
  BY DEF DevicesOK, OriginInv
<1>2. \A p : ~Found(disk, p)
  BY <1>1 DEF Found
<1>3. AllSourced(<<>>)
  BY DEF AllSourced, Range
<1>4. \A p : Found(list, p) <=> \E d \in Range(list) : SameDevice(d, p)
  BY FoundRange
<1>5. CASE phase' = "stopped" /\ devices' = <<>> /\ disk' = disk
  BY <1>1, <1>2, <1>3, <1>5 DEF OriginInv, Keeps, Exposes
<1>6. CASE phase' = "running" /\ Range(devices') = Range(list) /\ disk' = list
  <2>1. AllSourced(devices') /\ AllSourced(disk')
    BY <1>6 DEF AllSourced
  <2>2. \A p : Found(disk', p) => Found(devices', p)
    BY <1>6, FoundRange
  <2> QED BY <1>2, <1>6, <2>1, <2>2 DEF OriginInv, Keeps, Exposes
<1> QED BY <1>1, <1>5, <1>6, SaveAndExposeGives

(* A device is appended.                                                     *)
LEMMA OriginAppended ==
  ASSUME NEW list \in Seq(Entry), AllSourced(list), OneAIDEach(list), NEW q \in Physical,
         Len(list) + 2 <= MaxAID
  PROVE  LET new == AppendDevice(list, q)
         IN AllSourced(new) /\ \A p : Found(list, p) => Found(new, p)
<1> DEFINE new == AppendDevice(list, q)
           n == Len(list)
<1>1. /\ new \in Seq(Entry) /\ Len(new) = n + 1
      /\ \A i \in 1..n : new[i] = list[i]
      /\ new[n + 1].mac = q.mac /\ new[n + 1].did = q.did
      /\ new[n + 1].product = "supported"
  BY AppendDeviceOK
<1> HIDE DEF new
<1>2. DOMAIN new = 1..(n + 1) /\ DOMAIN list = 1..n
  BY <1>1
<1>3. Sourced(new[n + 1])
  BY <1>1, RegistryAssumption DEF Sourced, Like, Identified
<1>4. \A i \in 1..(n + 1) : i \in 1..n \/ i = n + 1
  OBVIOUS
<1>5. AllSourced(new)
  BY <1>1, <1>2, <1>3, <1>4 DEF AllSourced, Range
<1>6. 1..n \subseteq 1..(n + 1)
  OBVIOUS
<1>7. \A p : Found(list, p) => Found(new, p)
  BY <1>1, <1>2, <1>6 DEF Found
<1> QED BY <1>5, <1>7 DEF new

LEMMA OriginDiscover ==
  ASSUME DevicesOK, OriginInv, NEW q \in Physical, Discover(q)
  PROVE  OriginInv' /\ Keeps /\ Exposes
<1> DEFINE list == IF Found(devices, q) THEN devices ELSE AppendDevice(devices, q)
<1>1. /\ phase = "discovering" /\ devices \in Seq(Entry) /\ AllSourced(devices)
      /\ OneAIDEach(devices) /\ Apart(devices)
  BY DEF Discover, DevicesOK, OriginInv
<1>2. Len(devices) + 2 <= MaxAID
  BY <1>1, ApartFew, EntryOK
<1>3. list \in Seq(Entry) /\ AllSourced(list)
  <2>1. AppendDevice(devices, q) \in Seq(Entry) /\ AllSourced(AppendDevice(devices, q))
    BY <1>1, <1>2, AppendDeviceOK, OriginAppended
  <2> QED BY <1>1, <2>1
<1> HIDE DEF list
<1>4. CASE SaveAndExpose(config, list, TRUE)
  BY <1>1, <1>3, <1>4, OriginFound
<1>5. CASE devices' = list /\ UNCHANGED <<disk, phase>>
  BY <1>1, <1>3, <1>5 DEF OriginInv, Keeps, Exposes
<1> QED BY <1>4, <1>5 DEF Discover, list

LEMMA OriginEnroll ==
  ASSUME DevicesOK, OriginInv, NEW q \in Physical, Enroll(q)
  PROVE  OriginInv' /\ Keeps /\ Exposes
<1> DEFINE new == AppendDevice(devices, q)
<1>1. /\ phase = "running" /\ phase' = phase /\ devices \in Seq(Entry)
      /\ AllSourced(devices) /\ AllSourced(disk) /\ OneAIDEach(devices)
      /\ \A p \in Unambiguous : Found(disk, p) => Found(devices, p)
  BY DEF Enroll, DevicesOK, OriginInv, Settled
<1>2. CASE UNCHANGED <<devices, disk>>
  BY <1>1, <1>2 DEF OriginInv, Keeps, Exposes
<1>3. CASE devices' = new /\ \E ok \in BOOLEAN : Save(devices', ok)
  <2>1. AllSourced(new) /\ \A p : Found(devices, p) => Found(new, p)
    BY <1>1, EnrollFew, OriginAppended
  <2> HIDE DEF new
  <2>2. disk' = new \/ disk' = disk
    BY <1>3 DEF Save
  <2> QED BY <1>1, <1>3, <2>1, <2>2 DEF OriginInv, Keeps, Exposes
<1> QED BY <1>2, <1>3 DEF Enroll

LEMMA OriginNext ==
  ASSUME DevicesOK, OriginInv, [Next]_vars
  PROVE  OriginInv' /\ Keeps /\ Exposes
<1>1. CASE Start
  BY <1>1, OriginStart DEF Start
<1>2. CASE StartFails
  BY <1>2 DEF StartFails, OriginInv, Keeps, Exposes
<1>3. ASSUME NEW p \in Physical, Discover(p) PROVE OriginInv' /\ Keeps /\ Exposes
  BY <1>3, OriginDiscover
<1>4. ASSUME NEW p \in Physical, Enroll(p) PROVE OriginInv' /\ Keeps /\ Exposes
  BY <1>4, OriginEnroll
<1>5. CASE WindowEnds
  <2>1. /\ phase = "discovering" /\ SaveAndExpose(config, devices, TRUE)
        /\ devices \in Seq(Entry) /\ AllSourced(devices)
    BY <1>5 DEF WindowEnds, DevicesOK, OriginInv
  <2> QED BY <2>1, OriginFound
<1>6. CASE Stop
  <2>1. phase' = "stopped" /\ devices' = <<>> /\ AllSourced(<<>>)
    BY <1>6 DEF Stop, Stopped, AllSourced, Range
  <2>2. disk' = disk \/ (disk = <<>> /\ disk' = devices)
    BY <1>6 DEF Stop, Save, OriginInv
  <2>3. \A p : ~Found(<<>>, p)
    BY DEF Found
  <2> QED BY <2>1, <2>2, <2>3 DEF OriginInv, Keeps, Exposes
<1>7. CASE Edit
  BY <1>7 DEF Edit, OriginInv, Keeps, Exposes
<1>8. CASE UNCHANGED vars
  BY <1>8 DEF vars, OriginInv, Keeps, Exposes
<1> QED BY <1>1, <1>2, <1>3, <1>4, <1>5, <1>6, <1>7, <1>8 DEF Next

LEMMA OriginSpec == Spec => [](DevicesOK /\ OriginInv)
<1>1. Init => OriginInv
  BY DEF Init, OriginInv, AllSourced, Range
<1>2. DevicesOK /\ OriginInv /\ [Next]_vars => OriginInv'
  BY OriginNext
<1>3. Spec => []DevicesOK
  <2>1. DeviceInv => DevicesOK
    BY Parts
  <2> QED BY <2>1, DevicesSettled, PTL
<1> QED BY <1>1, <1>2, <1>3, PTL DEF Spec

(* RegistryKeeps: no device that is saved leaves the registry.               *)
THEOREM RegistryGrows == Spec => RegistryKeeps
<1>1. DevicesOK /\ OriginInv /\ [Next]_vars
        => [\A p \in Unambiguous : Found(disk, p) => Found(disk', p)]_vars
  BY OriginNext DEF Keeps
<1> QED BY <1>1, OriginSpec, PTL DEF Spec, RegistryKeeps

(* EnrolledIsExposed: whatever is saved is exposed by the next start.        *)
THEOREM SavedIsExposed == Spec => EnrolledIsExposed
<1>1. DevicesOK /\ OriginInv /\ [Next]_vars => [Exposes]_vars
  BY OriginNext
<1>2. Spec => [][Exposes]_vars
  BY <1>1, OriginSpec, PTL DEF Spec
<1> QED BY <1>2 DEF EnrolledIsExposed, Exposes

(* OneAccessoryEach: no device has two accessories.                          *)
THEOREM OneAccessoryPerDevice == Spec => []OneAccessoryEach
<1>1. DevicesOK /\ OriginInv => OneAccessoryEach
  <2> SUFFICES ASSUME DevicesOK, OriginInv, NEW p \in Unambiguous
               PROVE  Cardinality({d \in exposed : SameDevice(d, p)}) <= 1
    BY DEF OneAccessoryEach
  <2>1. ASSUME NEW d \in exposed, NEW e \in exposed, SameDevice(d, p), SameDevice(e, p)
        PROVE  d = e
    <3>1. phase = "running" /\ config \in Loadable
      BY DEF DevicesOK
    <3> DEFINE C == config.devices
               O == PrepareDevices(C).list
    <3>2. /\ exposed \subseteq Range(devices) /\ exposed \subseteq Wide
          /\ \A x \in exposed \ Range(O) : \A y \in Range(devices) : SameDevice(x, y) => x = y
      BY <3>1, EntryOK DEF DevicesOK, Settled
    <3>3. Sourced(d) /\ Sourced(e)
      BY <3>2 DEF OriginInv, AllSourced
    <3>4. SameDevice(d, e) /\ SameDevice(e, d)
      BY <2>1, <3>3, SourcedSame
    <3>5. CASE d \in Range(O) /\ e \in Range(O)
      <4>1. C \in Seq(Wide) /\ PreparedFrom(C, O)
        BY <3>1, ConfiguredOK, ConfiguredFew, PrepareOK, Plenty
      <4> HIDE DEF O
      <4>2. PICK i \in 1..Len(C), j \in 1..Len(C) : d = O[i] /\ e = O[j]
        BY <3>5, <4>1 DEF PreparedFrom, Range
      <4>3. SameDevice(C[i], p) /\ SameDevice(C[j], p)
        BY <2>1, <4>1, <4>2 DEF PreparedFrom, SameDevice
      <4>4. i = j
        BY <3>1, <4>1, <4>3 DEF Unambiguous
      <4> QED BY <4>2, <4>4
    <3> QED BY <3>2, <3>4, <3>5
  <2> DEFINE S == {d \in exposed : SameDevice(d, p)}
  <2>2. S = {} \/ \E d : S = {d}
    BY <2>1
  <2> HIDE DEF S
  <2>3. Cardinality(S) = 0 \/ Cardinality(S) = 1
    BY <2>2, FS_EmptySet, FS_Singleton
  <2> QED BY <2>3 DEF S
<1> QED BY <1>1, OriginSpec, PTL

-----------------------------------------------------------------------------
(* Devices that nothing competes with *)

Own(p) == DefaultAID[p.mac]

LEMMA UndisputedOK ==
  ASSUME NEW p \in Undisputed
  PROVE  /\ p \in Unambiguous /\ p \in Physical /\ p.mac \in Macs /\ p.mac # None
         /\ Own(p) \in 2..(MaxAID + 2)
         /\ \A d : Sourced(d) /\ SameDevice(d, p) => d.mac = p.mac
<1>1. p \in Unambiguous /\ p \in Physical
  BY DEF Undisputed, Unambiguous
<1>2. p.mac \in Macs /\ p.mac # None
  BY <1>1, RegistryAssumption DEF Macs
<1>3. Own(p) \in 2..(MaxAID + 2)
  BY <1>2, RegistryAssumption DEF Own
<1>4. ASSUME NEW d, Sourced(d), SameDevice(d, p) PROVE d.mac = p.mac
  <2>1. PICK e \in Physical \cup Configured : Like(d, e)
    BY <1>4 DEF Sourced
  <2>2. SameDevice(e, p)
    BY <1>4, <2>1 DEF Like, SameDevice
  <2>3. e.mac = p.mac
    BY <2>2 DEF Undisputed
  <2> QED BY <2>1, <2>3 DEF Like
<1> QED BY <1>1, <1>2, <1>3, <1>4

LEMMA LedToOK ==
  ASSUME NEW a \in Nat, a >= 2, NEW k \in 0..MostDevices
  PROVE  After(a, k) \in LedTo(a)
<1>1. MostDevices \in Nat /\ MostDevices + 2 <= MaxAID
  BY Plenty DEF MostDevices, Reported
<1>2. Probe(a, MostDevices) = [j \in 0..MostDevices |-> After(a, j)]
  BY <1>1, ProbeOK
<1>3. LedTo(a) = Range(Probe(a, MostDevices))
  BY DEF LedTo, Probe
<1> QED BY <1>2, <1>3 DEF Range

(* No other device is led to its AID, and no configuration sets it.          *)
LEMMA OthersOK ==
  ASSUME NEW p \in Undisputed
  PROVE  /\ \A d \in Configured : d.aid # Own(p) /\ (SameDevice(d, p) => d.aid = 0)
         /\ \A d \in Wide : \A used : /\ ~SameDevice(d, p) /\ IsFiniteSet(used)
                                     /\ Cardinality(used) <= MostDevices
                                     => FreeAID(d, used) # Own(p)
<1> DEFINE contenders == {DefaultAID[a] : a \in DOMAIN DefaultAID \ {p.mac, p.did}}
                           \cup ({d.aid : d \in Configured} \ {0})
<1>1. /\ p \in Physical /\ p.mac \in Macs /\ p.mac # None /\ Own(p) \in 2..(MaxAID + 2)
      /\ MostDevices \in Nat /\ MostDevices + 2 <= MaxAID
  BY UndisputedOK, Plenty DEF MostDevices, Reported
<1>2. \A a \in contenders : Own(p) \notin LedTo(a)
  BY DEF Undisputed, Own
<1>3. ASSUME NEW d \in Configured PROVE d.aid # Own(p) /\ (SameDevice(d, p) => d.aid = 0)
  <2>1. SameDevice(d, p) => d.aid = 0
    BY DEF Undisputed
  <2>2. d.aid \in Nat \ {1}
    BY RegistryAssumption
  <2>3. ASSUME d.aid = Own(p) PROVE FALSE
    <3>1. d.aid \in Nat /\ d.aid >= 2 /\ d.aid \in contenders /\ 0 \in 0..MostDevices
      BY <1>1, <2>2, <2>3
    <3>2. After(d.aid, 0) \in LedTo(d.aid)
      BY <3>1, LedToOK
    <3>3. After(d.aid, 0) = Own(p)
      BY <2>3 DEF After
    <3> QED BY <1>2, <3>1, <3>2, <3>3
  <2> QED BY <2>1, <2>3
<1>4. ASSUME NEW d \in Wide, NEW used, ~SameDevice(d, p), IsFiniteSet(used),
             Cardinality(used) <= MostDevices
      PROVE  FreeAID(d, used) # Own(p)
  <2> DEFINE a == DefaultAID[Address(d)]
  <2>1. Address(d) \in DOMAIN DefaultAID /\ a \in Nat /\ a >= 2
    BY SameOK
  <2>2. Address(d) # p.mac /\ Address(d) # p.did
    <3>1. Macs \cap Dids = {} /\ p.did \in Dids \cup {None}
      BY <1>1, RegistryAssumption DEF Dids
    <3>2. d.mac \in Macs \cup {None} /\ d.did \in Dids \cup {None} /\ Address(d) # None
      BY DEF Wide
    <3> QED BY <1>1, <1>4, <3>1, <3>2 DEF Address, SameDevice, Macs, Dids
  <2>3. a \in contenders
    BY <2>1, <2>2
  <2> HIDE DEF a
  <2>4. Cardinality(used) \in Nat /\ Cardinality(used) + 2 <= MaxAID
    BY <1>1, <1>4, FS_CardinalityType, RegistryAssumption
  <2>5. PICK k \in 0..Cardinality(used) : FreeAID(d, used) = After(a, k)
    BY <1>4, <2>4, FreeOK DEF a
  <2>6. k \in 0..MostDevices
    BY <1>1, <1>4, <2>4
  <2>7. FreeAID(d, used) \in LedTo(a)
    BY <2>1, <2>5, <2>6, LedToOK
  <2> QED BY <1>2, <2>3, <2>7
<1> QED BY <1>3, <1>4

(* Its first entry has its AID, and no entry of another device has.          *)
Before(list, i, p) == \E j \in 1..(i - 1) : SameDevice(list[j], p)

Owned(list, p) ==
  \A i \in 1..Len(list) :
    IF SameDevice(list[i], p) THEN Before(list, i, p) \/ list[i].aid = Own(p)
    ELSE list[i].aid # Own(p)

(* So it will be when the list is prepared.                                  *)
Ownable(list, p) ==
  \A i \in 1..Len(list) :
    IF SameDevice(list[i], p)
    THEN Before(list, i, p) \/ (list[i].mac = p.mac /\ list[i].aid \in {0, Own(p)})
    ELSE list[i].aid # Own(p)

LEMMA PreparedOwned ==
  ASSUME NEW p \in Undisputed, NEW list \in Seq(Wide), Len(list) <= MostDevices,
         Ownable(list, p)
  PROVE  Owned(PrepareDevices(list).list, p)
<1> DEFINE f == PrepareDevices(list).list
           n == Len(list)
<1>1. IsPreparing(f, list, n)
  BY PrepareLoop
<1>2. /\ n \in Nat /\ MostDevices \in Nat /\ MostDevices + 2 <= MaxAID /\ MaxAID \in Nat
      /\ Own(p) \in 2..(MaxAID + 2) /\ p.mac # None
  BY Plenty, UndisputedOK DEF MostDevices, Reported
<1>3. PreparedFrom(list, f)
  <2>1. n + 1 <= MaxAID
    BY <1>2
  <2> QED BY <2>1, PrepareOK
<1> HIDE DEF f
<1>4. ASSUME NEW i \in 1..n
      PROVE  /\ list[i] \in Wide /\ IsFiniteSet(Used(f, i))
             /\ Cardinality(Used(f, i)) <= MostDevices
             /\ f[i].aid = IF list[i].aid >= 2 /\ list[i].aid \notin Used(f, i) THEN list[i].aid
                           ELSE FreeAID(list[i], Used(f, i))
             /\ Cardinality(Used(f, i)) + 2 <= MaxAID
             /\ \A q : SameDevice(f[i], q) <=> SameDevice(list[i], q)
  <2>1. IsFiniteSet(Used(f, i)) /\ Cardinality(Used(f, i)) <= i - 1
    BY UsedOK
  <2>2. Cardinality(Used(f, i)) <= MostDevices /\ Cardinality(Used(f, i)) + 2 <= MaxAID
    BY <1>2, <2>1, FS_CardinalityType
  <2>3. f[i] = Prepared(list[i], Used(f, i)) /\ list[i] \in Wide
    BY <1>1, PreparingAt
  <2>4. f[i].aid = IF list[i].aid >= 2 /\ list[i].aid \notin Used(f, i) THEN list[i].aid
                   ELSE FreeAID(list[i], Used(f, i))
    BY <2>1, <2>2, <2>3, PreparedOK
  <2>5. f[i].mac = list[i].mac /\ f[i].did = list[i].did
    BY <1>3 DEF PreparedFrom
  <2> QED BY <2>1, <2>2, <2>3, <2>4, <2>5 DEF SameDevice
<1>5. ASSUME NEW i \in 1..n, ~SameDevice(list[i], p)
      PROVE  f[i].aid # Own(p)
  <2>1. list[i].aid # Own(p)
    BY <1>5 DEF Ownable
  <2>2. FreeAID(list[i], Used(f, i)) # Own(p)
    BY <1>4, <1>5, OthersOK
  <2> QED BY <1>4, <2>1, <2>2
<1>6. ASSUME NEW i \in 1..n, SameDevice(list[i], p), ~Before(list, i, p)
      PROVE  f[i].aid = Own(p)
  <2>1. list[i].mac = p.mac /\ list[i].aid \in {0, Own(p)}
    BY <1>6 DEF Ownable
  <2>2. DefaultAID[Address(list[i])] = Own(p)
    BY <1>2, <2>1 DEF Address, Own
  <2>3. Own(p) \notin Used(f, i)
    <3>1. ASSUME NEW j \in 1..(i - 1) PROVE f[j].aid # Own(p)
      <4>1. j \in 1..n
        BY <1>2
      <4>2. ~SameDevice(list[j], p)
        BY <1>6 DEF Before
      <4> QED BY <1>5, <4>1, <4>2
    <3> QED BY <3>1 DEF Used
  <2>4. FreeAID(list[i], Used(f, i)) = Own(p)
    BY <1>4, <2>2, <2>3, FreeOK
  <2>5. Own(p) >= 2 /\ ~(0 >= 2)
    BY <1>2
  <2> QED BY <1>4, <2>1, <2>3, <2>4, <2>5
<1>7. \A i \in 1..n : Before(f, i, p) <=> Before(list, i, p)
  <2> TAKE i \in 1..n
  <2>1. \A j \in 1..(i - 1) : j \in 1..n
    BY <1>2
  <2> QED BY <1>4, <2>1 DEF Before
<1>8. \A i \in 1..n : IF SameDevice(f[i], p) THEN Before(f, i, p) \/ f[i].aid = Own(p)
                      ELSE f[i].aid # Own(p)
  BY <1>4, <1>5, <1>6, <1>7
<1>9. Len(f) = n
  BY <1>3 DEF PreparedFrom
<1> QED BY <1>8, <1>9 DEF Owned, f

LEMMA MergedOwnable ==
  ASSUME NEW p \in Undisputed, NEW c \in Loadable, NEW D \in Seq(Entry), AllSourced(D),
         Owned(D, p)
  PROVE  Ownable(MergeDevices(c.devices, D), p)
<1> DEFINE C == c.devices
           M == MergeDevices(C, D)
<1>1. D \in Seq(Wide) /\ DOMAIN D = 1..Len(D) /\ Len(D) \in Nat
  BY EntryOK
<1>2. /\ M \in Seq(Wide) /\ Merged(C, D, M, Len(D)) /\ C \in Seq(Wide) /\ AllSourced(M)
      /\ Range(C) \subseteq Configured
  BY <1>1, RestoredOK, ConfiguredOK, RestoredSourced DEF Configured
<1> HIDE DEF C, M
<1>3. /\ Len(M) \in Nat /\ Len(C) \in Nat /\ DOMAIN M = 1..Len(M) /\ DOMAIN C = 1..Len(C)
      /\ p \in Unambiguous
  BY <1>2, UndisputedOK
<1>4. \A i \in 1..Len(M) : Sourced(M[i])
  BY <1>2, <1>3 DEF AllSourced, Range
<1>5. ASSUME NEW i \in 1..Len(M)
      PROVE  IF SameDevice(M[i], p)
             THEN Before(M, i, p) \/ (M[i].mac = p.mac /\ M[i].aid \in {0, Own(p)})
             ELSE M[i].aid # Own(p)
  <2>1. SameDevice(M[i], p) => M[i].mac = p.mac
    BY <1>4, UndisputedOK
  <2>2. CASE i \in 1..Len(C)
    <3>1. M[i] \in Configured
      BY <1>2, <1>3, <2>2 DEF Merged, Range
    <3> QED BY <2>1, <3>1, OthersOK
  <2>3. CASE i \notin 1..Len(C)
    <3>1. i \in (Len(C) + 1)..Len(M)
      BY <1>3, <2>3
    <3>2. PICK j \in 1..Len(D) : Comes(M, i, D, j)
      BY <1>2, <3>1 DEF Merged
    <3>3. M[i] = D[j] /\ \A l \in 1..(j - 1) : FoundBefore(M, i, D[l])
      BY <3>2 DEF Comes
    <3>4. CASE SameDevice(M[i], p)
      <4>1. Before(D, j, p) \/ D[j].aid = Own(p)
        BY <3>3, <3>4 DEF Owned
      <4>2. ASSUME Before(D, j, p) PROVE Before(M, i, p)
        <5>1. PICK l \in 1..(j - 1) : SameDevice(D[l], p)
          BY <4>2 DEF Before
        <5>2. PICK k \in 1..(i - 1) : SameDevice(M[k], D[l])
          BY <3>3 DEF FoundBefore
        <5>3. l \in 1..Len(D) /\ k \in 1..Len(M)
          BY <1>1, <1>3
        <5>4. D[l] \in Wide /\ M[k] \in Wide /\ Sourced(D[l]) /\ Sourced(M[k])
          BY <1>1, <1>2, <1>4, <5>3 DEF AllSourced, Range
        <5>5. SameDevice(M[k], p)
          BY <1>3, <5>1, <5>2, <5>4, SameOK, SourcedSame
        <5> QED BY <5>5 DEF Before
      <4> QED BY <2>1, <3>3, <3>4, <4>1, <4>2
    <3>5. CASE ~SameDevice(M[i], p)
      BY <3>3, <3>5 DEF Owned
    <3> QED BY <3>4, <3>5
  <2> QED BY <2>2, <2>3
<1>6. Ownable(M, p)
  BY <1>5 DEF Ownable
<1> QED BY <1>6 DEF M, C

LEMMA AppendedOwned ==
  ASSUME NEW p \in Undisputed, NEW list \in Seq(Entry), AllSourced(list), Owned(list, p),
         NEW q \in Physical, Len(list) + 1 <= MostDevices
  PROVE  Owned(AppendDevice(list, q), p)
<1> DEFINE A == Append(list, FromReport(q))
           n == Len(list)
<1>1. FromReport(q) \in Wide /\ list \in Seq(Wide)
  BY ReportOK, EntryOK
<1>2. /\ A \in Seq(Wide) /\ n \in Nat /\ Len(A) = n + 1 /\ A[n + 1] = FromReport(q)
      /\ \A i \in 1..n : A[i] = list[i]
  BY <1>1, AppendOK
<1> HIDE DEF A
<1>3. ASSUME NEW i \in 1..n
      PROVE  IF SameDevice(A[i], p)
             THEN Before(A, i, p) \/ (A[i].mac = p.mac /\ A[i].aid \in {0, Own(p)})
             ELSE A[i].aid # Own(p)
  <2>1. \A j \in 1..(i - 1) : A[j] = list[j]
    BY <1>2
  <2>2. Before(A, i, p) <=> Before(list, i, p)
    BY <2>1 DEF Before
  <2>3. Sourced(list[i])
    BY DEF AllSourced, Range
  <2>4. SameDevice(list[i], p) => list[i].mac = p.mac
    BY <2>3, UndisputedOK
  <2> QED BY <1>2, <2>2, <2>4 DEF Owned
<1>4. /\ SameDevice(A[n + 1], p) => A[n + 1].mac = p.mac
      /\ A[n + 1].aid = 0 /\ Own(p) # 0
  <2>1. A[n + 1].mac = q.mac /\ A[n + 1].did = q.did /\ A[n + 1].aid = 0
    BY <1>2 DEF FromReport
  <2>2. SameDevice(q, p) => q.mac = p.mac
    BY DEF Undisputed
  <2>3. SameDevice(A[n + 1], p) => SameDevice(q, p)
    BY <2>1 DEF SameDevice
  <2>4. Own(p) # 0
    BY UndisputedOK, RegistryAssumption
  <2> QED BY <2>1, <2>2, <2>3, <2>4
<1>5. \A i \in 1..Len(A) : i \in 1..n \/ i = n + 1
  BY <1>2
<1>6. Ownable(A, p)
  BY <1>3, <1>4, <1>5 DEF Ownable
<1>7. Owned(PrepareDevices(A).list, p)
  BY <1>2, <1>6, PreparedOwned
<1> QED BY <1>7 DEF AppendDevice, A

(* A list that is exposed has the device at most once.                       *)
OwnedOnce(list, p) == \A d \in Range(list) : SameDevice(d, p) <=> d.aid = Own(p)

LEMMA OwnedOnceOK ==
  ASSUME NEW p, NEW list \in Seq(Entry), Owned(list, p),
         \A i, j \in 1..Len(list) : SameDevice(list[i], p) /\ SameDevice(list[j], p) => i = j
  PROVE  OwnedOnce(list, p)
<1>1. Len(list) \in Nat /\ DOMAIN list = 1..Len(list)
  OBVIOUS
<1>2. ASSUME NEW i \in 1..Len(list) PROVE SameDevice(list[i], p) <=> list[i].aid = Own(p)
  <2>1. ASSUME SameDevice(list[i], p), NEW j \in 1..(i - 1) PROVE ~SameDevice(list[j], p)
    <3>1. j \in 1..Len(list) /\ j # i
      BY <1>1
    <3> QED BY <2>1, <3>1
  <2> QED BY <2>1 DEF Owned, Before
<1> QED BY <1>1, <1>2 DEF OwnedOnce, Range

LEMMA SortedOwned ==
  ASSUME NEW p, NEW list \in Seq(Entry), OwnedOnce(list, p), NEW s \in Seq(Entry),
         Range(s) = Range(list)
  PROVE  Owned(s, p)
<1>1. OwnedOnce(s, p)
  BY DEF OwnedOnce
<1> QED BY <1>1 DEF OwnedOnce, Owned, Range

LEMMA ApartOwnedOnce ==
  ASSUME NEW p \in Unambiguous, NEW list \in Seq(Entry), AllSourced(list), Apart(list),
         Owned(list, p)
  PROVE  OwnedOnce(list, p)
<1>1. \A i, j \in 1..Len(list) : SameDevice(list[i], p) /\ SameDevice(list[j], p) => i = j
  <2> TAKE i, j \in 1..Len(list)
  <2>1. Sourced(list[i]) /\ Sourced(list[j]) /\ i \in DOMAIN list /\ j \in DOMAIN list
    BY DEF AllSourced, Range
  <2> QED BY <2>1, SourcedSame DEF Apart
<1> QED BY <1>1, OwnedOnceOK

LEMMA ExposedOwned ==
  ASSUME NEW p \in Physical, NEW list \in Seq(Entry), OwnedOnce(list, p),
         NEW sorted \in Sorted(list), Expose(sorted)
  PROVE  identity'[p] \in {identity[p], Own(p)}
<1> DEFINE Matches(q) == {i \in DOMAIN sorted : Supported(sorted[i]) /\ SameDevice(sorted[i], q)}
           First(q) == CHOOSE i \in Matches(q) : \A j \in Matches(q) : i <= j
           Q == Matches(p)
<1>1. sorted \in Seq(Entry) /\ Range(sorted) = Range(list)
  BY SortedOK
<1>2. identity'[p] = IF Q = {} THEN identity[p] ELSE sorted[First(p)].aid
  BY DEF Expose
<1>3. CASE Q = {}
  BY <1>2, <1>3
<1>4. CASE Q # {}
  <2>1. Q \in SUBSET Nat
    BY <1>1
  <2>2. First(p) = CHOOSE i \in Q : \A j \in Q : i <= j
    OBVIOUS
  <2> HIDE DEF Q, First
  <2>3. \E i \in Q : \A j \in Q : i <= j
    BY <1>4, <2>1, Least
  <2>4. First(p) \in Q
    BY <2>2, <2>3
  <2>5. SameDevice(sorted[First(p)], p) /\ sorted[First(p)] \in Range(list)
    BY <1>1, <2>4 DEF Q, Range
  <2> QED BY <1>2, <1>4, <2>5 DEF OwnedOnce
<1> QED BY <1>3, <1>4

(* The device keeps its AID wherever it is.                                  *)
Stable(p) ==
  Owned(disk, p) /\ Owned(devices, p) /\ identity[p] \in {0, Own(p)}

StableStep(p) == Stable(p)' /\ identity'[p] \in {identity[p], Own(p)}

LEMMA EmptyOwned == \A p : Owned(<<>>, p)
BY DEF Owned

LEMMA StableSave ==
  ASSUME DevicesOK, NEW p \in Undisputed, Stable(p), NEW c \in Loadable,
         NEW list \in Seq(Entry), NEW changed \in BOOLEAN, OwnedOnce(list, p), Owned(list, p),
         SaveAndExpose(c, list, changed)
  PROVE  StableStep(p)
<1>1. CASE Stopped /\ Save(list, FALSE) /\ UNCHANGED identity
  BY <1>1, EmptyOwned DEF Stopped, Save, Stable, StableStep
<1>2. CASE /\ \E sorted \in Sorted(list) : Expose(sorted)
           /\ IF changed THEN Save(list, TRUE) ELSE UNCHANGED disk
  <2>1. PICK sorted \in Sorted(list) : Expose(sorted)
    BY <1>2
  <2>2. devices' = sorted /\ sorted \in Seq(Entry) /\ Range(sorted) = Range(list)
    BY <2>1, SortedOK DEF Expose
  <2>3. Owned(devices', p)
    BY <2>2, SortedOwned
  <2>4. identity'[p] \in {identity[p], Own(p)}
    BY <2>1, ExposedOwned, UndisputedOK
  <2>5. Owned(disk', p)
    BY <1>2 DEF Save, Stable
  <2> QED BY <2>3, <2>4, <2>5 DEF Stable, StableStep
<1> QED BY <1>1, <1>2 DEF SaveAndExpose

LEMMA StableStart ==
  ASSUME DevicesOK, OriginInv, NEW p \in Undisputed, Stable(p), NEW c \in Loadable,
         StartWith(c)
  PROVE  StableStep(p)
<1> DEFINE M == MergeDevices(c.devices, disk)
           N == PrepareDevices(M).list
           changed == PrepareDevices(M).changed
<1>1. disk \in Seq(Entry) /\ AllSourced(disk) /\ disk \in Seq(Wide) /\ Owned(disk, p)
  BY EntryOK DEF DevicesOK, OriginInv, Stable
<1>2. p \in Unambiguous
  BY UndisputedOK
<1>3. /\ M \in Seq(Wide) /\ PreparedFrom(M, N) /\ Len(M) <= MostDevices
      /\ \A i, j \in 1..Len(M) : SameDevice(M[i], p) /\ SameDevice(M[j], p) => i = j
  <2>1. Len(M) <= MostDevices
    <3>1. Len(M) <= Cardinality(DOMAIN DefaultAID) /\ M \in Seq(Wide)
      BY <1>1, RestoredOK
    <3> HIDE DEF M
    <3>2. Len(M) \in Nat
      BY <3>1
    <3> QED BY <3>1, <3>2, Plenty DEF MostDevices, Reported
  <2> QED BY <1>1, <1>2, <2>1, RestoredOK, RestoredSourced
<1>4. Ownable(M, p)
  BY <1>1, MergedOwnable
<1>5. changed \in BOOLEAN
  BY DEF PrepareDevices
<1> HIDE DEF M
<1>6. Owned(N, p)
  BY <1>3, <1>4, PreparedOwned
<1> HIDE DEF N, changed
<1>7. OwnedOnce(N, p)
  <2>1. N \in Seq(Entry) /\ Len(N) = Len(M)
    BY <1>3 DEF PreparedFrom
  <2>2. \A i \in 1..Len(N) : SameDevice(N[i], p) <=> SameDevice(M[i], p)
    BY <1>3, <2>1 DEF PreparedFrom, SameDevice
  <2>3. \A i, j \in 1..Len(N) : SameDevice(N[i], p) /\ SameDevice(N[j], p) => i = j
    BY <1>3, <2>1, <2>2
  <2> QED BY <1>6, <2>1, <2>3, OwnedOnceOK
<1>8. CASE UNCHANGED <<disk, devices, identity>>
  BY <1>8 DEF Stable, StableStep
<1>9. CASE SaveAndExpose(c, N, changed)
  <2>1. N \in Seq(Entry)
    BY <1>3 DEF PreparedFrom
  <2> QED BY <1>5, <1>6, <1>7, <1>9, <2>1, StableSave
<1> QED BY <1>8, <1>9 DEF StartWith, M, N, changed

LEMMA StableDiscover ==
  ASSUME DevicesOK, OriginInv, NEW p \in Undisputed, Stable(p),
         NEW q \in Physical, Discover(q)
  PROVE  StableStep(p)
<1> DEFINE list == IF Found(devices, q) THEN devices ELSE AppendDevice(devices, q)
<1>1. /\ phase = "discovering" /\ devices \in Seq(Entry) /\ AllSourced(devices)
      /\ OneAIDEach(devices) /\ Apart(devices) /\ config \in Loadable /\ Owned(devices, p)
  BY DEF Discover, DevicesOK, OriginInv, Stable
<1>2. Len(devices) + 2 <= MaxAID
  BY <1>1, ApartFew, EntryOK
<1>3. list \in Seq(Entry) /\ AllSourced(list) /\ Apart(list)
  <2>1. AppendDevice(devices, q) \in Seq(Entry) /\ AllSourced(AppendDevice(devices, q))
    BY <1>1, <1>2, AppendDeviceOK, OriginAppended
  <2>2. ~Found(devices, q) => Apart(AppendDevice(devices, q))
    BY <1>1, <1>2, DiscoveredApart
  <2> QED BY <1>1, <2>1, <2>2
<1>4. Owned(list, p)
  <2>1. CASE Found(devices, q)
    BY <1>1, <2>1
  <2>2. CASE ~Found(devices, q)
    <3>1. Len(devices) + 1 <= MostDevices
      <4>1. Len(list) = Len(devices) + 1
        BY <1>1, <1>2, <2>2, AppendDeviceOK
      <4> HIDE DEF list
      <4>2. Len(list) <= Cardinality(DOMAIN DefaultAID)
        BY <1>3, ApartFew, EntryOK
      <4> QED BY <1>1, <4>1, <4>2, Plenty DEF MostDevices, Reported
    <3> QED BY <1>1, <2>2, <3>1, AppendedOwned
  <2> QED BY <2>1, <2>2
<1> HIDE DEF list
<1>5. CASE SaveAndExpose(config, list, TRUE)
  <2>1. OwnedOnce(list, p)
    BY <1>3, <1>4, ApartOwnedOnce, UndisputedOK
  <2> QED BY <1>1, <1>3, <1>4, <1>5, <2>1, StableSave
<1>6. CASE devices' = list /\ UNCHANGED <<disk, identity>>
  BY <1>4, <1>6 DEF Stable, StableStep
<1> QED BY <1>5, <1>6 DEF Discover, list

LEMMA StableNext ==
  ASSUME DevicesOK, OriginInv, [Next]_vars, NEW p \in Undisputed, Stable(p)
  PROVE  StableStep(p)
<1>1. CASE Start
  BY <1>1, StableStart DEF Start
<1>2. CASE StartFails
  BY <1>2 DEF StartFails, Stable, StableStep
<1>3. ASSUME NEW q \in Physical, Discover(q) PROVE StableStep(p)
  BY <1>3, StableDiscover
<1>4. ASSUME NEW q \in Physical, Enroll(q) PROVE StableStep(p)
  <2> DEFINE new == AppendDevice(devices, q)
  <2>1. /\ devices \in Seq(Entry) /\ AllSourced(devices) /\ Owned(devices, p)
        /\ Owned(disk, p) /\ Len(devices) + 1 <= MostDevices
    BY <1>4, EnrollFew DEF DevicesOK, OriginInv, Stable
  <2>2. Owned(new, p)
    BY <2>1, AppendedOwned
  <2> HIDE DEF new
  <2>3. UNCHANGED identity /\ (UNCHANGED <<devices, disk>>
                               \/ (devices' = new /\ disk' \in {new, disk}))
    BY <1>4 DEF Enroll, Save, new
  <2> QED BY <2>1, <2>2, <2>3 DEF Stable, StableStep
<1>5. CASE WindowEnds
  <2>1. /\ phase = "discovering" /\ SaveAndExpose(config, devices, TRUE) /\ config \in Loadable
        /\ devices \in Seq(Entry) /\ AllSourced(devices) /\ Apart(devices) /\ Owned(devices, p)
    BY <1>5 DEF WindowEnds, DevicesOK, OriginInv, Stable
  <2>2. OwnedOnce(devices, p)
    BY <2>1, ApartOwnedOnce, UndisputedOK
  <2> QED BY <2>1, <2>2, StableSave
<1>6. CASE Stop
  BY <1>6, EmptyOwned DEF Stop, Stopped, Save, Stable, StableStep
<1>7. CASE Edit
  BY <1>7 DEF Edit, Stable, StableStep
<1>8. CASE UNCHANGED vars
  BY <1>8 DEF vars, Stable, StableStep
<1> QED BY <1>1, <1>2, <1>3, <1>4, <1>5, <1>6, <1>7, <1>8 DEF Next

AllStable == \A p \in Undisputed : Stable(p)

(* UndisputedAIDStable: a device that nothing competes with keeps its AID,   *)
(* whatever becomes of the others.                                           *)
THEOREM UndisputedKeepTheirAID == Spec => UndisputedAIDStable
<1>1. Init => AllStable
  <2> SUFFICES ASSUME Init, NEW p \in Undisputed PROVE Stable(p)
    BY DEF AllStable
  <2> QED BY EmptyOwned, UndisputedOK DEF Init, Stable
<1>2. DevicesOK /\ OriginInv /\ AllStable /\ [Next]_vars => AllStable'
  BY StableNext DEF AllStable, StableStep
<1>3. DevicesOK /\ OriginInv /\ AllStable /\ [Next]_vars
        => [\A p \in Undisputed : identity[p] # 0 => identity'[p] = identity[p]]_vars
  BY StableNext DEF AllStable, Stable, StableStep
<1> QED BY <1>1, <1>2, <1>3, OriginSpec, PTL DEF Spec, UndisputedAIDStable
=============================================================================
