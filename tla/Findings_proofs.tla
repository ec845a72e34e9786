--------------------------- MODULE Findings_proofs ---------------------------
(***************************************************************************)
(* For any findings, pages and order of losses: no finding ships without   *)
(* a proof, none is lost, none loses its detector's own exchanges, and     *)
(* what a detector proved stays proved.                                    *)
(***************************************************************************)
EXTENDS Findings, Sublists_proofs

-----------------------------------------------------------------------------
Early == {"verify", "zap", "merge"}
Phases == Early \union {"secrets", "capture", "shell", "backfill", "done"}

Typed ==
    /\ live \in [Urls -> Pages] /\ phase \in Phases
    /\ findings \in Seq(AllFindings)
    /\ at \in Nat \ {0}
    /\ arrived = Detected \o Later \o FromZap

\* f is what became of the finding k, and still carries its own exchanges.
Twin(f, k) ==
    /\ f.id = k.id /\ f.cat = k.cat /\ f.url = k.url
    /\ f.param = k.param /\ f.says = k.says
Copy(f, j) ==
    j \in DOMAIN arrived /\ Twin(f, arrived[j]) /\ f.evid = arrived[j].evid

\* Until duplicates are merged the list is what arrived, in that order, less
\* what ZAP claimed and the application denies.
InPlace ==
    /\ phase = "verify" => Len(findings) = Len(Detected)
    /\ phase = "zap" => Len(findings) = Len(Detected) + Len(Later)
    /\ phase \in {"verify", "zap"} =>
         \A i \in DOMAIN findings : Copy(findings[i], i)

InOrder ==
    phase = "merge" =>
        /\ \A i \in DOMAIN findings : \E j \in DOMAIN arrived : Copy(findings[i], j)
        /\ \A i1, i2 \in DOMAIN findings, j1, j2 \in DOMAIN arrived :
             i1 < i2 /\ Copy(findings[i1], j1) /\ Copy(findings[i2], j2) => j1 < j2
        /\ \A j \in DOMAIN arrived :
             Denied(arrived[j]) \/ \E i \in DOMAIN findings : Copy(findings[i], j)

\* An id is one finding; those added by the secret assessment are not proved.
OneEach ==
    \A i, j \in DOMAIN findings :
        findings[i].id = findings[j].id =>
            \/ i = j /\ findings[i].id # "impact"
            \/ findings[i].id = "impact" /\ findings[i].verified = "no"

\* From the merge on, what arrived is in the list, under itself or another.
Backed(f, k) ==
    Twin(f, k) /\ \A x \in ToSet(f.evid) \intersect Responses : x.page \in OnRecord(k)
Accounted(k) ==
    \/ \E f \in Shipped : Backed(f, k)
    \/ Hygiene(k) /\ \E p \in OnRecord(k) : Contradicts(p, k.says)
    \/ /\ phase \in {"backfill", "done"} /\ Hygiene(k)
       /\ \E f \in Shipped, p \in OnRecord(k) :
            f.says = k.says /\ Answered(f) /\ Primary(f).body = p.body
AllAccounted ==
    phase \notin Early =>
        \A a \in ToSet(arrived) :
            \/ Denied(a)
            \/ \E k \in ToSet(arrived) : StandsFor(a, k) /\ Accounted(k)

\* From the merge on, the exchanges a report must show stay with the finding.
Owed(a) == {b \in ToSet(arrived) : Key(b) = Key(a)}
Paid(f, a) ==
    \/ \A b \in Owed(a) : b.evid = <<>> \/ Denied(b)
    \/ \E b \in Owed(a) :
         /\ b.evid # <<>>
         /\ \A x \in ToSet(b.evid) : Synthetic(x) \/ x \in ToSet(f.evid)
AllPaid ==
    phase \notin Early =>
        \A f \in Shipped, a \in ToSet(arrived) : a.id = f.id => Paid(f, a)

Filled == phase = "done" => \A f \in Shipped : f.evid # <<>>

FInv ==
    /\ Typed /\ InPlace /\ InOrder /\ OneEach
    /\ AllAccounted /\ AllPaid /\ Filled

-----------------------------------------------------------------------------
\* The steps on one finding: what each keeps of it.
LEMMA JudgedKeeps ==
    ASSUME NEW f \in AllFindings, NEW e, e.heard \in BOOLEAN
    PROVE  /\ Judged(f, e) \in AllFindings /\ Twin(Judged(f, e), f)
           /\ Judged(f, e).evid = f.evid
           /\ f.verified = "yes" => Judged(f, e).verified = "yes"
<1>1. (e.heard /\ Reached(f)) \in BOOLEAN
  BY DEF Reached
<1> DEFINE h == e.heard /\ Reached(f)
<1> HIDE DEF h
<1>2. CASE e.verdict = "yes"
  BY <1>2 DEF Judged, Twin, AllFindings
<1>3. CASE e.verdict # "yes" /\ (e.verdict = "none" \/ f.verified = "yes")
  BY <1>3 DEF Judged, Twin, AllFindings
<1>4. CASE ~ (e.verdict = "yes" \/ e.verdict = "none" \/ f.verified = "yes")
  <2>1. h \in BOOLEAN
    BY <1>1 DEF h
  <2>2. Judged(f, e) = [f EXCEPT !.verified = "no", !.heard = h]
    BY <1>4 DEF Judged, h
  <2> QED BY <1>4, <2>1, <2>2 DEF Twin, AllFindings
<1> QED BY <1>2, <1>3, <1>4

LEMMA NotReplayedKeeps ==
    ASSUME NEW f \in AllFindings
    PROVE  /\ NotReplayed(f) \in AllFindings /\ Twin(NotReplayed(f), f)
           /\ NotReplayed(f).evid = f.evid
           /\ f.verified = "yes" => NotReplayed(f).verified = "yes"
BY DEF NotReplayed, Twin, AllFindings

LEMMA OneBlock ==
    ASSUME NEW x \in Exchanges
    PROVE  <<x>> \in Seq(Exchanges) /\ <<x>> # <<>>
OBVIOUS

\* What is new in the evidence is what the URL itself answers.
Grows(g, f) ==
    \A x \in ToSet(g.evid) \intersect Responses :
        x \in ToSet(f.evid) \/ x.page = live[f.url]

\* The response a finding is judged by is one of its evidence.
LEMMA PrimaryIs ==
    ASSUME NEW f \in AllFindings, Answered(f)
    PROVE  \E x \in ToSet(f.evid) \intersect Responses : Primary(f) = x.page
<1> DEFINE real == {i \in DOMAIN f.evid : f.evid[i].kind \in Real}
           first == CHOOSE i \in real : \A j \in real : i <= j
<1>1. f.evid \in Seq(Exchanges)
  BY DEF AllFindings
<1>2. real \subseteq Nat /\ real # {}
  BY <1>1 DEF Answered, Kinds
<1> HIDE DEF real
<1>3. first \in real
  BY <1>2, Least
<1> HIDE DEF first
<1>4. first \in DOMAIN f.evid /\ f.evid[first].kind \in Real
  BY <1>3 DEF real
<1>5. f.evid[first] \in Responses /\ f.evid[first] \in ToSet(f.evid)
  BY <1>1, <1>4 DEF Exchanges, Real, ToSet
<1>6. Primary(f) = f.evid[first].page
  BY DEF Primary, first, real
<1> QED BY <1>5, <1>6

LEMMA CapturedKeeps ==
    ASSUME NEW f \in AllFindings, live \in [Urls -> Pages]
    PROVE  /\ Captured(f) \in AllFindings /\ Twin(Captured(f), f)
           /\ Captured(f).verified = f.verified
           /\ \A x \in ToSet(f.evid) : Synthetic(x) \/ x \in ToSet(Captured(f).evid)
           /\ Grows(Captured(f), f)
<1> DEFINE shot == Capture(f)
           S == {i \in DOMAIN f.evid : ~Synthetic(f.evid[i])}
           rest == Sublist(f.evid, S)
<1>1. f.evid \in Seq(Exchanges) /\ f.id \in Words /\ live[f.url] \in Pages
  BY DEF AllFindings
<1>2. shot \in Exchanges /\ shot.page = live[f.url]
  BY <1>1 DEF Exchanges, Responses, Capture
<1>3. rest \in Seq(Exchanges) /\ ToSet(rest) = {f.evid[i] : i \in S}
  <2>1. S \in SUBSET DOMAIN f.evid
    OBVIOUS
  <2> HIDE DEF S
  <2> QED BY <1>1, <2>1, SublistIs, SublistSet
<1>4. Captured(f) = [f EXCEPT !.evid = <<shot>> \o rest]
  BY DEF Captured, Where
<1> HIDE DEF shot, rest
<1>5. <<shot>> \in Seq(Exchanges)
  BY <1>2, OneBlock
<1>6. <<shot>> \o rest \in Seq(Exchanges)
  BY <1>3, <1>5
<1>7. Captured(f).evid = <<shot>> \o rest
  BY <1>4 DEF AllFindings
<1>8. \A x \in ToSet(rest) : x \in ToSet(<<shot>> \o rest)
  <2> SUFFICES ASSUME NEW n \in DOMAIN rest
               PROVE  \E m \in DOMAIN (<<shot>> \o rest) : (<<shot>> \o rest)[m] = rest[n]
    BY DEF ToSet
  <2>1. n + 1 \in DOMAIN (<<shot>> \o rest) /\ (<<shot>> \o rest)[n + 1] = rest[n]
    BY <1>3, <1>5
  <2> QED BY <2>1
<1>9. \A x \in ToSet(f.evid) : Synthetic(x) \/ x \in ToSet(rest)
  BY <1>3 DEF ToSet
<1>10. Captured(f) \in AllFindings /\ Twin(Captured(f), f)
       /\ Captured(f).verified = f.verified
  BY <1>4, <1>6 DEF AllFindings, Twin
<1>11. \A x \in ToSet(rest) : x \in ToSet(f.evid)
  BY <1>3 DEF ToSet
<1>12. \A x \in ToSet(<<shot>> \o rest) : x = shot \/ x \in ToSet(rest)
  <2> DEFINE long == <<shot>> \o rest
  <2>1. /\ Len(long) = 1 + Len(rest) /\ long[1] = shot
        /\ \A i \in 1 .. Len(rest) : long[1 + i] = rest[i]
        /\ DOMAIN long = 1 .. 1 + Len(rest) /\ DOMAIN rest = 1 .. Len(rest)
        /\ Len(rest) \in Nat
    BY <1>3, <1>5
  <2> HIDE DEF long
  <2>2. ASSUME NEW i \in DOMAIN long PROVE long[i] = shot \/ long[i] \in ToSet(rest)
    <3>1. CASE i = 1
      BY <2>1, <3>1
    <3>2. CASE i # 1
      <4>1. i - 1 \in 1 .. Len(rest) /\ i = 1 + (i - 1)
        BY <2>1, <3>2
      <4>2. long[i] = rest[i - 1]
        BY <2>1, <4>1
      <4> QED BY <2>1, <4>1, <4>2 DEF ToSet
    <3> QED BY <3>1, <3>2
  <2> QED BY <2>2 DEF ToSet, long
<1>13. Grows(Captured(f), f)
  BY <1>2, <1>7, <1>11, <1>12 DEF Grows
<1> QED BY <1>7, <1>8, <1>9, <1>10, <1>13

LEMMA UnprovenKeeps ==
    ASSUME NEW f \in AllFindings
    PROVE  /\ Unproven(f) \in AllFindings /\ Twin(Unproven(f), f)
           /\ Unproven(f).evid = f.evid
           /\ f.verified = "no" => Unproven(f).verified = "no"
           /\ f.verified = "yes" /\ Unproven(f).verified # "yes"
                => Hygiene(f) /\ ~Answered(f) /\ Unproven(f).verified = "none"
BY DEF Unproven, Twin, AllFindings

LEMMA BackfilledKeeps ==
    ASSUME NEW f \in AllFindings
    PROVE  /\ Backfilled(f) \in AllFindings /\ Twin(Backfilled(f), f)
           /\ Backfilled(f).verified = f.verified
           /\ Backfilled(f).evid # <<>>
           /\ \A x \in ToSet(f.evid) : x \in ToSet(Backfilled(f).evid)
           /\ Grows(Backfilled(f), f)
           /\ Answered(f) => Backfilled(f) = f
<1> DEFINE told == [kind |-> "placeholder", of |-> f.id]
<1>1. CASE f.evid # <<>>
  BY <1>1 DEF Backfilled, Twin, Grows
<1>2. CASE f.evid = <<>>
  <2>1. told \in Exchanges
    BY DEF AllFindings, Exchanges
  <2>2. Backfilled(f) = [f EXCEPT !.evid = <<told>>]
    BY <1>2 DEF Backfilled
  <2> HIDE DEF told
  <2>3. <<told>> \in Seq(Exchanges) /\ <<told>> # <<>>
    BY <2>1, OneBlock
  <2>4. Backfilled(f).evid = <<told>>
    BY <2>2 DEF AllFindings
  <2>5. Backfilled(f) \in AllFindings /\ Twin(Backfilled(f), f)
        /\ Backfilled(f).verified = f.verified
    BY <2>2, <2>3 DEF AllFindings, Twin
  <2>6. ToSet(f.evid) = {} /\ ~Answered(f)
    BY <1>2 DEF ToSet, Answered, Kinds
  <2>7. told \notin Responses
    BY DEF told, Responses
  <2>8. ToSet(Backfilled(f).evid) = {told}
    BY <2>4 DEF ToSet
  <2>9. Grows(Backfilled(f), f)
    BY <2>7, <2>8 DEF Grows
  <2> QED BY <2>3, <2>4, <2>5, <2>6, <2>9
<1> QED BY <1>1, <1>2

LEMMA AssessmentIs ==
    ASSUME NEW f \in AllFindings
    PROVE  /\ Assessment(f) \in AllFindings
           /\ Assessment(f).id = "impact" /\ Assessment(f).verified = "no"
<1>1. [kind |-> "tool", of |-> "impact"] \in Exchanges
  BY FindingsAssumption DEF Exchanges
<1> DEFINE block == <<[kind |-> "tool", of |-> "impact"]>>
<1>2. block \in Seq(Exchanges)
  BY <1>1, OneBlock
<1> HIDE DEF block
<1>3. f.url \in Urls
  BY DEF AllFindings
<1> QED BY <1>2, <1>3, FindingsAssumption DEF Assessment, AllFindings, block

\* The merge gives a finding the proof of the first of its kind that has one.
LEMMA WithProofKeeps ==
    ASSUME NEW fs \in Seq(AllFindings), NEW i \in DOMAIN fs
    PROVE  LET g == WithProof(fs, i)
           IN  /\ g \in AllFindings /\ Twin(g, fs[i])
               /\ g.verified = fs[i].verified
               /\ \/ (\A j \in Alike(fs, i) : fs[j].evid = <<>>) /\ g = fs[i]
                  \/ \E j \in Alike(fs, i) : fs[j].evid # <<>> /\ g.evid = fs[j].evid
<1> DEFINE proved == {j \in Alike(fs, i) : fs[j].evid # <<>>}
           first == CHOOSE j \in proved : \A k \in proved : j <= k
<1>1. CASE proved = {}
  <2>1. WithProof(fs, i) = fs[i]
    BY <1>1 DEF WithProof
  <2> QED BY <1>1, <2>1 DEF Twin
<1>2. CASE proved # {}
  <2>1. proved \subseteq Nat
    BY DEF Alike
  <2>2. first \in proved
    BY <1>2, <2>1, Least
  <2>3. first \in DOMAIN fs /\ first \in Alike(fs, i) /\ fs[first].evid # <<>>
    BY <2>2 DEF Alike
  <2>4. WithProof(fs, i) = [fs[i] EXCEPT !.evid = fs[first].evid]
    BY <1>2 DEF WithProof
  <2> HIDE DEF first, proved
  <2>5. fs[i] \in AllFindings /\ fs[first] \in AllFindings
    BY <2>3
  <2>6. WithProof(fs, i).evid = fs[first].evid
    BY <2>4, <2>5 DEF AllFindings
  <2> QED BY <2>3, <2>4, <2>5, <2>6 DEF AllFindings, Twin
<1> QED BY <1>1, <1>2

-----------------------------------------------------------------------------
LEMMA JoinIs ==
    ASSUME NEW X, NEW s \in Seq(X), NEW t \in Seq(X)
    PROVE  /\ s \o t \in Seq(X) /\ Len(s \o t) = Len(s) + Len(t)
           /\ \A i \in 1 .. Len(s) : (s \o t)[i] = s[i]
           /\ \A i \in 1 .. Len(t) : (s \o t)[Len(s) + i] = t[i]
           /\ \A i \in DOMAIN (s \o t) :
                i \in 1 .. Len(s) \/ i - Len(s) \in 1 .. Len(t)
           /\ ToSet(s \o t) = ToSet(s) \union ToSet(t)
<1>1. /\ s \o t \in Seq(X) /\ Len(s \o t) = Len(s) + Len(t)
      /\ \A i \in 1 .. Len(s) : (s \o t)[i] = s[i]
      /\ \A i \in 1 .. Len(t) : (s \o t)[Len(s) + i] = t[i]
      /\ \A i \in DOMAIN (s \o t) :
            i \in 1 .. Len(s) \/ i - Len(s) \in 1 .. Len(t)
  OBVIOUS
<1>2. ToSet(s \o t) \subseteq ToSet(s) \union ToSet(t)
  <2>1. ASSUME NEW i \in DOMAIN (s \o t)
        PROVE  (s \o t)[i] \in ToSet(s) \union ToSet(t)
    <3>1. CASE i \in 1 .. Len(s)
      BY <1>1, <3>1 DEF ToSet
    <3>2. CASE i - Len(s) \in 1 .. Len(t)
      <4>1. i = Len(s) + (i - Len(s))
        OBVIOUS
      <4> QED BY <1>1, <3>2, <4>1 DEF ToSet
    <3> QED BY <1>1, <3>1, <3>2
  <2> QED BY <2>1 DEF ToSet
<1>3. /\ \A i \in DOMAIN s : i \in DOMAIN (s \o t)
      /\ \A i \in DOMAIN t : Len(s) + i \in DOMAIN (s \o t)
  OBVIOUS
<1>4. ToSet(s) \subseteq ToSet(s \o t)
  BY <1>1, <1>3 DEF ToSet
<1>5. ToSet(t) \subseteq ToSet(s \o t)
  BY <1>1, <1>3 DEF ToSet
<1> QED BY <1>1, <1>2, <1>4, <1>5

LEMMA ArrivedIs ==
    ASSUME arrived = Detected \o Later \o FromZap
    PROVE  /\ arrived \in Seq(AllFindings)
           /\ Len(Detected) \in Nat /\ Len(Later) \in Nat /\ Len(FromZap) \in Nat
           /\ DOMAIN arrived = 1 .. Len(Detected) + Len(Later) + Len(FromZap)
           /\ \A i \in 1 .. Len(Detected) : arrived[i] = Detected[i]
           /\ \A i \in 1 .. Len(Later) : arrived[Len(Detected) + i] = Later[i]
           /\ \A i \in 1 .. Len(FromZap) :
                arrived[Len(Detected) + Len(Later) + i] = FromZap[i]
<1>1. /\ Detected \in Seq(AllFindings) /\ Later \in Seq(AllFindings)
      /\ FromZap \in Seq(AllFindings)
  BY FindingsAssumption
<1> DEFINE front == Detected \o Later
<1>2. /\ front \in Seq(AllFindings) /\ Len(front) = Len(Detected) + Len(Later)
      /\ \A i \in 1 .. Len(Detected) : front[i] = Detected[i]
      /\ \A i \in 1 .. Len(Later) : front[Len(Detected) + i] = Later[i]
  BY <1>1, JoinIs
<1>3. arrived = front \o FromZap
  OBVIOUS
<1> HIDE DEF front
<1>4. /\ arrived \in Seq(AllFindings) /\ Len(arrived) = Len(front) + Len(FromZap)
      /\ \A i \in 1 .. Len(front) : arrived[i] = front[i]
      /\ \A i \in 1 .. Len(FromZap) : arrived[Len(front) + i] = FromZap[i]
  <2> DEFINE whole == front \o FromZap
  <2>1. /\ whole \in Seq(AllFindings) /\ Len(whole) = Len(front) + Len(FromZap)
        /\ \A i \in 1 .. Len(front) : whole[i] = front[i]
        /\ \A i \in 1 .. Len(FromZap) : whole[Len(front) + i] = FromZap[i]
    <3>1. front \in Seq(AllFindings) /\ FromZap \in Seq(AllFindings)
      BY <1>1, <1>2
    <3> QED BY ONLY <3>1, JoinIs
  <2>2. arrived = whole
    BY <1>3
  <2> HIDE DEF whole
  <2> QED BY <2>1, <2>2
<1>5. Len(Detected) \in Nat /\ Len(Later) \in Nat /\ Len(FromZap) \in Nat
  BY <1>1
<1>6. DOMAIN arrived = 1 .. Len(Detected) + Len(Later) + Len(FromZap)
  BY <1>2, <1>4, <1>5
<1>7. /\ \A i \in 1 .. Len(Detected) : i \in 1 .. Len(front)
      /\ \A i \in 1 .. Len(Later) : Len(Detected) + i \in 1 .. Len(front)
  BY <1>2, <1>5
<1> QED BY <1>2, <1>4, <1>5, <1>6, <1>7

LEMMA IdsAreUnique ==
    ASSUME arrived = Detected \o Later \o FromZap
    PROVE  \A i, j \in DOMAIN arrived :
             arrived[i].id # "impact" /\ (arrived[i].id = arrived[j].id => i = j)
BY IdsAssumption

LEMMA CopyIsOne ==
    ASSUME arrived = Detected \o Later \o FromZap,
           NEW f, NEW g, NEW i, NEW j, Copy(f, i), Copy(g, j), f.id = g.id
    PROVE  i = j
BY IdsAreUnique DEF Copy, Twin

\* Before the merge no two findings of the list have the same id.
Distinct ==
    \A i, j \in DOMAIN findings :
        findings[i].id # "impact" /\ (findings[i].id = findings[j].id => i = j)

LEMMA EarlyOneEach ==
    Typed /\ InPlace /\ InOrder /\ phase \in Early => Distinct
<1> SUFFICES ASSUME Typed, InPlace, InOrder, phase \in Early PROVE Distinct
  OBVIOUS
<1>1. arrived = Detected \o Later \o FromZap /\ DOMAIN findings \subseteq Nat
  BY DEF Typed
<1>2. \A i \in DOMAIN findings : \E j \in DOMAIN arrived : Copy(findings[i], j)
  BY DEF InPlace, InOrder, Copy, Early
<1>3. \A i \in DOMAIN findings : findings[i].id # "impact"
  BY <1>1, <1>2, IdsAreUnique DEF Copy, Twin
<1>4. ASSUME NEW i1 \in DOMAIN findings, NEW i2 \in DOMAIN findings,
             i1 < i2, findings[i1].id = findings[i2].id
      PROVE  FALSE
  <2>1. PICK j1 \in DOMAIN arrived : Copy(findings[i1], j1)
    BY <1>2
  <2>2. PICK j2 \in DOMAIN arrived : Copy(findings[i2], j2)
    BY <1>2
  <2>3. j1 = j2
    BY <1>1, <1>4, <2>1, <2>2, CopyIsOne
  <2>4. j1 \in Nat
    BY <1>1, ArrivedIs
  <2>5. CASE phase = "merge"
    <3>1. j1 < j2
      BY <1>4, <2>1, <2>2, <2>5 DEF InOrder
    <3> QED BY <2>3, <2>4, <3>1
  <2>6. CASE phase \in {"verify", "zap"}
    <3>1. Copy(findings[i1], i1) /\ Copy(findings[i2], i2)
      BY <2>6 DEF InPlace
    <3>2. i1 = i2
      BY <1>1, <1>4, <3>1, CopyIsOne
    <3> QED BY <1>1, <1>4, <3>2
  <2> QED BY <2>5, <2>6 DEF Early
<1>5. ASSUME NEW i \in DOMAIN findings, NEW j \in DOMAIN findings,
             findings[i].id = findings[j].id
      PROVE  i = j
  <2>1. i \in Nat /\ j \in Nat
    BY <1>1
  <2>2. ~ (i < j) /\ ~ (j < i)
    BY <1>4, <1>5
  <2> QED BY <2>1, <2>2
<1> QED BY <1>3, <1>5 DEF Distinct

LEMMA InitFInv == Init => FInv
<1> SUFFICES ASSUME Init PROVE FInv
  OBVIOUS
<1>1. arrived = Detected \o Later \o FromZap /\ findings = Detected
      /\ phase = "verify" /\ at = 1
  BY DEF Init
<1>2. /\ \A i \in 1 .. Len(Detected) : arrived[i] = Detected[i]
      /\ 1 .. Len(Detected) \subseteq DOMAIN arrived
  BY <1>1, ArrivedIs
<1>3. findings \in Seq(AllFindings)
  BY <1>1, FindingsAssumption
<1>4. Typed
  BY <1>1, <1>3 DEF Init, Typed, Phases, Early
<1>5. InPlace
  <2>1. \A i \in DOMAIN findings : Copy(findings[i], i)
    BY <1>1, <1>2, <1>3 DEF Copy, Twin
  <2> QED BY <1>1, <2>1 DEF InPlace
<1>6. InOrder
  BY <1>1 DEF InOrder
<1>7. OneEach
  BY <1>1, <1>4, <1>5, <1>6, EarlyOneEach DEF OneEach, Early, Distinct
<1>8. AllAccounted /\ AllPaid /\ Filled
  BY <1>1 DEF AllAccounted, AllPaid, Filled, Early
<1> QED BY <1>4, <1>5, <1>6, <1>7, <1>8 DEF FInv

\* While nothing has been merged the last three parts have nothing to say.
LEMMA EarlyStep ==
    ASSUME phase' \in Early, Typed', InPlace', InOrder'
    PROVE  FInv'
<1>1. OneEach'
  <2>1. (Typed /\ InPlace /\ InOrder /\ phase \in Early => Distinct)'
    BY EarlyOneEach, PTL
  <2>2. Distinct'
    BY <2>1
  <2> QED BY <2>2 DEF OneEach, Distinct
<1>2. (AllAccounted /\ AllPaid /\ Filled)'
  BY DEF AllAccounted, AllPaid, Filled, Early
<1> QED BY <1>1, <1>2 DEF FInv

LEMMA HeardOrNot ==
    ASSUME NEW c, NEW e \in Endings(c)
    PROVE  e.heard \in BOOLEAN
<1>1. \E h \in BOOLEAN : \E v : e = [verdict |-> v, heard |-> h]
  BY DEF Endings
<1> QED BY <1>1

\* A replay's turn: one finding is judged, and otherwise what it was.
LEMMA VerifyTurn ==
    ASSUME Typed, VerifyNext
    PROVE  /\ at \in DOMAIN findings
           /\ \E g \in AllFindings :
                /\ findings' = [findings EXCEPT ![at] = g]
                /\ Twin(g, findings[at]) /\ g.evid = findings[at].evid
                /\ findings[at].verified = "yes" => g.verified = "yes"
<1>1. at \in DOMAIN findings
  BY DEF Typed, VerifyNext
<1> DEFINE f == findings[at]
<1>2. f \in AllFindings
  BY <1>1 DEF Typed
<1>3. CASE ReplayOf(f) = <<>>
  <2>1. findings' = [findings EXCEPT ![at] = NotReplayed(f)]
    BY <1>3 DEF VerifyNext
  <2> QED BY <1>1, <1>2, <2>1, NotReplayedKeeps
<1>4. CASE ReplayOf(f) # <<>>
  <2>1. PICK e \in Replays(f) : findings' = [findings EXCEPT ![at] = Judged(f, e)]
    BY <1>4 DEF VerifyNext
  <2>2. f.cat \in Categories
    BY <1>4 DEF ReplayOf, Categories
  <2>3. e \in EndingsOf[f.cat]
    BY DEF Replays
  <2>4. e \in Endings(ReplayOf([cat |-> f.cat])[1])
    BY <2>2, <2>3 DEF EndingsOf
  <2>5. e.heard \in BOOLEAN
    BY <2>4, HeardOrNot
  <2> HIDE DEF f
  <2>6. /\ Judged(f, e) \in AllFindings /\ Twin(Judged(f, e), f)
        /\ Judged(f, e).evid = f.evid
        /\ f.verified = "yes" => Judged(f, e).verified = "yes"
    BY <1>2, <2>5, JudgedKeeps
  <2> QED BY <1>1, <2>1, <2>6 DEF f
<1> QED BY <1>3, <1>4

LEMMA VerifyKeeps ==
    ASSUME FInv, VerifyNext
    PROVE  FInv'
<1>1. Typed /\ InPlace
  BY DEF FInv
<1>2. /\ phase = "verify" /\ phase' = "verify" /\ at' = at + 1
      /\ UNCHANGED <<live, arrived>>
  BY DEF VerifyNext
<1>3. at \in DOMAIN findings
  BY <1>1, VerifyTurn
<1>4. PICK g \in AllFindings :
        /\ findings' = [findings EXCEPT ![at] = g]
        /\ Twin(g, findings[at]) /\ g.evid = findings[at].evid
  BY <1>1, VerifyTurn
<1>5. findings \in Seq(AllFindings) /\ at \in Nat \ {0}
  BY <1>1 DEF Typed
<1>6. /\ findings' \in Seq(AllFindings) /\ Len(findings') = Len(findings)
      /\ DOMAIN findings' = DOMAIN findings
  BY <1>3, <1>4, <1>5
<1>7. Typed'
  BY <1>1, <1>2, <1>5, <1>6 DEF Typed, Phases, Early
<1>8. InPlace'
  <2>1. ASSUME NEW i \in DOMAIN findings PROVE Copy(findings[i], i)'
    <3>1. Copy(findings[i], i)
      BY <1>1, <1>2 DEF InPlace
    <3>2. CASE i = at
      BY <1>2, <1>3, <1>4, <3>1, <3>2 DEF Copy, Twin
    <3>3. CASE i # at
      BY <1>2, <1>4, <3>1, <3>3 DEF Copy, Twin
    <3> QED BY <3>2, <3>3
  <2>2. Len(findings) = Len(Detected)
    BY <1>1, <1>2 DEF InPlace
  <2> QED BY <1>2, <1>6, <2>1, <2>2 DEF InPlace
<1>9. InOrder'
  BY <1>2 DEF InOrder
<1> QED BY <1>2, <1>7, <1>8, <1>9, EarlyStep DEF Early

LEMMA LaterKeeps ==
    ASSUME FInv, LaterStages
    PROVE  FInv'
<1>1. Typed /\ InPlace
  BY DEF FInv
<1>2. /\ phase = "verify" /\ phase' = "zap" /\ findings' = findings \o Later
      /\ UNCHANGED <<live, nowhere, at, arrived>>
  BY DEF LaterStages
<1>3. findings \in Seq(AllFindings) /\ Later \in Seq(AllFindings)
  BY <1>1, FindingsAssumption DEF Typed
<1>4. /\ findings' \in Seq(AllFindings)
      /\ Len(findings') = Len(findings) + Len(Later)
      /\ \A i \in 1 .. Len(findings) : findings'[i] = findings[i]
      /\ \A i \in 1 .. Len(Later) : findings'[Len(findings) + i] = Later[i]
      /\ \A i \in DOMAIN findings' :
           i \in 1 .. Len(findings) \/ i - Len(findings) \in 1 .. Len(Later)
  <2> DEFINE long == findings \o Later
  <2>1. /\ long \in Seq(AllFindings) /\ Len(long) = Len(findings) + Len(Later)
        /\ \A i \in 1 .. Len(findings) : long[i] = findings[i]
        /\ \A i \in 1 .. Len(Later) : long[Len(findings) + i] = Later[i]
        /\ \A i \in DOMAIN long :
             i \in 1 .. Len(findings) \/ i - Len(findings) \in 1 .. Len(Later)
    BY ONLY <1>3, JoinIs
  <2>2. findings' = long
    BY <1>2
  <2> HIDE DEF long
  <2> QED BY <2>1, <2>2
<1>5. Len(findings) = Len(Detected) /\ \A i \in DOMAIN findings : Copy(findings[i], i)
  BY <1>1, <1>2 DEF InPlace
<1>6. arrived = Detected \o Later \o FromZap
  BY <1>1 DEF Typed
<1>7. Typed'
  BY <1>1, <1>2, <1>4 DEF Typed, Phases, Early
<1>8. ASSUME NEW i \in DOMAIN findings' PROVE Copy(findings[i], i)'
  <2>1. CASE i \in 1 .. Len(findings)
    BY <1>2, <1>3, <1>4, <1>5, <2>1 DEF Copy, Twin
  <2>2. CASE i - Len(findings) \in 1 .. Len(Later)
    <3> DEFINE n == i - Len(findings)
    <3>1. n \in 1 .. Len(Later) /\ i = Len(Detected) + n
      BY <1>3, <1>4, <1>5, <2>2
    <3>2. findings'[i] = Later[n] /\ arrived[i] = Later[n] /\ i \in DOMAIN arrived
      BY <1>4, <1>5, <1>6, <3>1, ArrivedIs
    <3> QED BY <1>2, <3>2 DEF Copy, Twin
  <2> QED BY <1>4, <2>1, <2>2
<1>9. InPlace'
  BY <1>2, <1>4, <1>5, <1>8 DEF InPlace
<1>10. InOrder'
  BY <1>2 DEF InOrder
<1> QED BY <1>2, <1>7, <1>9, <1>10, EarlyStep DEF Early

\* Of what ZAP claims, what is left out the application denies.
LEMMA ZapTurn ==
    ASSUME ZapScan
    PROVE  \E S \in SUBSET DOMAIN FromZap :
             /\ findings' = findings \o Sublist(FromZap, S)
             /\ \A i \in DOMAIN FromZap \ S : Denied(FromZap[i])
<1>1. PICK lost \in 0 .. 3, unanswered \in SUBSET ToSet(FromZap) :
        LET Stands(f) == f \in unanswered \/ ~LooksLikeNothing(f, lost)
        IN  findings' = findings \o Where(FromZap, Stands)
  BY DEF ZapScan
<1> DEFINE S == {i \in DOMAIN FromZap : \/ FromZap[i] \in unanswered
                                        \/ ~LooksLikeNothing(FromZap[i], lost)}
<1>2. findings' = findings \o Sublist(FromZap, S)
  BY <1>1 DEF Where
<1>3. \A i \in DOMAIN FromZap \ S : Denied(FromZap[i])
  BY DEF LooksLikeNothing, Calibrated, Denied
<1>4. S \in SUBSET DOMAIN FromZap
  OBVIOUS
<1> QED BY <1>2, <1>3, <1>4

LEMMA ZapKeeps ==
    ASSUME FInv, ZapScan
    PROVE  FInv'
<1>1. Typed /\ InPlace
  BY DEF FInv
<1>2. /\ phase = "zap" /\ phase' = "merge"
      /\ UNCHANGED <<live, nowhere, at, arrived>>
  BY DEF ZapScan
<1>3. PICK S \in SUBSET DOMAIN FromZap :
        /\ findings' = findings \o Sublist(FromZap, S)
        /\ \A i \in DOMAIN FromZap \ S : Denied(FromZap[i])
  BY ZapTurn
<1> DEFINE P == Len(Detected) + Len(Later)
           sub == Sublist(FromZap, S)
           N == Cardinality(S)
<1>4. /\ findings \in Seq(AllFindings) /\ FromZap \in Seq(AllFindings)
      /\ arrived = Detected \o Later \o FromZap
  BY <1>1, FindingsAssumption DEF Typed
<1>5. /\ sub \in Seq(AllFindings) /\ Len(sub) = N /\ N \in Nat
      /\ \A n \in 1 .. N : Nth(S, n) \in S /\ sub[n] = FromZap[Nth(S, n)]
      /\ \A m, n \in 1 .. N : m < n => Nth(S, m) < Nth(S, n)
      /\ \A i \in S : \E n \in 1 .. N : Nth(S, n) = i
  BY <1>4, SublistIs
<1>6. P \in Nat /\ Len(findings) = P /\ \A i \in 1 .. P : Copy(findings[i], i)
  <2>1. P \in Nat
    BY <1>4, ArrivedIs
  <2>2. Len(findings) = P
    BY <1>1, <1>2 DEF InPlace
  <2>3. \A i \in DOMAIN findings : Copy(findings[i], i)
    BY <1>1, <1>2 DEF InPlace
  <2>4. DOMAIN findings = 1 .. P
    BY <1>4, <2>2
  <2> QED BY <2>1, <2>2, <2>3, <2>4
<1>7. /\ findings' \in Seq(AllFindings) /\ Len(findings') = P + N
      /\ \A i \in 1 .. P : findings'[i] = findings[i]
      /\ \A n \in 1 .. N : findings'[P + n] = sub[n]
      /\ \A i \in DOMAIN findings' : i \in 1 .. P \/ i - P \in 1 .. N
  <2> DEFINE long == findings \o sub
  <2> HIDE DEF sub
  <2>0. findings \in Seq(AllFindings) /\ sub \in Seq(AllFindings)
    BY <1>4, <1>5 DEF sub
  <2>3. Len(sub) = N /\ Len(findings) = P
    BY <1>5, <1>6 DEF sub
  <2> HIDE DEF P, N
  <2>1. /\ long \in Seq(AllFindings) /\ Len(long) = Len(findings) + Len(sub)
        /\ \A i \in 1 .. Len(findings) : long[i] = findings[i]
        /\ \A i \in 1 .. Len(sub) : long[Len(findings) + i] = sub[i]
        /\ \A i \in DOMAIN long :
             i \in 1 .. Len(findings) \/ i - Len(findings) \in 1 .. Len(sub)
    BY ONLY <2>0, JoinIs
  <2>2. findings' = long
    BY <1>3 DEF sub
  <2> HIDE DEF long
  <2> QED BY <2>1, <2>2, <2>3
<1>8. /\ DOMAIN arrived = 1 .. P + Len(FromZap)
      /\ \A i \in 1 .. Len(FromZap) : arrived[P + i] = FromZap[i]
      /\ DOMAIN FromZap = 1 .. Len(FromZap) /\ Len(FromZap) \in Nat
  BY <1>4, ArrivedIs
<1> HIDE DEF P, N, sub
\* Where each finding of the new list came from.
<1> DEFINE pos(i) == IF i \in 1 .. P THEN i ELSE P + Nth(S, i - P)
<1>9. \A n \in 1 .. N : Nth(S, n) \in 1 .. Len(FromZap)
  BY <1>5, <1>8
<1>10. ASSUME NEW i \in DOMAIN findings'
       PROVE  pos(i) \in DOMAIN arrived /\ Copy(findings'[i], pos(i))
  <2>1. CASE i \in 1 .. P
    BY <1>6, <1>7, <2>1 DEF Copy
  <2>2. CASE i \notin 1 .. P
    <3>1. PICK n \in 1 .. N : n = i - P /\ i = P + n
      BY <1>5, <1>6, <1>7, <2>2
    <3>2. Nth(S, n) \in 1 .. Len(FromZap)
      BY <1>9
    <3>3. pos(i) = P + Nth(S, n)
      BY <2>2, <3>1
    <3>4. findings'[i] = arrived[pos(i)]
      BY <1>5, <1>7, <1>8, <3>1, <3>2, <3>3
    <3>5. pos(i) \in DOMAIN arrived
      BY <1>6, <1>8, <3>2, <3>3
    <3> HIDE DEF pos
    <3> QED BY <3>4, <3>5 DEF Copy, Twin
  <2> QED BY <2>1, <2>2
<1>11. ASSUME NEW i1 \in DOMAIN findings', NEW i2 \in DOMAIN findings', i1 < i2
       PROVE  pos(i1) < pos(i2)
  <2>1. i1 \in Nat /\ i2 \in Nat /\ P \in Nat
    BY <1>6, <1>7
  <2>2. CASE i2 \in 1 .. P
    BY <1>6, <1>7, <1>11, <2>1, <2>2
  <2>3. CASE i1 \in 1 .. P /\ i2 \notin 1 .. P
    <3>1. i2 - P \in 1 .. N
      BY <1>7, <2>3
    <3>2. Nth(S, i2 - P) \in 1 .. Len(FromZap)
      BY <1>9, <3>1
    <3> QED BY <1>8, <2>1, <2>3, <3>2
  <2>4. CASE i1 \notin 1 .. P /\ i2 \notin 1 .. P
    <3>1. i1 - P \in 1 .. N /\ i2 - P \in 1 .. N /\ i1 - P < i2 - P
      BY <1>7, <1>11, <2>1, <2>4
    <3>2. Nth(S, i1 - P) < Nth(S, i2 - P)
      BY <1>5, <3>1
    <3>3. Nth(S, i1 - P) \in 1 .. Len(FromZap) /\ Nth(S, i2 - P) \in 1 .. Len(FromZap)
      BY <1>9, <3>1
    <3> QED BY <1>8, <2>1, <2>4, <3>2, <3>3
  <2>5. i2 \in 1 .. P \/ i1 \in 1 .. P \/ (i1 \notin 1 .. P /\ i2 \notin 1 .. P)
    OBVIOUS
  <2> QED BY <2>2, <2>3, <2>4, <2>5
<1>12. ASSUME NEW j \in DOMAIN arrived, ~ Denied(arrived[j])
       PROVE  \E i \in DOMAIN findings' : Copy(findings'[i], j)
  <2>1. CASE j \in 1 .. P
    <3>1. j \in DOMAIN findings' /\ findings'[j] = findings[j]
      BY <1>5, <1>6, <1>7, <2>1
    <3> QED BY <1>6, <2>1, <3>1
  <2>2. CASE j \notin 1 .. P
    <3>1. PICK z \in 1 .. Len(FromZap) : j = P + z
      <4>1. j - P \in 1 .. Len(FromZap) /\ j = P + (j - P)
        BY <1>6, <1>8, <2>2
      <4> QED BY <4>1
    <3>2. arrived[j] = FromZap[z] /\ z \in DOMAIN FromZap
      BY <1>8, <3>1
    <3>3. z \in S
      BY <1>3, <1>12, <3>2
    <3>4. PICK n \in 1 .. N : Nth(S, n) = z
      BY <1>5, <3>3
    <3>5. P + n \in DOMAIN findings' /\ findings'[P + n] = arrived[j]
      BY <1>5, <1>6, <1>7, <3>2, <3>4
    <3> QED BY <3>5 DEF Copy, Twin
  <2> QED BY <2>1, <2>2
<1>13. Typed'
  BY <1>1, <1>2, <1>7 DEF Typed, Phases, Early
<1>14. InPlace'
  BY <1>2 DEF InPlace
<1>15. InOrder'
  <2> HIDE DEF pos
  <2>1. \A i \in DOMAIN findings' : \E j \in DOMAIN arrived : Copy(findings'[i], j)
    BY <1>10
  <2>2. ASSUME NEW i1 \in DOMAIN findings', NEW i2 \in DOMAIN findings',
               NEW j1 \in DOMAIN arrived, NEW j2 \in DOMAIN arrived,
               i1 < i2, Copy(findings'[i1], j1), Copy(findings'[i2], j2)
        PROVE  j1 < j2
    <3>1. j1 = pos(i1) /\ j2 = pos(i2)
      BY <1>4, <1>10, <2>2, CopyIsOne
    <3> QED BY <1>11, <2>2, <3>1
  <2>3. \A j \in DOMAIN arrived :
          Denied(arrived[j]) \/ \E i \in DOMAIN findings' : Copy(findings'[i], j)
    BY <1>12
  <2>4. arrived' = arrived /\ live' = live /\ nowhere' = nowhere
    BY <1>2
  <2> QED BY <2>1, <2>2, <2>3, <2>4 DEF InOrder, Copy, Twin, Denied, LikeNothing
<1> QED BY <1>2, <1>13, <1>14, <1>15, EarlyStep DEF Early

-----------------------------------------------------------------------------
LEMMA TwinsAgree ==
    ASSUME NEW f, NEW k, Twin(f, k)
    PROVE  /\ Key(f) = Key(k) /\ Hygiene(f) = Hygiene(k)
           /\ f.id = k.id /\ f.says = k.says /\ f.url = k.url
BY DEF Twin, Key, Hygiene

LEMMA TwinOfTwin ==
    ASSUME NEW f, NEW g, NEW k, Twin(f, g), Twin(g, k)
    PROVE  Twin(f, k)
BY DEF Twin

\* What merging leaves: the first of each key, in order, with a proof.
LEMMA MergeTurn ==
    ASSUME Typed, Merge
    PROVE  LET K == {i \in DOMAIN findings : FirstOf(findings, i)}
               N == Cardinality(K)
           IN  /\ findings' \in Seq(AllFindings) /\ Len(findings') = N /\ N \in Nat
               /\ \A n \in 1 .. N :
                    LET f == findings[Nth(K, n)]
                        g == findings'[n]
                    IN  /\ Nth(K, n) \in K /\ Twin(g, f) /\ g.verified = f.verified
                        /\ \/ /\ \A j \in Alike(findings, Nth(K, n)) :
                                   findings[j].evid = <<>>
                              /\ g = f
                           \/ \E j \in Alike(findings, Nth(K, n)) :
                                findings[j].evid # <<>> /\ g.evid = findings[j].evid
               /\ \A m, n \in 1 .. N : m < n => Nth(K, m) < Nth(K, n)
               /\ \A i \in K : \E n \in 1 .. N : Nth(K, n) = i
<1> DEFINE K == {i \in DOMAIN findings : FirstOf(findings, i)}
           N == Cardinality(K)
           W == [i \in DOMAIN findings |-> WithProof(findings, i)]
<1>1. findings \in Seq(AllFindings)
  BY DEF Typed
<1>2. /\ W \in Seq(AllFindings) /\ DOMAIN W = DOMAIN findings
      /\ \A i \in DOMAIN findings : W[i] = WithProof(findings, i)
  <2>1. \A i \in DOMAIN findings : WithProof(findings, i) \in AllFindings
    BY <1>1, WithProofKeeps
  <2>2. DOMAIN findings = 1 .. Len(findings) /\ Len(findings) \in Nat
    BY <1>1
  <2> QED BY <2>1, <2>2
<1>3. findings' = Sublist(W, K)
  BY DEF Merge
<1>4. K \in SUBSET DOMAIN W
  BY <1>2
<1> HIDE DEF W, K
<1>5. /\ Sublist(W, K) \in Seq(AllFindings) /\ Len(Sublist(W, K)) = N /\ N \in Nat
      /\ \A n \in 1 .. N : Nth(K, n) \in K /\ Sublist(W, K)[n] = W[Nth(K, n)]
      /\ \A m, n \in 1 .. N : m < n => Nth(K, m) < Nth(K, n)
      /\ \A i \in K : \E n \in 1 .. N : Nth(K, n) = i
  BY <1>2, <1>4, SublistIs
<1>6. ASSUME NEW n \in 1 .. N
      PROVE  LET f == findings[Nth(K, n)]
                 g == findings'[n]
             IN  /\ Nth(K, n) \in K /\ Twin(g, f) /\ g.verified = f.verified
                 /\ \/ /\ \A j \in Alike(findings, Nth(K, n)) :
                            findings[j].evid = <<>>
                       /\ g = f
                    \/ \E j \in Alike(findings, Nth(K, n)) :
                         findings[j].evid # <<>> /\ g.evid = findings[j].evid
  <2>1. Nth(K, n) \in K /\ Nth(K, n) \in DOMAIN findings
    BY <1>2, <1>4, <1>5
  <2>2. findings'[n] = WithProof(findings, Nth(K, n))
    BY <1>2, <1>3, <1>5, <2>1
  <2> QED BY <1>1, <2>1, <2>2, WithProofKeeps
<1> QED BY <1>3, <1>5, <1>6 DEF K

LEMMA MergeKeeps ==
    ASSUME FInv, Merge
    PROVE  FInv'
<1>1. Typed /\ InPlace /\ InOrder
  BY DEF FInv
<1>2. /\ phase = "merge" /\ phase' = "secrets"
      /\ UNCHANGED <<live, nowhere, at, arrived>>
  BY DEF Merge
<1>3. Distinct
  BY <1>1, <1>2, EarlyOneEach DEF Early
<1> DEFINE K == {i \in DOMAIN findings : FirstOf(findings, i)}
           N == Cardinality(K)
           Src(n) == Nth(K, n)
<1>4. /\ findings' \in Seq(AllFindings) /\ Len(findings') = N /\ N \in Nat
      /\ \A n \in 1 .. N :
           /\ Src(n) \in K /\ Twin(findings'[n], findings[Src(n)])
           /\ findings'[n].verified = findings[Src(n)].verified
           /\ \/ /\ \A j \in Alike(findings, Src(n)) : findings[j].evid = <<>>
                 /\ findings'[n] = findings[Src(n)]
              \/ \E j \in Alike(findings, Src(n)) :
                   findings[j].evid # <<>> /\ findings'[n].evid = findings[j].evid
      /\ \A m, n \in 1 .. N : m < n => Src(m) < Src(n)
      /\ \A i \in K : \E n \in 1 .. N : Src(n) = i
  BY <1>1, MergeTurn
<1>5. /\ findings \in Seq(AllFindings) /\ arrived = Detected \o Later \o FromZap
      /\ DOMAIN findings = 1 .. Len(findings) /\ Len(findings) \in Nat
      /\ DOMAIN findings' = 1 .. N
  BY <1>1, <1>4 DEF Typed
<1>6. \A i \in K : i \in DOMAIN findings /\ FirstOf(findings, i) /\ i \in Nat
  BY <1>5
<1> HIDE DEF N, Src, K
<1>7. Typed'
  BY <1>1, <1>2, <1>4 DEF Typed, Phases, Early
<1>8. InPlace' /\ InOrder' /\ Filled'
  BY <1>2 DEF InPlace, InOrder, Filled
<1>9. OneEach'
  <2>1. ASSUME NEW m \in 1 .. N, NEW n \in 1 .. N, findings'[m].id = findings'[n].id
        PROVE  m = n
    <3>1. findings[Src(m)].id = findings[Src(n)].id
      BY <1>4, <2>1 DEF Twin
    <3>2. Src(m) = Src(n)
      BY <1>3, <1>4, <1>6, <3>1 DEF Distinct
    <3>3. Src(m) \in Nat
      BY <1>4, <1>6
    <3>4. ~ (m < n) /\ ~ (n < m)
      BY <1>4, <3>2, <3>3
    <3> QED BY <1>4, <3>4
  <2>2. \A m \in 1 .. N : findings'[m].id # "impact"
    BY <1>3, <1>4, <1>6 DEF Distinct, Twin
  <2> QED BY <1>5, <2>1, <2>2 DEF OneEach
<1>10. ASSUME NEW j \in DOMAIN arrived, ~Denied(arrived[j])
       PROVE  \E k \in ToSet(arrived) :
                StandsFor(arrived[j], k) /\ \E n \in 1 .. N : Backed(findings'[n], k)
  <2>1. PICK i \in DOMAIN findings : Copy(findings[i], j)
    BY <1>1, <1>2, <1>10 DEF InOrder
  <2> DEFINE same == {m \in DOMAIN findings : Key(findings[m]) = Key(findings[i])}
  <2>2. PICK m \in same : \A l \in same : m <= l
    <3>1. same \subseteq Nat /\ i \in same
      BY <1>5
    <3> HIDE DEF same
    <3> QED BY <3>1, Least
  <2>3. m \in DOMAIN findings /\ Key(findings[m]) = Key(findings[i]) /\ m <= i
    BY <2>2
  <2>4. FirstOf(findings, m)
    <3> SUFFICES ASSUME NEW l \in 1 .. m - 1, Key(findings[l]) = Key(findings[m])
                 PROVE  FALSE
      BY DEF FirstOf
    <3>1. l \in DOMAIN findings /\ l < m
      BY <1>5, <2>3
    <3>2. l \in same
      BY <2>3, <3>1
    <3> QED BY <1>5, <2>2, <2>3, <3>1, <3>2
  <2> HIDE DEF same
  <2>5. PICK n \in 1 .. N : Src(n) = m
    BY <1>4, <2>3, <2>4 DEF K
  <2>6. PICK jm \in DOMAIN arrived : Copy(findings[m], jm)
    BY <1>1, <1>2, <2>3 DEF InOrder
  <2>7. jm <= j
    <3>1. jm \in Nat /\ j \in Nat
      BY <1>5, ArrivedIs
    <3>2. CASE m = i
      BY <1>5, <2>1, <2>6, <3>1, <3>2, CopyIsOne
    <3>3. CASE m < i
      BY <1>1, <1>2, <2>1, <2>3, <2>6, <3>1, <3>3 DEF InOrder
    <3> QED BY <1>5, <2>3, <3>2, <3>3
  <2>8. Twin(findings[m], arrived[jm]) /\ Twin(findings[i], arrived[j])
    BY <2>1, <2>6 DEF Copy
  <2>9. Key(arrived[jm]) = Key(arrived[j])
    BY <2>3, <2>8, TwinsAgree
  <2>10. StandsFor(arrived[j], arrived[jm])
    BY <2>7, <2>9 DEF StandsFor
  <2>11. Twin(findings'[n], arrived[jm])
    BY <1>4, <2>5, <2>8, TwinOfTwin
  <2>12. arrived[jm] \in ToSet(arrived)
    BY DEF ToSet
  <2>13. Key(arrived[jm]) = Key(findings[m])
    BY <2>8, TwinsAgree
  <2>14. ASSUME NEW x \in ToSet(findings'[n].evid) \intersect Responses
         PROVE  x.page \in OnRecord(arrived[jm])
    <3>1. PICK l \in Alike(findings, m) : findings'[n].evid = findings[l].evid
      <4>1. m \in Alike(findings, m)
        BY <1>5, <2>3 DEF Alike
      <4> QED BY <1>4, <2>5, <4>1
    <3>2. l \in DOMAIN findings /\ Key(findings[l]) = Key(findings[m])
      BY <1>5, <2>3 DEF Alike
    <3>3. PICK jl \in DOMAIN arrived : Copy(findings[l], jl)
      BY <1>1, <1>2, <3>2 DEF InOrder
    <3>4. Key(arrived[jl]) = Key(arrived[jm]) /\ arrived[jl] \in ToSet(arrived)
      BY <2>13, <3>2, <3>3, TwinsAgree DEF Copy, ToSet
    <3>5. x \in ToSet(arrived[jl].evid) \intersect Responses
      BY <3>1, <3>3 DEF Copy
    <3> QED BY <3>4, <3>5 DEF OnRecord
  <2> QED BY <2>10, <2>11, <2>12, <2>14 DEF Backed
<1>11. AllAccounted'
  <2>1. ASSUME NEW a \in ToSet(arrived), ~Denied(a)
        PROVE  \E k \in ToSet(arrived) :
                 StandsFor(a, k) /\ \E n \in 1 .. N : Backed(findings'[n], k)
    <3>1. PICK j \in DOMAIN arrived : a = arrived[j]
      BY DEF ToSet
    <3> QED BY <1>10, <2>1, <3>1
  <2>2. \A n \in 1 .. N : findings'[n] \in Shipped'
    BY <1>5 DEF Shipped, ToSet
  <2>3. \A k : (\E n \in 1 .. N : Backed(findings'[n], k)) => Accounted(k)'
    <3>1. \A k : OnRecord(k)' = OnRecord(k)
      BY <1>2 DEF OnRecord
    <3> QED BY <2>2, <3>1 DEF Accounted, Backed, Twin
  <2>4. \A a : Denied(a)' = Denied(a)
    BY <1>2 DEF Denied, LikeNothing
  <2>5. \A a, k : StandsFor(a, k)' = StandsFor(a, k)
    BY <1>2 DEF StandsFor
  <2> QED BY <1>2, <2>1, <2>3, <2>4, <2>5 DEF AllAccounted
<1>12. ASSUME NEW n \in 1 .. N, NEW a \in ToSet(arrived), a.id = findings'[n].id
       PROVE  Paid(findings'[n], a)
  <2>1. Src(n) \in DOMAIN findings /\ FirstOf(findings, Src(n)) /\ Src(n) \in Nat
    BY <1>4, <1>6
  <2>2. PICK j \in DOMAIN arrived : Copy(findings[Src(n)], j)
    BY <1>1, <1>2, <2>1 DEF InOrder
  <2>3. a = arrived[j]
    <3>1. PICK ja \in DOMAIN arrived : a = arrived[ja]
      BY DEF ToSet
    <3>2. arrived[ja].id = arrived[j].id
      BY <1>4, <1>12, <2>2, <3>1 DEF Copy, Twin
    <3> QED BY <1>5, <3>1, <3>2, IdsAreUnique
  <2>4. Key(a) = Key(findings[Src(n)])
    BY <2>2, <2>3, TwinsAgree DEF Copy
  <2>5. CASE \A l \in Alike(findings, Src(n)) : findings[l].evid = <<>>
    <3>1. ASSUME NEW b \in Owed(a), ~Denied(b) PROVE b.evid = <<>>
      <4>1. PICK jb \in DOMAIN arrived : b = arrived[jb]
        BY DEF Owed, ToSet
      <4>2. PICK i \in DOMAIN findings : Copy(findings[i], jb)
        BY <1>1, <1>2, <3>1, <4>1 DEF InOrder
      <4>3. Key(findings[i]) = Key(findings[Src(n)])
        BY <2>4, <4>1, <4>2, TwinsAgree DEF Copy, Owed
      <4>4. i >= Src(n)
        BY <1>5, <2>1, <4>3 DEF FirstOf
      <4>5. i \in Alike(findings, Src(n))
        BY <1>5, <2>1, <4>3, <4>4 DEF Alike
      <4> QED BY <2>5, <4>1, <4>2, <4>5 DEF Copy
    <3> QED BY <3>1 DEF Paid
  <2>6. CASE \E l \in Alike(findings, Src(n)) :
               findings[l].evid # <<>> /\ findings'[n].evid = findings[l].evid
    <3>1. PICK l \in Alike(findings, Src(n)) :
            findings[l].evid # <<>> /\ findings'[n].evid = findings[l].evid
      BY <2>6
    <3>2. l \in DOMAIN findings /\ Key(findings[l]) = Key(findings[Src(n)])
      BY <1>5, <2>1 DEF Alike
    <3>3. PICK jb \in DOMAIN arrived : Copy(findings[l], jb)
      BY <1>1, <1>2, <3>2 DEF InOrder
    <3>4. arrived[jb].evid = findings'[n].evid /\ arrived[jb].evid # <<>>
      BY <3>1, <3>3 DEF Copy
    <3>5. arrived[jb] \in Owed(a)
      BY <2>4, <3>2, <3>3, TwinsAgree DEF Owed, Copy, ToSet
    <3> QED BY <3>4, <3>5 DEF Paid
  <2> QED BY <1>4, <2>5, <2>6
<1>13. AllPaid'
  <2>1. \A f \in Shipped' : \E n \in 1 .. N : f = findings'[n]
    BY <1>5 DEF Shipped, ToSet
  <2>2. \A f \in Shipped', a \in ToSet(arrived) : a.id = f.id => Paid(f, a)
    BY <1>12, <2>1
  <2>3. \A f, a : Paid(f, a)' = Paid(f, a)
    BY <1>2 DEF Paid, Owed, Denied, LikeNothing
  <2> QED BY <1>2, <2>2, <2>3 DEF AllPaid
<1> QED BY <1>7, <1>8, <1>9, <1>11, <1>13 DEF FInv

-----------------------------------------------------------------------------
Ending == {"backfill", "done"}

\* What a step after the merge owes the list: every finding keeps a twin, or
\* may go; every finding comes from one whose exchanges it keeps.
Excused(f) ==
    /\ Hygiene(f) /\ Answered(f)
    /\ \/ Disproved(f)
       \/ /\ phase' \in Ending
          /\ \E g \in Shipped' : /\ g.says = f.says /\ Answered(g)
                                 /\ Primary(g).body = Primary(f).body
Keeps ==
    /\ \A f \in Shipped :
         \/ \E g \in Shipped' : Twin(g, f) /\ Grows(g, f)
         \/ phase \notin Ending /\ Excused(f)
    /\ phase \in Ending => \A f \in Shipped : Answered(f) => f \in Shipped'
    /\ \A g \in Shipped' :
         \/ g.id = "impact"
         \/ \E f \in Shipped :
              /\ g.id = f.id
              /\ \A x \in ToSet(f.evid) : Synthetic(x) \/ x \in ToSet(g.evid)

LEMMA LateStep ==
    ASSUME FInv, phase \notin Early, UNCHANGED <<live, nowhere, arrived>>,
           phase \in Ending => phase' \in Ending, Keeps
    PROVE  AllAccounted' /\ AllPaid'
<1>1. /\ AllAccounted /\ AllPaid /\ arrived = Detected \o Later \o FromZap
      /\ \A f \in Shipped : f \in AllFindings
  BY DEF FInv, Typed, Shipped, ToSet
<1>0. \A k : OnRecord(k)' = OnRecord(k)
  BY DEF OnRecord
<1>2. ASSUME NEW k, Accounted(k) PROVE Accounted(k)'
  <2>0. OnRecord(k)' = OnRecord(k) /\ Hygiene(k)' = Hygiene(k) /\ live[k.url] \in OnRecord(k)
    BY <1>0 DEF Hygiene, OnRecord
  <2>1. CASE Hygiene(k) /\ \E p \in OnRecord(k) : Contradicts(p, k.says)
    BY <2>0, <2>1 DEF Accounted
  <2>2. CASE \E f \in Shipped : Backed(f, k)
    <3>1. PICK f \in Shipped : Backed(f, k)
      BY <2>2
    <3>2. /\ Twin(f, k) /\ f.url = k.url /\ f.says = k.says
          /\ Hygiene(f) = Hygiene(k)
      BY <3>1, TwinsAgree DEF Backed
    <3>3. CASE \E g \in Shipped' : Twin(g, f) /\ Grows(g, f)
      <4>1. PICK g \in Shipped' : Twin(g, f) /\ Grows(g, f)
        BY <3>3
      <4>2. Twin(g, k)
        BY <3>2, <4>1, TwinOfTwin
      <4>3. \A x \in ToSet(g.evid) \intersect Responses : x.page \in OnRecord(k)
        BY <2>0, <3>1, <3>2, <4>1 DEF Grows, Backed
      <4> QED BY <2>0, <4>1, <4>2, <4>3 DEF Accounted, Backed, Twin
    <3>4. CASE Excused(f)
      <4>1. Hygiene(k) /\ Primary(f) \in OnRecord(k)
        <5>1. Hygiene(k) /\ Answered(f)
          BY <3>2, <3>4 DEF Excused
        <5>2. PICK x \in ToSet(f.evid) \intersect Responses : Primary(f) = x.page
          BY <1>1, <5>1, PrimaryIs
        <5> QED BY <3>1, <5>1, <5>2 DEF Backed
      <4>2. CASE Disproved(f)
        BY <2>0, <3>2, <4>1, <4>2 DEF Accounted, Disproved
      <4>3. CASE /\ phase' \in Ending
                 /\ \E g \in Shipped' : /\ g.says = f.says /\ Answered(g)
                                        /\ Primary(g).body = Primary(f).body
        <5>1. PICK g \in Shipped' : /\ g.says = f.says /\ Answered(g)
                                   /\ Primary(g).body = Primary(f).body
          BY <4>3
        <5>2. Answered(g)' = Answered(g) /\ Primary(g)' = Primary(g)
          BY DEF Answered, Kinds, Primary
        <5> QED BY <2>0, <3>2, <4>1, <4>3, <5>1, <5>2 DEF Accounted, Ending
      <4> QED BY <3>4, <4>2, <4>3 DEF Excused
    <3> QED BY <3>3, <3>4 DEF Keeps
  <2>3. CASE /\ phase \in Ending /\ Hygiene(k)
             /\ \E f \in Shipped, p \in OnRecord(k) :
                  f.says = k.says /\ Answered(f) /\ Primary(f).body = p.body
    <3>1. PICK f \in Shipped, p \in OnRecord(k) :
            f.says = k.says /\ Answered(f) /\ Primary(f).body = p.body
      BY <2>3
    <3>2. f \in Shipped'
      BY <2>3, <3>1 DEF Keeps
    <3>3. Answered(f)' = Answered(f) /\ Primary(f)' = Primary(f)
      BY DEF Answered, Kinds, Primary
    <3> QED BY <2>0, <2>3, <3>1, <3>2, <3>3 DEF Accounted, Ending
  <2> QED BY <1>2, <2>1, <2>2, <2>3 DEF Accounted, Ending
<1>3. /\ \A a : Denied(a)' = Denied(a)
      /\ \A a, k : StandsFor(a, k)' = StandsFor(a, k)
  BY DEF Denied, LikeNothing, StandsFor
<1>4. AllAccounted'
  BY <1>1, <1>2, <1>3 DEF AllAccounted
<1>5. ASSUME NEW g \in Shipped', NEW a \in ToSet(arrived), a.id = g.id
      PROVE  Paid(g, a)'
  <2>1. a.id # "impact"
    BY <1>1, IdsAreUnique DEF ToSet
  <2>2. PICK f \in Shipped :
          /\ g.id = f.id
          /\ \A x \in ToSet(f.evid) : Synthetic(x) \/ x \in ToSet(g.evid)
    BY <1>5, <2>1 DEF Keeps
  <2>3. Paid(f, a)
    BY <1>1, <1>5, <2>2 DEF AllPaid
  <2>4. Paid(g, a)
    BY <2>2, <2>3 DEF Paid
  <2> QED BY <1>3, <2>4 DEF Paid, Owed
<1>6. AllPaid'
  BY <1>5 DEF AllPaid
<1> QED BY <1>4, <1>6

\* Findings moved to other places of the list keep their ids apart.
LEMMA OneEachKeeps ==
    ASSUME OneEach, NEW pos \in [DOMAIN findings' -> DOMAIN findings],
           \A m, n \in DOMAIN findings' : pos[m] = pos[n] => m = n,
           \A n \in DOMAIN findings' :
             /\ findings'[n].id = findings[pos[n]].id
             /\ findings[pos[n]].verified = "no" => findings'[n].verified = "no"
    PROVE  OneEach'
<1> SUFFICES ASSUME NEW m \in DOMAIN findings', NEW n \in DOMAIN findings',
                    findings'[m].id = findings'[n].id
             PROVE  \/ m = n /\ findings'[m].id # "impact"
                    \/ findings'[m].id = "impact" /\ findings'[m].verified = "no"
  BY DEF OneEach
<1>1. findings[pos[m]].id = findings[pos[n]].id
  OBVIOUS
<1>2. \/ pos[m] = pos[n] /\ findings[pos[m]].id # "impact"
      \/ findings[pos[m]].id = "impact" /\ findings[pos[m]].verified = "no"
  BY <1>1 DEF OneEach
<1> QED BY <1>2

LEMMA LateShape ==
    ASSUME phase' \notin Early
    PROVE  InPlace' /\ InOrder'
BY DEF InPlace, InOrder, Early

LEMMA AssessTurn ==
    ASSUME Typed, AssessSecrets
    PROVE  /\ findings' \in Seq(AllFindings)
           /\ DOMAIN findings \subseteq DOMAIN findings'
           /\ \A i \in DOMAIN findings : findings'[i] = findings[i]
           /\ \A i \in DOMAIN findings' :
                \/ i \in DOMAIN findings
                \/ findings'[i].id = "impact" /\ findings'[i].verified = "no"
<1> DEFINE S == {i \in DOMAIN findings : findings[i].secret}
           keys == Sublist(findings, S)
           news == [n \in DOMAIN keys |-> Assessment(keys[n])]
<1>1. findings \in Seq(AllFindings) /\ S \in SUBSET DOMAIN findings
  BY DEF Typed
<1>2. keys \in Seq(AllFindings)
  <2> HIDE DEF S
  <2> QED BY <1>1, SublistIs
<1>3. findings' = findings \o news \/ findings' = findings
  BY DEF AssessSecrets, Where
<1> HIDE DEF keys
<1>4. /\ news \in Seq(AllFindings)
      /\ \A n \in DOMAIN news : news[n].id = "impact" /\ news[n].verified = "no"
  <2>1. \A n \in DOMAIN keys : keys[n] \in AllFindings
    BY <1>2
  <2>2. \A n \in DOMAIN keys :
          /\ Assessment(keys[n]) \in AllFindings
          /\ Assessment(keys[n]).id = "impact" /\ Assessment(keys[n]).verified = "no"
    BY <2>1, AssessmentIs
  <2>3. DOMAIN keys = 1 .. Len(keys) /\ Len(keys) \in Nat
    BY <1>2
  <2> QED BY <2>2, <2>3
<1> HIDE DEF news
<1>5. CASE findings' = findings
  BY <1>1, <1>5
<1>6. CASE findings' = findings \o news
  <2> DEFINE long == findings \o news
  <2>1. findings \in Seq(AllFindings) /\ news \in Seq(AllFindings)
    BY <1>1, <1>4
  <2>2. /\ long \in Seq(AllFindings) /\ Len(long) = Len(findings) + Len(news)
        /\ \A i \in 1 .. Len(findings) : long[i] = findings[i]
        /\ \A i \in 1 .. Len(news) : long[Len(findings) + i] = news[i]
        /\ \A i \in DOMAIN long :
             i \in 1 .. Len(findings) \/ i - Len(findings) \in 1 .. Len(news)
    BY ONLY <2>1, JoinIs
  <2>3. findings' = long
    BY <1>6
  <2> HIDE DEF long
  <2>4. ASSUME NEW i \in DOMAIN long, i \notin DOMAIN findings
        PROVE  long[i].id = "impact" /\ long[i].verified = "no"
    <3>1. i - Len(findings) \in DOMAIN news /\ i = Len(findings) + (i - Len(findings))
      BY <2>1, <2>2, <2>4
    <3>2. long[i] = news[i - Len(findings)]
      BY <2>1, <2>2, <3>1
    <3> QED BY <1>4, <3>1, <3>2
  <2> QED BY <2>1, <2>2, <2>3, <2>4
<1> QED BY <1>3, <1>5, <1>6

LEMMA AssessKeeps ==
    ASSUME FInv, AssessSecrets
    PROVE  FInv'
<1>1. Typed /\ OneEach
  BY DEF FInv
<1>2. /\ phase = "secrets" /\ phase' \in {"capture", "backfill"} /\ at' = 1
      /\ UNCHANGED <<live, nowhere, arrived>>
  BY FindingsAssumption DEF AssessSecrets
<1>3. /\ findings' \in Seq(AllFindings)
      /\ DOMAIN findings \subseteq DOMAIN findings'
      /\ \A i \in DOMAIN findings : findings'[i] = findings[i]
      /\ \A i \in DOMAIN findings' :
           \/ i \in DOMAIN findings
           \/ findings'[i].id = "impact" /\ findings'[i].verified = "no"
  BY <1>1, AssessTurn
<1>4. Typed'
  BY <1>1, <1>2, <1>3 DEF Typed, Phases, Early
<1>5. OneEach'
  BY <1>1, <1>3 DEF OneEach
<1>6. Keeps
  <2>1. \A f \in Shipped : f \in Shipped' /\ Twin(f, f) /\ Grows(f, f)
    BY <1>3 DEF Shipped, ToSet, Twin, Grows
  <2>2. \A g \in Shipped' : g.id = "impact" \/ g \in Shipped
    BY <1>3 DEF Shipped, ToSet
  <2> QED BY <2>1, <2>2 DEF Keeps
<1>7. phase \notin Early /\ phase \notin Ending /\ phase' \notin Early
  BY <1>2 DEF Early, Ending
<1>8. InPlace' /\ InOrder' /\ Filled'
  BY <1>2, <1>7, LateShape DEF Filled
<1>9. AllAccounted' /\ AllPaid'
  BY <1>2, <1>6, <1>7, LateStep
<1> QED BY <1>4, <1>5, <1>8, <1>9 DEF FInv

\* A turn of the capture changes at most one finding, and adds to it.
LEMMA CaptureTurn ==
    ASSUME Typed, CaptureNext
    PROVE  /\ findings' \in Seq(AllFindings) /\ DOMAIN findings' = DOMAIN findings
           /\ \A i \in DOMAIN findings :
                /\ Twin(findings'[i], findings[i])
                /\ findings'[i].verified = findings[i].verified
                /\ \A x \in ToSet(findings[i].evid) :
                     Synthetic(x) \/ x \in ToSet(findings'[i].evid)
                /\ Grows(findings'[i], findings[i])
<1>1. /\ findings \in Seq(AllFindings) /\ at \in DOMAIN findings
      /\ live \in [Urls -> Pages]
  BY DEF Typed, CaptureNext
<1> DEFINE g == Captured(findings[at])
<1>2. findings' = findings \/ findings' = [findings EXCEPT ![at] = g]
  BY DEF CaptureNext
<1>3. /\ g \in AllFindings /\ Twin(g, findings[at])
      /\ g.verified = findings[at].verified
      /\ \A x \in ToSet(findings[at].evid) : Synthetic(x) \/ x \in ToSet(g.evid)
      /\ Grows(g, findings[at])
  BY <1>1, CapturedKeeps
<1> HIDE DEF g
<1>4. CASE findings' = findings
  BY <1>1, <1>4 DEF Twin, Grows
<1>5. CASE findings' = [findings EXCEPT ![at] = g]
  <2>1. findings' \in Seq(AllFindings) /\ DOMAIN findings' = DOMAIN findings
    BY <1>1, <1>3, <1>5
  <2>2. ASSUME NEW i \in DOMAIN findings
        PROVE  /\ Twin(findings'[i], findings[i])
               /\ findings'[i].verified = findings[i].verified
               /\ \A x \in ToSet(findings[i].evid) :
                    Synthetic(x) \/ x \in ToSet(findings'[i].evid)
               /\ Grows(findings'[i], findings[i])
    <3>1. CASE i = at
      BY <1>1, <1>3, <1>5, <3>1
    <3>2. CASE i # at
      <4>1. findings'[i] = findings[i]
        BY <1>5, <3>2
      <4> QED BY <4>1 DEF Twin, Grows
    <3> QED BY <3>1, <3>2
  <2> QED BY <2>1, <2>2
<1> QED BY <1>2, <1>4, <1>5

\* A step that touches no more than verdict and evidence, in place.
LEMMA InPlaceKeeps ==
    ASSUME findings' \in Seq(AllFindings), DOMAIN findings' = DOMAIN findings,
           OneEach,
           \A i \in DOMAIN findings :
             /\ Twin(findings'[i], findings[i])
             /\ findings'[i].verified = findings[i].verified
             /\ \A x \in ToSet(findings[i].evid) :
                  Synthetic(x) \/ x \in ToSet(findings'[i].evid)
             /\ Grows(findings'[i], findings[i])
             /\ phase \in Ending /\ Answered(findings[i])
                  => findings'[i] = findings[i]
    PROVE  OneEach' /\ Keeps
<1>1. OneEach'
  BY DEF OneEach, Twin
<1>2. \A i \in DOMAIN findings : findings[i] \in Shipped /\ findings'[i] \in Shipped'
  BY DEF Shipped, ToSet
<1>3. \A f \in Shipped : \E i \in DOMAIN findings : f = findings[i]
  BY DEF Shipped, ToSet
<1>4. \A g \in Shipped' : \E i \in DOMAIN findings : g = findings'[i]
  BY DEF Shipped, ToSet
<1>5. /\ \A f \in Shipped : \E g \in Shipped' : Twin(g, f) /\ Grows(g, f)
      /\ phase \in Ending => \A f \in Shipped : Answered(f) => f \in Shipped'
  BY <1>2, <1>3
<1>6. \A g \in Shipped' : \E f \in Shipped :
        /\ g.id = f.id
        /\ \A x \in ToSet(f.evid) : Synthetic(x) \/ x \in ToSet(g.evid)
  BY <1>2, <1>4 DEF Twin
<1> QED BY <1>1, <1>5, <1>6 DEF Keeps

LEMMA CaptureKeeps ==
    ASSUME FInv, CaptureNext
    PROVE  FInv'
<1>1. Typed /\ OneEach
  BY DEF FInv
<1>2. /\ phase = "capture" /\ phase' = "capture" /\ at' = at + 1
      /\ UNCHANGED <<live, nowhere, arrived>>
  BY DEF CaptureNext
<1>3. Typed'
  BY <1>1, <1>2, CaptureTurn DEF Typed
<1>4. OneEach' /\ Keeps
  BY <1>1, <1>2, CaptureTurn, InPlaceKeeps DEF Ending
<1>5. phase \notin Early /\ phase \notin Ending /\ phase' \notin Early
  BY <1>2 DEF Early, Ending
<1>6. InPlace' /\ InOrder' /\ Filled'
  BY <1>2, <1>5, LateShape DEF Filled
<1>7. AllAccounted' /\ AllPaid'
  BY <1>2, <1>4, <1>5, LateStep
<1> QED BY <1>3, <1>4, <1>6, <1>7 DEF FInv

LEMMA RaisesKeeps ==
    ASSUME FInv, CaptureRaises
    PROVE  FInv'
<1>1. Typed /\ OneEach
  BY DEF FInv
<1>2. /\ phase = "capture" /\ phase' = "backfill" /\ at' = 1
      /\ UNCHANGED <<live, nowhere, findings, arrived>>
  BY DEF CaptureRaises
<1>3. Typed' /\ OneEach'
  BY <1>1, <1>2 DEF Typed, OneEach, Phases, Early
<1>4. Keeps
  BY <1>2 DEF Keeps, Shipped, Twin, Grows
<1>5. phase \notin Early /\ phase \notin Ending /\ phase' \notin Early
  BY <1>2 DEF Early, Ending
<1>6. InPlace' /\ InOrder' /\ Filled'
  BY <1>2, <1>5, LateShape DEF Filled
<1>7. AllAccounted' /\ AllPaid'
  BY <1>2, <1>4, <1>5, LateStep
<1> QED BY <1>3, <1>6, <1>7 DEF FInv

LEMMA BackfillTurn ==
    ASSUME Typed, Backfill
    PROVE  /\ findings' \in Seq(AllFindings) /\ DOMAIN findings' = DOMAIN findings
           /\ \A i \in DOMAIN findings :
                /\ Twin(findings'[i], findings[i])
                /\ findings'[i].verified = findings[i].verified
                /\ findings'[i].evid # <<>>
                /\ \A x \in ToSet(findings[i].evid) : x \in ToSet(findings'[i].evid)
                /\ Grows(findings'[i], findings[i])
                /\ Answered(findings[i]) => findings'[i] = findings[i]
<1>1. /\ findings \in Seq(AllFindings)
      /\ DOMAIN findings = 1 .. Len(findings) /\ Len(findings) \in Nat
  BY DEF Typed
<1>2. findings' = [n \in DOMAIN findings |-> Backfilled(findings[n])]
  BY DEF Backfill
<1>3. ASSUME NEW i \in DOMAIN findings
      PROVE  /\ findings'[i] \in AllFindings /\ Twin(findings'[i], findings[i])
             /\ findings'[i].verified = findings[i].verified
             /\ findings'[i].evid # <<>>
             /\ \A x \in ToSet(findings[i].evid) : x \in ToSet(findings'[i].evid)
             /\ Grows(findings'[i], findings[i])
             /\ Answered(findings[i]) => findings'[i] = findings[i]
  <2>1. findings[i] \in AllFindings /\ findings'[i] = Backfilled(findings[i])
    BY <1>1, <1>2
  <2> QED BY <2>1, BackfilledKeeps
<1>4. findings' \in Seq(AllFindings) /\ DOMAIN findings' = DOMAIN findings
  <2>1. \A n \in DOMAIN findings : Backfilled(findings[n]) \in AllFindings
    BY <1>2, <1>3
  <2> QED BY <1>1, <1>2, <2>1
<1> QED BY <1>3, <1>4

LEMMA BackfillKeeps ==
    ASSUME FInv, Backfill
    PROVE  FInv'
<1>1. Typed /\ OneEach
  BY DEF FInv
<1>2. /\ phase = "backfill" /\ phase' = "done"
      /\ UNCHANGED <<live, nowhere, at, arrived>>
  BY DEF Backfill
<1>3. Typed'
  BY <1>1, <1>2, BackfillTurn DEF Typed, Phases
<1>4. OneEach' /\ Keeps
  BY <1>1, BackfillTurn, InPlaceKeeps
<1>5. phase \notin Early /\ phase' \notin Early /\ phase' \in Ending
  BY <1>2 DEF Early, Ending
<1>6. Filled'
  BY <1>1, BackfillTurn DEF Filled, Shipped, ToSet
<1>7. AllAccounted' /\ AllPaid'
  BY <1>2, <1>4, <1>5, LateStep
<1> QED BY <1>3, <1>4, <1>5, <1>6, <1>7, LateShape DEF FInv

\* The header gate drops what the page disproves, and takes a proof back only
\* where there was no response to look at.
LEMMA GateTurn ==
    ASSUME Typed, GateHeaders
    PROVE  LET S == {i \in DOMAIN findings : ~Gated(findings[i])}
               N == Cardinality(S)
           IN  /\ findings' \in Seq(AllFindings) /\ Len(findings') = N /\ N \in Nat
               /\ \A n \in 1 .. N :
                    LET f == findings[Nth(S, n)]
                        g == findings'[n]
                    IN  /\ Nth(S, n) \in S /\ Twin(g, f) /\ g.evid = f.evid
                        /\ f.verified = "no" => g.verified = "no"
                        /\ f.verified = "yes" /\ g.verified # "yes"
                             => Hygiene(f) /\ ~Answered(f) /\ g.verified = "none"
               /\ \A m, n \in 1 .. N : m < n => Nth(S, m) < Nth(S, n)
               /\ \A i \in S : \E n \in 1 .. N : Nth(S, n) = i
<1> DEFINE S == {i \in DOMAIN findings : ~Gated(findings[i])}
           N == Cardinality(S)
           kept == Sublist(findings, S)
<1>1. findings \in Seq(AllFindings) /\ S \in SUBSET DOMAIN findings
  BY DEF Typed
<1>2. findings' = [n \in DOMAIN kept |-> Unproven(kept[n])]
  BY DEF GateHeaders, Where
<1> HIDE DEF S
<1>3. /\ kept \in Seq(AllFindings) /\ Len(kept) = N /\ N \in Nat
      /\ \A n \in 1 .. N : Nth(S, n) \in S /\ kept[n] = findings[Nth(S, n)]
      /\ \A m, n \in 1 .. N : m < n => Nth(S, m) < Nth(S, n)
      /\ \A i \in S : \E n \in 1 .. N : Nth(S, n) = i
  BY <1>1, SublistIs
<1> HIDE DEF kept
<1>4. DOMAIN kept = 1 .. N /\ \A n \in 1 .. N : kept[n] \in AllFindings
  BY <1>3
<1>5. ASSUME NEW n \in 1 .. N
      PROVE  LET f == findings[Nth(S, n)]
                 g == findings'[n]
             IN  /\ g \in AllFindings
                 /\ Nth(S, n) \in S /\ Twin(g, f) /\ g.evid = f.evid
                 /\ f.verified = "no" => g.verified = "no"
                 /\ f.verified = "yes" /\ g.verified # "yes"
                      => Hygiene(f) /\ ~Answered(f) /\ g.verified = "none"
  <2>1. /\ findings'[n] = Unproven(findings[Nth(S, n)]) /\ Nth(S, n) \in S
        /\ findings[Nth(S, n)] \in AllFindings
    BY <1>2, <1>3, <1>4
  <2> QED BY <2>1, UnprovenKeeps
<1>6. findings' \in Seq(AllFindings) /\ Len(findings') = N
  <2>1. DOMAIN findings' = 1 .. N /\ \A n \in 1 .. N : findings'[n] \in AllFindings
    BY <1>2, <1>4, <1>5
  <2>2. findings' = [n \in 1 .. N |-> findings'[n]]
    BY <1>2, <1>4
  <2> QED BY <1>3, <2>1, <2>2
<1> QED BY <1>3, <1>5, <1>6 DEF S

LEMMA GateKeeps ==
    ASSUME FInv, GateHeaders
    PROVE  FInv'
<1>1. Typed /\ OneEach
  BY DEF FInv
<1>2. /\ phase = "capture" /\ phase' = "shell"
      /\ UNCHANGED <<live, nowhere, at, arrived>>
  BY DEF GateHeaders
<1> DEFINE S == {i \in DOMAIN findings : ~Gated(findings[i])}
           N == Cardinality(S)
           Src(n) == Nth(S, n)
<1>3. /\ findings' \in Seq(AllFindings) /\ Len(findings') = N /\ N \in Nat
      /\ \A n \in 1 .. N :
           /\ Src(n) \in S /\ Twin(findings'[n], findings[Src(n)])
           /\ findings'[n].evid = findings[Src(n)].evid
           /\ findings[Src(n)].verified = "no" => findings'[n].verified = "no"
      /\ \A m, n \in 1 .. N : m < n => Src(m) < Src(n)
      /\ \A i \in S : \E n \in 1 .. N : Src(n) = i
  BY <1>1, GateTurn
<1>4. /\ S \subseteq DOMAIN findings /\ DOMAIN findings \subseteq Nat
      /\ \A i \in DOMAIN findings \ S : Gated(findings[i])
      /\ DOMAIN findings' = 1 .. N
  BY <1>1, <1>3 DEF Typed
<1> HIDE DEF S, N, Src
<1>5. Typed'
  BY <1>1, <1>2, <1>3 DEF Typed, Phases
<1>6. OneEach'
  <2> DEFINE pos == [n \in DOMAIN findings' |-> Src(n)]
  <2>1. pos \in [DOMAIN findings' -> DOMAIN findings]
    BY <1>3, <1>4
  <2>2. ASSUME NEW m \in DOMAIN findings', NEW n \in DOMAIN findings', pos[m] = pos[n]
        PROVE  m = n
    <3>1. Src(m) = Src(n) /\ Src(m) \in Nat /\ m \in 1 .. N /\ n \in 1 .. N
      BY <1>3, <1>4, <2>2
    <3>2. ~ (m < n) /\ ~ (n < m)
      BY <1>3, <3>1
    <3> QED BY <1>3, <3>1, <3>2
  <2>3. \A n \in DOMAIN findings' :
          /\ findings'[n].id = findings[pos[n]].id
          /\ findings[pos[n]].verified = "no" => findings'[n].verified = "no"
    BY <1>3, <1>4 DEF Twin
  <2> HIDE DEF pos
  <2> QED BY <1>1, <2>1, <2>2, <2>3, OneEachKeeps
<1>7. Keeps
  <2>1. ASSUME NEW f \in Shipped
        PROVE  \/ \E g \in Shipped' : Twin(g, f) /\ g.evid = f.evid
               \/ Hygiene(f) /\ Answered(f) /\ Disproved(f)
    <3>1. PICK i \in DOMAIN findings : f = findings[i]
      BY DEF Shipped, ToSet
    <3>2. CASE i \in S
      <4>1. PICK n \in 1 .. N : Src(n) = i
        BY <1>3, <3>2
      <4>2. findings'[n] \in Shipped'
        BY <1>4 DEF Shipped, ToSet
      <4> QED BY <1>3, <3>1, <4>1, <4>2
    <3>3. CASE i \notin S
      BY <1>4, <3>1, <3>3 DEF Gated
    <3> QED BY <3>2, <3>3
  <2>2. ASSUME NEW g \in Shipped'
        PROVE  \E f \in Shipped : g.id = f.id /\ g.evid = f.evid
    <3>1. PICK n \in 1 .. N : g = findings'[n]
      BY <1>4 DEF Shipped, ToSet
    <3>2. findings[Src(n)] \in Shipped
      BY <1>3, <1>4 DEF Shipped, ToSet
    <3> QED BY <1>3, <3>1, <3>2 DEF Twin
  <2>3. \A f, g : g.evid = f.evid => Grows(g, f)
    BY DEF Grows
  <2> QED BY <1>2, <2>1, <2>2, <2>3 DEF Keeps, Excused, Ending
<1>8. phase \notin Early /\ phase \notin Ending /\ phase' \notin Early
  BY <1>2 DEF Early, Ending
<1>9. InPlace' /\ InOrder' /\ Filled'
  BY <1>2, <1>8, LateShape DEF Filled
<1>10. AllAccounted' /\ AllPaid'
  BY <1>2, <1>7, <1>8, LateStep
<1> QED BY <1>5, <1>6, <1>9, <1>10 DEF FInv

\* The first of a group leads it.
LEMMA GroupHasLeader ==
    ASSUME findings \in Seq(AllFindings), NEW i \in DOMAIN findings,
           Groupable(findings[i])
    PROVE  \E m \in DOMAIN findings :
             /\ Groupable(findings[m]) /\ Group(findings[m]) = Group(findings[i])
             /\ Leads(findings, m)
<1> DEFINE mates == {m \in DOMAIN findings : /\ Groupable(findings[m])
                                             /\ Group(findings[m]) = Group(findings[i])}
<1>0. DOMAIN findings = 1 .. Len(findings) /\ Len(findings) \in Nat
  OBVIOUS
<1>1. PICK m \in mates : \A l \in mates : m <= l
  <2>1. mates \subseteq Nat /\ i \in mates
    BY <1>0
  <2> HIDE DEF mates
  <2> QED BY <2>1, Least
<1>2. /\ m \in DOMAIN findings /\ Groupable(findings[m])
      /\ Group(findings[m]) = Group(findings[i])
  OBVIOUS
<1>3. Leads(findings, m)
  <2> SUFFICES ASSUME NEW l \in 1 .. m - 1, Groupable(findings[l]),
                      Group(findings[l]) = Group(findings[m])
               PROVE  FALSE
    BY DEF Leads
  <2>1. l \in DOMAIN findings /\ l < m
    BY <1>0, <1>2
  <2>2. l \in mates
    BY <1>2, <2>1
  <2> HIDE DEF mates
  <2> QED BY <1>0, <1>1, <1>2, <2>1, <2>2
<1> QED BY <1>2, <1>3

\* The shell dedup moves findings, and leaves out only those whose group has
\* a leader.
LEMMA ShellTurn ==
    ASSUME Typed, DedupShell
    PROVE  /\ findings' \in Seq(AllFindings)
           /\ \E pos \in [DOMAIN findings' -> DOMAIN findings] :
                /\ \A m, n \in DOMAIN findings' : pos[m] = pos[n] => m = n
                /\ \A n \in DOMAIN findings' : findings'[n] = findings[pos[n]]
                /\ \A i \in DOMAIN findings :
                     \/ ~Groupable(findings[i])
                     \/ Leads(findings, i)
                     => \E n \in DOMAIN findings' : pos[n] = i
<1> DEFINE A == {i \in DOMAIN findings : ~Groupable(findings[i])}
           R == {i \in DOMAIN findings : Groupable(findings[i]) /\ Leads(findings, i)}
           a == Sublist(findings, A)
           r == Sublist(findings, R)
           p == Cardinality(A)
           q == Cardinality(R)
<1>1. /\ findings \in Seq(AllFindings) /\ DOMAIN findings \subseteq Nat
      /\ A \in SUBSET DOMAIN findings /\ R \in SUBSET DOMAIN findings
      /\ A \intersect R = {}
      /\ \A i \in DOMAIN findings :
           (~Groupable(findings[i]) \/ Leads(findings, i)) => i \in A \union R
  BY DEF Typed
<1>2. findings' = a \o r
  BY DEF DedupShell, Where
<1> HIDE DEF A, R
<1>3. /\ a \in Seq(AllFindings) /\ Len(a) = p /\ p \in Nat
      /\ \A n \in 1 .. p : Nth(A, n) \in A /\ a[n] = findings[Nth(A, n)]
      /\ \A m, n \in 1 .. p : m < n => Nth(A, m) < Nth(A, n)
      /\ \A i \in A : \E n \in 1 .. p : Nth(A, n) = i
  BY <1>1, SublistIs
<1>4. /\ r \in Seq(AllFindings) /\ Len(r) = q /\ q \in Nat
      /\ \A n \in 1 .. q : Nth(R, n) \in R /\ r[n] = findings[Nth(R, n)]
      /\ \A m, n \in 1 .. q : m < n => Nth(R, m) < Nth(R, n)
      /\ \A i \in R : \E n \in 1 .. q : Nth(R, n) = i
  BY <1>1, SublistIs
<1> HIDE DEF a, r, p, q
<1>5. /\ findings' \in Seq(AllFindings) /\ Len(findings') = p + q
      /\ \A i \in 1 .. p : findings'[i] = a[i]
      /\ \A i \in 1 .. q : findings'[p + i] = r[i]
      /\ \A i \in DOMAIN findings' : i \in 1 .. p \/ i - p \in 1 .. q
  <2> DEFINE long == a \o r
  <2>1. a \in Seq(AllFindings) /\ r \in Seq(AllFindings)
    BY <1>3, <1>4
  <2>2. /\ long \in Seq(AllFindings) /\ Len(long) = Len(a) + Len(r)
        /\ \A i \in 1 .. Len(a) : long[i] = a[i]
        /\ \A i \in 1 .. Len(r) : long[Len(a) + i] = r[i]
        /\ \A i \in DOMAIN long : i \in 1 .. Len(a) \/ i - Len(a) \in 1 .. Len(r)
    BY ONLY <2>1, JoinIs
  <2>3. findings' = long
    BY <1>2
  <2> HIDE DEF long
  <2> QED BY <1>3, <1>4, <2>2, <2>3
<1> DEFINE Src(n) == IF n \in 1 .. p THEN Nth(A, n) ELSE Nth(R, n - p)
           pos == [n \in DOMAIN findings' |-> Src(n)]
<1>6. ASSUME NEW n \in DOMAIN findings'
      PROVE  Src(n) \in DOMAIN findings /\ findings'[n] = findings[Src(n)]
  <2>1. CASE n \in 1 .. p
    BY <1>1, <1>3, <1>5, <2>1
  <2>2. CASE n \notin 1 .. p
    <3>1. PICK k \in 1 .. q : n = p + k /\ k = n - p
      <4>1. n - p \in 1 .. q /\ n = p + (n - p)
        BY <1>3, <1>4, <1>5, <2>2
      <4> QED BY <4>1
    <3>2. Src(n) = Nth(R, k)
      BY <2>2, <3>1
    <3>3. findings'[n] = r[k]
      BY <1>5, <3>1
    <3> QED BY <1>1, <1>4, <3>2, <3>3
  <2> QED BY <2>1, <2>2
<1>7. ASSUME NEW m \in DOMAIN findings', NEW n \in DOMAIN findings', Src(m) = Src(n)
      PROVE  m = n
  <2>0. m \in Nat /\ n \in Nat
    BY <1>5
  <2>1. CASE m \in 1 .. p /\ n \in 1 .. p
    <3>1. Nth(A, m) = Nth(A, n) /\ Nth(A, m) \in Nat
      BY <1>1, <1>3, <1>7, <2>1
    <3>2. ~ (m < n) /\ ~ (n < m)
      BY <1>3, <2>1, <3>1
    <3> QED BY <2>0, <3>2
  <2>2. CASE m \notin 1 .. p /\ n \notin 1 .. p
    <3>1. m - p \in 1 .. q /\ n - p \in 1 .. q
      BY <1>5, <2>2
    <3>2. Nth(R, m - p) = Nth(R, n - p)
      BY <1>7, <2>2
    <3>3. Nth(R, m - p) \in Nat
      BY <1>1, <1>4, <3>1
    <3>4. ~ (m - p < n - p) /\ ~ (n - p < m - p)
      BY <1>4, <3>1, <3>2, <3>3
    <3> QED BY <1>3, <2>0, <3>4
  <2>3. ASSUME NEW k \in DOMAIN findings', NEW l \in DOMAIN findings',
               k \in 1 .. p, l \notin 1 .. p
        PROVE  Src(k) # Src(l)
    <3>1. Src(k) \in A
      BY <1>3, <2>3
    <3>2. l - p \in 1 .. q
      BY <1>5, <2>3
    <3>3. Src(l) \in R
      BY <1>4, <2>3, <3>2
    <3> HIDE DEF Src
    <3> QED BY <1>1, <3>1, <3>3
  <2> HIDE DEF Src
  <2> QED BY <1>7, <2>1, <2>2, <2>3
<1>8. ASSUME NEW i \in A \union R
      PROVE  \E n \in DOMAIN findings' : Src(n) = i
  <2>1. CASE i \in A
    <3>1. PICK n \in 1 .. p : Nth(A, n) = i
      BY <1>3, <2>1
    <3>2. n \in DOMAIN findings'
      BY <1>3, <1>4, <1>5
    <3> QED BY <3>1, <3>2
  <2>2. CASE i \in R
    <3>1. PICK k \in 1 .. q : Nth(R, k) = i
      BY <1>4, <2>2
    <3>2. p + k \in DOMAIN findings' /\ p + k \notin 1 .. p /\ (p + k) - p = k
      BY <1>3, <1>4, <1>5
    <3>3. Src(p + k) = i
      BY <3>1, <3>2
    <3> QED BY <3>2, <3>3
  <2> QED BY <1>8, <2>1, <2>2
<1> HIDE DEF Src
<1>9. pos \in [DOMAIN findings' -> DOMAIN findings]
  BY <1>6
<1>10. \A n \in DOMAIN findings' : pos[n] = Src(n)
  OBVIOUS
<1> HIDE DEF pos
<1>11. \A m, n \in DOMAIN findings' : pos[m] = pos[n] => m = n
  BY <1>7, <1>10
<1>12. \A n \in DOMAIN findings' : findings'[n] = findings[pos[n]]
  BY <1>6, <1>10
<1>13. \A i \in DOMAIN findings :
         \/ ~Groupable(findings[i])
         \/ Leads(findings, i)
         => \E n \in DOMAIN findings' : pos[n] = i
  BY <1>1, <1>8, <1>10
<1> QED BY <1>5, <1>9, <1>11, <1>12, <1>13

LEMMA ShellKeeps ==
    ASSUME FInv, DedupShell
    PROVE  FInv'
<1>1. Typed /\ OneEach
  BY DEF FInv
<1>2. /\ phase = "shell" /\ phase' = "backfill"
      /\ UNCHANGED <<live, nowhere, at, arrived>>
  BY DEF DedupShell
<1>3. PICK pos \in [DOMAIN findings' -> DOMAIN findings] :
        /\ \A m, n \in DOMAIN findings' : pos[m] = pos[n] => m = n
        /\ \A n \in DOMAIN findings' : findings'[n] = findings[pos[n]]
        /\ \A i \in DOMAIN findings :
             \/ ~Groupable(findings[i])
             \/ Leads(findings, i)
             => \E n \in DOMAIN findings' : pos[n] = i
  BY <1>1, ShellTurn
<1>4. /\ findings \in Seq(AllFindings) /\ DOMAIN findings \subseteq Nat
      /\ DOMAIN findings = 1 .. Len(findings)
  BY <1>1 DEF Typed
<1>5. Typed'
  BY <1>1, <1>2, ShellTurn DEF Typed, Phases
<1>6. OneEach'
  BY <1>1, <1>3, OneEachKeeps
<1>7. \A i \in DOMAIN findings :
        \/ ~Groupable(findings[i])
        \/ Leads(findings, i)
        => findings[i] \in Shipped'
  BY <1>3 DEF Shipped, ToSet
<1>8. ASSUME NEW i \in DOMAIN findings, Groupable(findings[i])
      PROVE  \E g \in Shipped' :
               /\ g.says = findings[i].says /\ Answered(g)
               /\ Primary(g).body = Primary(findings[i]).body
  <2>1. PICK m \in DOMAIN findings : /\ Groupable(findings[m])
                                    /\ Group(findings[m]) = Group(findings[i])
                                    /\ Leads(findings, m)
    BY <1>4, <1>8, GroupHasLeader
  <2>2. Answered(findings[m])
    BY <2>1 DEF Groupable
  <2>4. findings[m] \in Shipped'
    BY <1>7, <2>1
  <2> QED BY <2>1, <2>2, <2>4 DEF Group
<1>9. Keeps
  <2>1. ASSUME NEW f \in Shipped
        PROVE  (\E g \in Shipped' : Twin(g, f) /\ Grows(g, f)) \/ Excused(f)
    <3>1. PICK i \in DOMAIN findings : f = findings[i]
      BY DEF Shipped, ToSet
    <3>2. CASE Groupable(f)
      BY <1>2, <1>8, <3>1, <3>2 DEF Excused, Groupable, Ending
    <3>3. CASE ~Groupable(f)
      BY <1>7, <3>1, <3>3 DEF Twin, Grows
    <3> QED BY <3>2, <3>3
  <2>2. \A g \in Shipped' : g \in Shipped
    BY <1>3 DEF Shipped, ToSet
  <2> QED BY <1>2, <2>1, <2>2 DEF Keeps, Ending
<1>10. phase \notin Early /\ phase \notin Ending /\ phase' \notin Early
  BY <1>2 DEF Early, Ending
<1>11. InPlace' /\ InOrder' /\ Filled'
  BY <1>2, <1>10, LateShape DEF Filled
<1>12. AllAccounted' /\ AllPaid'
  BY <1>2, <1>9, <1>10, LateStep
<1> QED BY <1>5, <1>6, <1>11, <1>12 DEF FInv

-----------------------------------------------------------------------------
LEMMA FInvStep == FInv /\ [Next]_vars => FInv'
<1> SUFFICES ASSUME FInv, [Next]_vars PROVE FInv'
  OBVIOUS
<1>1. CASE UNCHANGED vars
  <2>1. /\ UNCHANGED <<live, nowhere, phase, at, findings, arrived>>
        /\ Shipped' = Shipped
    BY <1>1 DEF vars, Shipped
  <2>2. /\ \A f, j : Copy(f, j)' = Copy(f, j)
        /\ \A a : Denied(a)' = Denied(a) /\ Accounted(a)' = Accounted(a)
        /\ \A a, k : StandsFor(a, k)' = StandsFor(a, k)
        /\ \A f, a : Paid(f, a)' = Paid(f, a)
    BY <2>1 DEF Copy, Denied, LikeNothing, Accounted, Backed, OnRecord,
                StandsFor, Paid, Owed
  <2>3. (Typed /\ InPlace /\ InOrder /\ OneEach)'
    BY <2>1, <2>2 DEF FInv, Typed, InPlace, InOrder, OneEach
  <2>4. (AllAccounted /\ AllPaid /\ Filled)'
    BY <2>1, <2>2 DEF FInv, AllAccounted, AllPaid, Filled
  <2> QED BY <2>3, <2>4 DEF FInv
<1>2. CASE VerifyNext
  BY <1>2, VerifyKeeps
<1>3. CASE LaterStages
  BY <1>3, LaterKeeps
<1>4. CASE ZapScan
  BY <1>4, ZapKeeps
<1>5. CASE Merge
  BY <1>5, MergeKeeps
<1>6. CASE AssessSecrets
  BY <1>6, AssessKeeps
<1>7. CASE CaptureNext
  BY <1>7, CaptureKeeps
<1>8. CASE CaptureRaises
  BY <1>8, RaisesKeeps
<1>9. CASE GateHeaders
  BY <1>9, GateKeeps
<1>10. CASE DedupShell
  BY <1>10, ShellKeeps
<1>11. CASE Backfill
  BY <1>11, BackfillKeeps
<1> QED BY <1>1, <1>2, <1>3, <1>4, <1>5, <1>6, <1>7, <1>8, <1>9, <1>10, <1>11
        DEF Next

THEOREM PipelineInvariance == Spec => []FInv
BY InitFInv, FInvStep, PTL DEF Spec

\* No finding ships without a request/response block: whatever raised or was
\* lost on the way, Backfill has been over the whole list.
THEOREM EveryFindingHasAProof == Spec => []ShippedWithProof
<1>1. FInv => ShippedWithProof
  BY DEF FInv, Filled, ShippedWithProof, Done
<1> QED BY <1>1, PipelineInvariance, PTL

\* Merge, header gate and shell dedup lose nothing that was raised, but for
\* what the application's own page speaks against.
THEOREM EveryFindingIsAccounted == Spec => []NothingIsLost
<1>1. FInv => NothingIsLost
  <2> SUFFICES ASSUME FInv, Done, NEW a \in ToSet(arrived), ~Denied(a)
               PROVE  \E k \in ToSet(arrived) :
                        /\ StandsFor(a, k)
                        /\ \/ \E f \in Shipped : f.id = k.id
                           \/ /\ Hygiene(k)
                              /\ \E p \in OnRecord(k) :
                                   \/ Contradicts(p, k.says)
                                   \/ \E f \in Shipped :
                                        /\ f.says = k.says /\ Answered(f)
                                        /\ Primary(f).body = p.body
    BY DEF NothingIsLost
  <2>1. PICK k \in ToSet(arrived) : StandsFor(a, k) /\ Accounted(k)
    BY DEF FInv, AllAccounted, Done, Early
  <2> QED BY <2>1 DEF Accounted, Backed, Twin
<1> QED BY <1>1, PipelineInvariance, PTL

\* Merge, capture, gate and dedup leave a detector's own exchanges in the
\* finding that is reported.
THEOREM DetectorProofStays == Spec => []NativeProofSurvives
<1>1. FInv => NativeProofSurvives
  BY DEF FInv, AllPaid, Paid, Owed, NativeProofSurvives, Done, Early
<1> QED BY <1>1, PipelineInvariance, PTL

\* A step on a proved finding that leaves it in the list, and proved.
LEMMA StaysHere ==
    ASSUME NEW f, f.verified = "yes",
           \E n \in DOMAIN findings' :
             findings'[n].id = f.id /\ findings'[n].verified = "yes"
    PROVE  StaysAs(f, "yes")
BY DEF StaysAs, ToSet

LEMMA ProvenStep ==
    ASSUME FInv, Next, NEW f \in Shipped, f.verified = "yes"
    PROVE  \/ StaysAs(f, "yes")
           \/ YieldsInMerge(f) \/ YieldsAtGate(f) \/ YieldsInDedup(f)
<1>1. Typed /\ findings \in Seq(AllFindings) /\ f \in AllFindings
  BY DEF FInv, Typed, Shipped, ToSet
<1>2. PICK i \in DOMAIN findings : f = findings[i]
  BY DEF Shipped, ToSet
<1>3. CASE \E n \in DOMAIN findings' :
             findings'[n].id = f.id /\ findings'[n].verified = "yes"
  BY <1>3, StaysHere
<1>4. CASE VerifyNext
  <2>1. PICK h \in AllFindings :
          /\ findings' = [findings EXCEPT ![at] = h] /\ h.id = findings[at].id
          /\ findings[at].verified = "yes" => h.verified = "yes"
    BY <1>1, <1>4, VerifyTurn DEF Twin
  <2>2. at \in DOMAIN findings
    BY <1>1, <1>4, VerifyTurn
  <2>3. /\ i \in DOMAIN findings'
        /\ findings'[i].id = f.id /\ findings'[i].verified = "yes"
    BY <1>2, <2>1, <2>2
  <2> QED BY <1>3, <2>3
<1>5. CASE LaterStages \/ ZapScan
  <2>1. PICK t \in Seq(AllFindings) : findings' = findings \o t
    <3>1. CASE LaterStages
      BY <3>1, FindingsAssumption DEF LaterStages
    <3>2. CASE ZapScan
      BY <3>2, ZapTurn, SublistIs, FindingsAssumption
    <3> QED BY <1>5, <3>1, <3>2
  <2>2. i \in DOMAIN findings' /\ findings'[i] = findings[i]
    BY <1>1, <2>1
  <2> QED BY <1>2, <1>3, <2>2
<1>6. CASE AssessSecrets
  BY <1>1, <1>2, <1>3, <1>6, AssessTurn
<1>7. CASE Merge
  <2> DEFINE K == {l \in DOMAIN findings : FirstOf(findings, l)}
  <2>1. ASSUME NEW l \in K
        PROVE  \E n \in DOMAIN findings' :
                 /\ findings'[n].id = findings[l].id
                 /\ findings'[n].verified = findings[l].verified
    <3>1. PICK n \in 1 .. Cardinality(K) : Nth(K, n) = l
      BY <1>1, <1>7, MergeTurn
    <3>2. /\ n \in DOMAIN findings' /\ Twin(findings'[n], findings[Nth(K, n)])
          /\ findings'[n].verified = findings[Nth(K, n)].verified
      BY <1>1, <1>7, MergeTurn
    <3> QED BY <3>1, <3>2 DEF Twin
  <2>2. CASE i \in K
    BY <1>2, <1>3, <2>1, <2>2
  <2>3. CASE i \notin K
    <3> DEFINE same == {m \in DOMAIN findings : Key(findings[m]) = Key(f)}
    <3>0. same \subseteq Nat /\ i \in same /\ DOMAIN findings = 1 .. Len(findings)
          /\ Len(findings) \in Nat
      BY <1>1, <1>2
    <3>1. PICK m \in same : \A l \in same : m <= l
      <4> HIDE DEF same
      <4> QED BY <3>0, Least
    <3>2. m \in DOMAIN findings /\ Key(findings[m]) = Key(f) /\ m <= i
      BY <3>0, <3>1
    <3>3. FirstOf(findings, m)
      <4> SUFFICES ASSUME NEW l \in 1 .. m - 1, Key(findings[l]) = Key(findings[m])
                   PROVE  FALSE
        BY DEF FirstOf
      <4>1. l \in DOMAIN findings /\ l < m
        BY <3>0, <3>2
      <4>2. l \in same
        BY <3>2, <4>1
      <4> QED BY <3>0, <3>1, <3>2, <4>1, <4>2
    <3>4. m \in K /\ m # i /\ m < i
      BY <2>3, <3>0, <3>2, <3>3
    <3>5. StaysAs(findings[m], findings[m].verified)
      BY <2>1, <3>4 DEF StaysAs, ToSet
    <3>6. phase = "merge"
      BY <1>7 DEF Merge
    <3>7. YieldsInMerge(f)
      BY <1>2, <3>2, <3>4, <3>5, <3>6 DEF YieldsInMerge
    <3> QED BY <3>7
  <2> QED BY <2>2, <2>3
<1>8. CASE CaptureNext
  BY <1>1, <1>2, <1>3, <1>8, CaptureTurn DEF Twin
<1>9. CASE Backfill
  BY <1>1, <1>2, <1>3, <1>9, BackfillTurn DEF Twin
<1>10. CASE CaptureRaises
  BY <1>2, <1>3, <1>10 DEF CaptureRaises
<1>11. CASE GateHeaders
  <2> DEFINE S == {l \in DOMAIN findings : ~Gated(findings[l])}
  <2>0. phase = "capture" /\ phase' = "shell"
    BY <1>11 DEF GateHeaders
  <2>1. CASE i \notin S
    BY <1>2, <2>0, <2>1 DEF Gated, YieldsAtGate
  <2>2. CASE i \in S
    <3>1. PICK n \in 1 .. Cardinality(S) : Nth(S, n) = i
      BY <1>1, <1>11, <2>2, GateTurn
    <3>2. /\ n \in DOMAIN findings' /\ findings'[n] \in AllFindings
          /\ Twin(findings'[n], findings[Nth(S, n)])
          /\ findings'[n].verified # "yes"
               => /\ Hygiene(f) /\ ~Answered(f)
                  /\ findings'[n].verified = "none"
      BY <1>1, <1>2, <1>11, <3>1, GateTurn
    <3>3. CASE findings'[n].verified = "yes"
      BY <1>2, <1>3, <3>1, <3>2, <3>3 DEF Twin
    <3>4. CASE findings'[n].verified # "yes"
      <4>1. StaysAs(f, "none")
        BY <1>2, <3>1, <3>2, <3>4 DEF Twin, StaysAs, ToSet
      <4> QED BY <2>0, <3>2, <3>4, <4>1 DEF YieldsAtGate
    <3> QED BY <3>3, <3>4
  <2> QED BY <2>1, <2>2
<1>12. CASE DedupShell
  <2>1. CASE ~Groupable(f)
    <3>1. \E n \in DOMAIN findings' : findings'[n] = findings[i]
      BY <1>1, <1>2, <1>12, <2>1, ShellTurn
    <3> QED BY <1>2, <1>3, <3>1
  <2>2. CASE Groupable(f)
    <3>1. PICK m \in DOMAIN findings : /\ Groupable(findings[m])
                                      /\ Group(findings[m]) = Group(f)
                                      /\ Leads(findings, m)
      BY <1>1, <1>2, <2>2, GroupHasLeader
    <3>2. \E n \in DOMAIN findings' : findings'[n] = findings[m]
      BY <1>1, <1>12, <3>1, ShellTurn
    <3>3. \E g \in ToSet(findings') : Groupable(g) /\ Group(g) = Group(f)
      BY <3>1, <3>2 DEF ToSet
    <3>4. phase = "shell"
      BY <1>12 DEF DedupShell
    <3> QED BY <2>2, <3>3, <3>4 DEF YieldsInDedup
  <2> QED BY <2>1, <2>2
<1> QED BY <1>4, <1>5, <1>6, <1>7, <1>8, <1>9, <1>10, <1>11, <1>12 DEF Next

\* Replays, capture and backfill take back nothing a detector proved; merge,
\* header gate and shell dedup do so only in the cases named.
THEOREM ProofIsNotTakenBack == Spec => ProvenStaysProven
<1>1. FInv /\ [Next]_vars =>
        [\A f \in Shipped : f.verified = "yes" =>
            \/ StaysAs(f, "yes")
            \/ YieldsInMerge(f) \/ YieldsAtGate(f) \/ YieldsInDedup(f)]_vars
  BY ProvenStep
<1> QED BY <1>1, PipelineInvariance, PTL DEF Spec, ProvenStaysProven
=============================================================================
