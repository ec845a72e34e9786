-------------------------- MODULE DepthSuite_proofs --------------------------
(***************************************************************************)
(* For any crawl, any server and any losses: what the gate, the API tests  *)
(* and the depth suite report is so, but in the cases Misled names; what a *)
(* server leaves open to them is reported by a stage that heard every      *)
(* answer with its session alive; the gate knows the session; and the      *)
(* cache-poisoning stage spares the cache of other users.                  *)
(***************************************************************************)
EXTENDS DepthSuite, Sublists_proofs, SequenceTheorems

-----------------------------------------------------------------------------
(***************************************************************************)
(* The units of a stage.                                                   *)
(***************************************************************************)
\* Units over some URLs, with some headers.
UnitsOver(T, H) == {[url |-> u, id |-> Facts[u].id, hdr |-> h] : u \in T, h \in H}

LEMMA UnitsOverAre ==
    ASSUME NEW T, NEW H
    PROVE  /\ \A u \in T, h \in H :
                [url |-> u, id |-> Facts[u].id, hdr |-> h] \in UnitsOver(T, H)
           /\ \A x \in UnitsOver(T, H) :
                /\ x.url \in T /\ x.hdr \in H /\ x.id = Facts[x.url].id
                /\ x = [url |-> x.url, id |-> Facts[x.url].id, hdr |-> x.hdr]
BY DEF UnitsOver

\* The URLs a stage selects become plain units over those URLs.
LEMMA PlainList ==
    ASSUME NEW S \in SUBSET DOMAIN UrlSeq, NEW T, \A i \in S : UrlSeq[i] \in T
    PROVE  Of(S) \in Seq(UnitsOver(T, {"none"}))
<1> DEFINE sub == Sublist(UrlSeq, S)
<1>0. Of(S) = [i \in DOMAIN sub |-> Plain(sub[i])]
  BY DEF Of
<1>1. /\ sub \in Seq(Urls) /\ Len(sub) = Cardinality(S)
      /\ \A n \in 1 .. Cardinality(S) : Nth(S, n) \in S /\ sub[n] = UrlSeq[Nth(S, n)]
  BY SublistIs, DepthAssumption
<1> HIDE DEF sub
<1>2. Len(sub) \in Nat /\ DOMAIN sub = 1 .. Len(sub)
  BY <1>1
<1>3. \A n \in DOMAIN sub : sub[n] \in T
  BY <1>1, <1>2
<1>4. \A n \in DOMAIN sub : Plain(sub[n]) \in UnitsOver(T, {"none"})
  BY <1>3 DEF Plain, UnitsOver
<1> QED BY ONLY <1>0, <1>2, <1>4

\* With each of one or two headers they are units with those headers.
LEMMA CrossedList ==
    ASSUME NEW T, NEW G, NEW us \in Seq(UnitsOver(T, G)),
           NEW H, NEW hdrs \in Seq(H), Len(hdrs) \in {1, 2}
    PROVE  Crossed(us, hdrs) \in Seq(UnitsOver(T, H))
<1> DEFINE m == Len(hdrs)
           of(k) == ((k - 1) \div m) + 1
           with(k) == ((k - 1) % m) + 1
           all == [k \in 1 .. Len(us) * m |-> [us[of(k)] EXCEPT !.hdr = hdrs[with(k)]]]
<1>1. Len(us) \in Nat /\ Len(us) * m \in Nat
  <2>1. Len(us) \in Nat
    OBVIOUS
  <2>2. CASE m = 1
    BY <2>1, <2>2
  <2>3. CASE m = 2
    BY <2>1, <2>3
  <2> QED BY <2>1, <2>2, <2>3
<1>2. ASSUME NEW k \in 1 .. Len(us) * m
      PROVE  of(k) \in 1 .. Len(us) /\ with(k) \in 1 .. m
  <2>1. CASE m = 1
    BY <1>1, <2>1
  <2>2. CASE m = 2
    BY <1>1, <2>2
  <2> QED BY <2>1, <2>2
<1> HIDE DEF of, with
<1>3. ASSUME NEW k \in 1 .. Len(us) * m
      PROVE  [us[of(k)] EXCEPT !.hdr = hdrs[with(k)]] \in UnitsOver(T, H)
  <2>1. us[of(k)] \in UnitsOver(T, G) /\ hdrs[with(k)] \in H
    BY <1>1, <1>2
  <2> QED BY <2>1 DEF UnitsOver
<1>4. all \in Seq(UnitsOver(T, H))
  BY <1>1, <1>3
<1> QED BY <1>4 DEF of, with, Crossed

\* What each selection picks.
LEMMA SelectionsAre ==
    /\ Every(Written) \in SUBSET DOMAIN UrlSeq
    /\ Every(Make) \in SUBSET DOMAIN UrlSeq
    /\ Every(List) \in SUBSET DOMAIN UrlSeq
    /\ Every(Edit) \in SUBSET DOMAIN UrlSeq /\ \A i \in Every(Edit) : Edit(UrlSeq[i])
    /\ \A s : /\ First(s, Api) \in SUBSET DOMAIN UrlSeq
              /\ First(s, Crawled) \in SUBSET DOMAIN UrlSeq
              /\ First(s, Query) \in SUBSET DOMAIN UrlSeq
              /\ First(s, QueryNotAuth) \in SUBSET DOMAIN UrlSeq
              /\ First(s, Hub) \in SUBSET DOMAIN UrlSeq
              /\ First(s, File) \in SUBSET DOMAIN UrlSeq
              /\ ApiOrAll(s) \in SUBSET DOMAIN UrlSeq
              /\ NewPaths(s) \in SUBSET DOMAIN UrlSeq
    /\ \A s : /\ First(s, NotAuth) \in SUBSET DOMAIN UrlSeq
              /\ \A i \in First(s, NotAuth) : NotAuth(UrlSeq[i])
    /\ \A s : /\ WithId(s) \in SUBSET DOMAIN UrlSeq
              /\ \A i \in WithId(s) : Facts[UrlSeq[i]].id
<1>1. /\ Every(Written) \in SUBSET DOMAIN UrlSeq /\ Every(Make) \in SUBSET DOMAIN UrlSeq
      /\ Every(List) \in SUBSET DOMAIN UrlSeq /\ Every(Edit) \in SUBSET DOMAIN UrlSeq
      /\ \A i \in Every(Edit) : Edit(UrlSeq[i])
  BY DEF Every
<1>2. ASSUME NEW s
      PROVE  /\ First(s, Api) \in SUBSET DOMAIN UrlSeq
             /\ First(s, Crawled) \in SUBSET DOMAIN UrlSeq
             /\ First(s, Query) \in SUBSET DOMAIN UrlSeq
             /\ First(s, QueryNotAuth) \in SUBSET DOMAIN UrlSeq
             /\ First(s, Hub) \in SUBSET DOMAIN UrlSeq
             /\ First(s, File) \in SUBSET DOMAIN UrlSeq
             /\ First(s, NotAuth) \in SUBSET DOMAIN UrlSeq
             /\ \A i \in First(s, NotAuth) : NotAuth(UrlSeq[i])
  BY DEF First, Every
<1>3. \A s : ApiOrAll(s) \in SUBSET DOMAIN UrlSeq
  BY <1>2 DEF ApiOrAll
<1>4. \A s : NewPaths(s) \in SUBSET DOMAIN UrlSeq
  BY <1>2 DEF NewPaths
<1>5. \A s : /\ WithId(s) \in SUBSET DOMAIN UrlSeq
             /\ \A i \in WithId(s) : Facts[UrlSeq[i]].id
  BY <1>2 DEF WithId
<1> QED BY <1>1, <1>2, <1>3, <1>4, <1>5

\* Any selection of crawled URLs yields plain units.
LEMMA PlainUnits ==
    ASSUME NEW S \in SUBSET DOMAIN UrlSeq
    PROVE  Of(S) \in Seq(UnitsOver(Urls, {"none"}))
<1>1. \A i \in S : UrlSeq[i] \in Urls
  BY DepthAssumption
<1> QED BY <1>1, PlainList

Headed == {"none", "Host", "X-Forwarded-Host", "fields", "new user", "list",
           "others", "baseline"}

LEMMA SeqWider ==
    ASSUME NEW A, NEW B, A \subseteq B, NEW s \in Seq(A)
    PROVE  s \in Seq(B)
OBVIOUS

LEMMA Widened ==
    ASSUME NEW T, T \subseteq Urls, NEW H, H \subseteq Headed, NEW us \in Seq(UnitsOver(T, H))
    PROVE  us \in Seq(UnitsOver(Urls, Headed))
<1>1. UnitsOver(T, H) \subseteq UnitsOver(Urls, Headed)
  BY DEF UnitsOver
<1> QED BY <1>1, SeqWider

\* The names of the stages.
LEMMA StageNames ==
    /\ Len(Stages) = 20
    /\ ToSet(Stages) = {"gate", "api-authz", "authz", "jwt", "verb", "cors",
            "host-header", "cspp", "xpath", "cache-poison", "nosql", "ldap", "hpp",
            "backup", "reflection", "transformation", "api-exposure",
            "form-security", "websocket", "matrix"}
<1>1. Len(Stages) = 20 /\ DOMAIN Stages = 1 .. 20
  BY DEF Stages
<1>2. \A i \in 1 .. 20 : Stages[i] \in {"gate", "api-authz", "authz", "jwt", "verb", "cors",
            "host-header", "cspp", "xpath", "cache-poison", "nosql", "ldap", "hpp",
            "backup", "reflection", "transformation", "api-exposure",
            "form-security", "websocket", "matrix"}
  BY DEF Stages
<1>3. Stages[1] = "gate"
  BY DEF Stages
<1>4. Stages[2] = "api-authz"
  BY DEF Stages
<1>5. Stages[3] = "authz"
  BY DEF Stages
<1>6. Stages[4] = "jwt"
  BY DEF Stages
<1>7. Stages[5] = "verb"
  BY DEF Stages
<1>8. Stages[6] = "cors"
  BY DEF Stages
<1>9. Stages[7] = "host-header"
  BY DEF Stages
<1>10. Stages[8] = "cspp"
  BY DEF Stages
<1>11. Stages[9] = "xpath"
  BY DEF Stages
<1>12. Stages[10] = "cache-poison"
  BY DEF Stages
<1>13. Stages[11] = "nosql"
  BY DEF Stages
<1>14. Stages[12] = "ldap"
  BY DEF Stages
<1>15. Stages[13] = "hpp"
  BY DEF Stages
<1>16. Stages[14] = "backup"
  BY DEF Stages
<1>17. Stages[15] = "reflection"
  BY DEF Stages
<1>18. Stages[16] = "transformation"
  BY DEF Stages
<1>19. Stages[17] = "api-exposure"
  BY DEF Stages
<1>20. Stages[18] = "form-security"
  BY DEF Stages
<1>21. Stages[19] = "websocket"
  BY DEF Stages
<1>22. Stages[20] = "matrix"
  BY DEF Stages
<1> QED BY <1>1, <1>2, <1>3, <1>4, <1>5, <1>6, <1>7, <1>8, <1>9, <1>10, <1>11, <1>12, <1>13, <1>14, <1>15, <1>16, <1>17, <1>18, <1>19, <1>20, <1>21, <1>22 DEF ToSet

\* Every stage works over crawled URLs; what some of them need to know of
\* theirs.
LEMMA UnitsAre ==
    /\ \A s \in ToSet(Stages) : Units[s] \in Seq(UnitsOver(Urls, Headed))
    /\ \A k \in 1 .. Len(Units["api-authz"]) :
         LET u == Units["api-authz"][k]
         IN  /\ u.hdr \in {"fields", "new user", "list", "others"}
             /\ u.hdr = "others" => Edit(u.url)
    /\ \A k \in 1 .. Len(Units["matrix"]) : Facts[Units["matrix"][k].url].id
    /\ \A k \in 1 .. Len(Units["cache-poison"]) : NotAuth(Units["cache-poison"][k].url)
    /\ \A k \in 1 .. Len(Units["backup"]) : (Units["backup"][k].hdr = "baseline") <=> (k = 1)
<1> DEFINE Plainly == Seq(UnitsOver(Urls, {"none"}))
           Anywhere == Seq(UnitsOver(Urls, Headed))
<1>1. /\ Of(Every(Written)) \in Plainly /\ Of(Every(Make)) \in Plainly
      /\ Of(Every(List)) \in Plainly /\ Of(Every(Edit)) \in Plainly
      /\ \A s : /\ Of(First(s, Api)) \in Plainly /\ Of(First(s, Query)) \in Plainly
                /\ Of(First(s, QueryNotAuth)) \in Plainly /\ Of(First(s, NotAuth)) \in Plainly
                /\ Of(First(s, File)) \in Plainly /\ Of(First(s, Hub)) \in Plainly
                /\ Of(First(s, Crawled)) \in Plainly /\ Of(ApiOrAll(s)) \in Plainly
                /\ Of(NewPaths(s)) \in Plainly /\ Of(WithId(s)) \in Plainly
  <2>1. \A S \in SUBSET DOMAIN UrlSeq : Of(S) \in Plainly
    BY PlainUnits
  <2> HIDE DEF Plainly
  <2> QED BY <2>1, SelectionsAre
<1>2. \A us \in Plainly : us \in Anywhere
  <2>1. {"none"} \subseteq Headed
    BY DEF Headed
  <2> QED BY <2>1, Widened
<1>3. \A h \in Headed : \A us \in Plainly :
        /\ Crossed(us, <<h>>) \in Seq(UnitsOver(Urls, {h}))
        /\ Crossed(us, <<h>>) \in Anywhere
  <2> SUFFICES ASSUME NEW h \in Headed, NEW us \in Plainly
               PROVE  /\ Crossed(us, <<h>>) \in Seq(UnitsOver(Urls, {h}))
                      /\ Crossed(us, <<h>>) \in Anywhere
    OBVIOUS
  <2>1. <<h>> \in Seq({h}) /\ Len(<<h>>) \in {1, 2}
    OBVIOUS
  <2>2. Crossed(us, <<h>>) \in Seq(UnitsOver(Urls, {h}))
    BY <2>1, CrossedList
  <2>3. {h} \subseteq Headed
    OBVIOUS
  <2> QED BY <2>2, <2>3, Widened
<1>5. \A s : Crossed(Of(First(s, Crawled)), Forwarding) \in Anywhere
  <2>1. Forwarding \in Seq(Headed) /\ Len(Forwarding) \in {1, 2}
    BY DEF Forwarding, Headed
  <2> QED BY <1>1, <2>1, CrossedList
<1> HIDE DEF Plainly, Anywhere
<1>6. \A us \in Anywhere, vs \in Anywhere : us \o vs \in Anywhere
  BY DEF Anywhere
<1>7. ASSUME NEW k \in 1 .. Len(Units["api-authz"])
      PROVE  LET u == Units["api-authz"][k]
             IN  /\ u.hdr \in {"fields", "new user", "list", "others"}
                 /\ u.hdr = "others" => Edit(u.url)
  <2> DEFINE G == {u \in UnitsOver(Urls, Headed) :
                    /\ u.hdr \in {"fields", "new user", "list", "others"}
                    /\ u.hdr = "others" => Edit(u.url)}
             E == {u \in Urls : Edit(u)}
  <2>1. /\ UnitsOver(Urls, {"fields"}) \subseteq G /\ UnitsOver(Urls, {"new user"}) \subseteq G
        /\ UnitsOver(Urls, {"list"}) \subseteq G /\ UnitsOver(E, {"others"}) \subseteq G
    <3>1. /\ \A x \in UnitsOver(Urls, {"fields"}) : x.url \in Urls /\ x.hdr = "fields"
          /\ \A x \in UnitsOver(Urls, {"new user"}) : x.url \in Urls /\ x.hdr = "new user"
          /\ \A x \in UnitsOver(Urls, {"list"}) : x.url \in Urls /\ x.hdr = "list"
          /\ \A x \in UnitsOver(E, {"others"}) : x.url \in E /\ x.hdr = "others"
      <4>1. \A A, h : \A x \in UnitsOver(A, {h}) : x.url \in A /\ x.hdr = h
        BY DEF UnitsOver
      <4> HIDE DEF E, G
      <4> QED BY <4>1
    <3>2. ASSUME NEW A \in SUBSET Urls, NEW h \in Headed, NEW x \in UnitsOver(A, {h})
          PROVE  x \in UnitsOver(Urls, Headed)
      <4>1. x.url \in Urls /\ x.hdr \in Headed
            /\ x = [url |-> x.url, id |-> Facts[x.url].id, hdr |-> x.hdr]
        BY UnitsOverAre
      <4> HIDE DEF Headed
      <4> QED BY <4>1, UnitsOverAre
    <3>3. E \subseteq Urls
      OBVIOUS
    <3>4. "fields" \in Headed /\ "new user" \in Headed /\ "list" \in Headed
          /\ "others" \in Headed
      BY DEF Headed
    <3>5. /\ UnitsOver(Urls, {"fields"}) \subseteq UnitsOver(Urls, Headed)
          /\ UnitsOver(Urls, {"new user"}) \subseteq UnitsOver(Urls, Headed)
          /\ UnitsOver(Urls, {"list"}) \subseteq UnitsOver(Urls, Headed)
          /\ UnitsOver(E, {"others"}) \subseteq UnitsOver(Urls, Headed)
      BY <3>2, <3>3, <3>4
    <3>6. \A x \in E : Edit(x)
      OBVIOUS
    <3> QED BY <3>1, <3>5, <3>6
  <2>2. Of(Every(Edit)) \in Seq(UnitsOver(E, {"none"}))
    <3>1. Every(Edit) \in SUBSET DOMAIN UrlSeq /\ \A i \in Every(Edit) : UrlSeq[i] \in E
      BY DepthAssumption DEF Every, Edit
    <3> QED BY <3>1, PlainList
  <2> HIDE DEF G, E
  <2>3. /\ Crossed(Of(Every(Written)), <<"fields">>) \in Seq(G)
        /\ Crossed(Of(Every(Make)), <<"new user">>) \in Seq(G)
        /\ Crossed(Of(Every(List)), <<"list">>) \in Seq(G)
    <3>1. /\ Crossed(Of(Every(Written)), <<"fields">>) \in Seq(UnitsOver(Urls, {"fields"}))
          /\ Crossed(Of(Every(Make)), <<"new user">>) \in Seq(UnitsOver(Urls, {"new user"}))
          /\ Crossed(Of(Every(List)), <<"list">>) \in Seq(UnitsOver(Urls, {"list"}))
      BY <1>1, <1>3 DEF Headed
    <3> QED BY <2>1, <3>1, SeqWider
  <2>4. Crossed(Of(Every(Edit)), <<"others">>) \in Seq(G)
    <3>1. <<"others">> \in Seq({"others"}) /\ Len(<<"others">>) \in {1, 2}
      OBVIOUS
    <3>2. Crossed(Of(Every(Edit)), <<"others">>) \in Seq(UnitsOver(E, {"others"}))
      BY <2>2, <3>1, CrossedList
    <3> QED BY <2>1, <3>2, SeqWider
  <2>5. \A us \in Seq(G), vs \in Seq(G) : us \o vs \in Seq(G)
    OBVIOUS
  <2>6. Units["api-authz"] \in Seq(G)
    BY <2>3, <2>4, <2>5, StageNames DEF Units
  <2>7. Units["api-authz"][k] \in G
    BY <2>6
  <2> QED BY <2>7 DEF G
<1>8. \A k \in 1 .. Len(Units["matrix"]) : Facts[Units["matrix"][k].url].id
  <2> DEFINE T == {u \in Urls : Facts[u].id}
  <2>1. \A i \in WithId("matrix") : UrlSeq[i] \in T
    BY SelectionsAre, DepthAssumption
  <2>2. Units["matrix"] = Of(WithId("matrix"))
    BY StageNames DEF Units
  <2>3. \A u \in T : Facts[u].id
    OBVIOUS
  <2> HIDE DEF T
  <2>4. Units["matrix"] \in Seq(UnitsOver(T, {"none"}))
    BY <2>1, <2>2, SelectionsAre, PlainList
  <2>5. \A k \in 1 .. Len(Units["matrix"]) : Units["matrix"][k] \in UnitsOver(T, {"none"})
    BY <2>4
  <2> QED BY <2>3, <2>5, UnitsOverAre
<1>11. \A k \in 1 .. Len(Units["cache-poison"]) : NotAuth(Units["cache-poison"][k].url)
  <2> DEFINE T == {u \in Urls : NotAuth(u)}
             h == "X-Forwarded-Host"
  <2>1. \A i \in First("cache-poison", NotAuth) : UrlSeq[i] \in T
    BY DepthAssumption DEF First, Every, NotAuth
  <2>2. Units["cache-poison"] = Crossed(Of(First("cache-poison", NotAuth)), <<h>>)
    BY StageNames DEF Units
  <2>3. \A u \in T : NotAuth(u)
    OBVIOUS
  <2>6. <<h>> \in Seq({h}) /\ Len(<<h>>) \in {1, 2}
    OBVIOUS
  <2> HIDE DEF T, h
  <2>7. Of(First("cache-poison", NotAuth)) \in Seq(UnitsOver(T, {"none"}))
    BY <2>1, SelectionsAre, PlainList
  <2>4. Units["cache-poison"] \in Seq(UnitsOver(T, {h}))
    BY <2>2, <2>6, <2>7, CrossedList
  <2>5. \A k \in 1 .. Len(Units["cache-poison"]) :
          Units["cache-poison"][k] \in UnitsOver(T, {h})
    BY <2>4
  <2> QED BY <2>3, <2>5, UnitsOverAre
<1>9. /\ Units["backup"] \in Anywhere
      /\ \A k \in 1 .. Len(Units["backup"]) : (Units["backup"][k].hdr = "baseline") <=> (k = 1)
  <2> DEFINE F == UnitsOver(Urls, {"none"})
             b == [Plain(Root) EXCEPT !.hdr = "baseline"]
             files == Of(First("backup", File))
  <2>1. files \in Seq(F) /\ files \in Anywhere
    BY <1>1, <1>2 DEF Plainly
  <2>2. Units["backup"] = IF First("backup", File) = {} THEN <<>> ELSE <<b>> \o files
    BY StageNames DEF Units
  <2>3. b \in UnitsOver(Urls, Headed) /\ b.hdr = "baseline"
    <3>1. b = [url |-> Root, id |-> Facts[Root].id, hdr |-> "baseline"]
      BY DEF Plain
    <3>2. "baseline" \in Headed
      BY DEF Headed
    <3> QED BY <3>1, <3>2, DepthAssumption, UnitsOverAre
  <2>4. \A u \in F : u.hdr = "none"
    BY DEF UnitsOver
  <2> HIDE DEF F, b, files
  <2>5. <<b>> \o files \in Anywhere
    BY <1>6, <2>1, <2>3 DEF Anywhere
  <2>6. ASSUME NEW k \in 1 .. Len(<<b>> \o files)
        PROVE  \/ k = 1 /\ (<<b>> \o files)[k] = b
               \/ k # 1 /\ (<<b>> \o files)[k] \in F
    <3>1. Len(<<b>> \o files) = 1 + Len(files) /\ Len(files) \in Nat
      BY <2>1, <2>3
    <3>2. k = 1 => (<<b>> \o files)[k] = b
      BY <2>1, <2>3
    <3>3. k # 1 => (<<b>> \o files)[k] = files[k - 1] /\ k - 1 \in 1 .. Len(files)
      BY <2>1, <2>3, <3>1
    <3>4. k # 1 => files[k - 1] \in F
      BY <2>1, <3>1, <3>3
    <3> QED BY <3>2, <3>3, <3>4
  <2>7. CASE First("backup", File) = {}
    BY <2>2, <2>7 DEF Anywhere
  <2>8. CASE First("backup", File) # {}
    BY <2>2, <2>3, <2>4, <2>5, <2>6, <2>8
  <2> QED BY <2>7, <2>8
<1>10. \A s \in ToSet(Stages) : Units[s] \in Anywhere
  <2>1. Plain(Home) \in UnitsOver(Urls, Headed)
    <3>1. "none" \in Headed
      BY DEF Headed
    <3> QED BY <3>1, DepthAssumption, UnitsOverAre DEF Plain
  <2>2. Units["gate"] \in Anywhere
    BY <2>1, StageNames DEF Units, Anywhere
  <2>3. Units["api-authz"] \in Anywhere
    <3>1. {"fields", "new user", "list", "others"} \subseteq Headed
      BY DEF Headed
    <3> QED BY <1>1, <1>3, <1>6, <3>1, StageNames DEF Units
  <2>4. /\ Units["authz"] \in Anywhere /\ Units["verb"] \in Anywhere
        /\ Units["jwt"] \in Anywhere /\ Units["cors"] \in Anywhere
        /\ Units["matrix"] \in Anywhere /\ Units["api-exposure"] \in Anywhere
        /\ Units["form-security"] \in Anywhere /\ Units["websocket"] \in Anywhere
    BY <1>1, <1>2, StageNames DEF Units
  <2>5. /\ Units["cspp"] \in Anywhere /\ Units["reflection"] \in Anywhere
        /\ Units["transformation"] \in Anywhere /\ Units["xpath"] \in Anywhere
        /\ Units["nosql"] \in Anywhere /\ Units["ldap"] \in Anywhere
        /\ Units["hpp"] \in Anywhere
    BY <1>1, <1>2, StageNames DEF Units
  <2>6. Units["host-header"] \in Anywhere
    BY <1>5, StageNames DEF Units
  <2>7. Units["cache-poison"] \in Anywhere
    <3>1. "X-Forwarded-Host" \in Headed
      BY DEF Headed
    <3> QED BY <1>1, <1>3, <3>1, StageNames DEF Units
  <2> QED BY <1>9, <2>2, <2>3, <2>4, <2>5, <2>6, <2>7, StageNames
<1> QED BY <1>7, <1>8, <1>9, <1>10, <1>11 DEF Anywhere

-----------------------------------------------------------------------------
(***************************************************************************)
(* What an answer can be.                                                  *)
(***************************************************************************)
\* The marks of a page have their cause in its nature n.
Fair(n, ms) ==
    /\ \A m \in Engines : m \in ms => m \in n.flaws \/ "errs" \in n.habits
    /\ \A m \in {"both", "link", "canary", "evaluated", "escaped"} : m \in ms => m \in n.flaws
    /\ "echo" \in ms => "echoes" \in n.flaws
    /\ "hosted" \in ms => "host" \in n.flaws
    /\ "acao-evil" \in ms => "origin" \in n.flaws
    /\ "acao-null" \in ms => "null" \in n.flaws
    /\ "acao-star" \in ms => "star" \in n.flaws
    /\ "acac" \in ms => "creds" \in n.flaws
    /\ \A m \in {"records", "well-formed", "hub"} : m \in ms => m \in n.habits
    /\ "at login" \notin ms

\* A cache entry of u is cold, or holds what a page of u shows.
Kept(u, e) == e = Cold \/ (Standing(u) \subseteq e.marks /\ Fair(server.at[u], e.marks))

Nothing(a) == a.is = "lost" /\ a.st = 0 /\ a.size = 0 /\ a.marks = {}
Overload(a) == a.is = "block" /\ a.st = 403 /\ a.size = 1 /\ a.marks = {}

\* What the login page shows to r, and what a cache may keep of it.
FromLogin(ms) ==
    /\ ms \subseteq {"form", "at login", "hosted"}
    /\ "hosted" \in ms => "host" \in server.login
AtLogin(r, ms) ==
    /\ FromLogin(ms) /\ {"form", "at login"} \subseteq ms
    /\ "hosted" \in ms /\ r.hdr = "none" => "cached" \in server.login
LoginKept(e) == e = Cold \/ FromLogin(e.marks)

Refuses(r, a) ==
    LET how == Nature(r).refusal
    IN  /\ a.is = "refusal" /\ r.input \notin Copies /\ ~Reads(r)
        /\ \/ how = "unauthorized" /\ a.st = 401 /\ a.size = 1 /\ a.marks = {}
           \/ how = "redirect" /\ ~Follows(r) /\ a.st = 302 /\ a.size = 0 /\ a.marks = {}
           \/ how = "redirect" /\ Follows(r) /\ a.st = 200 /\ a.size = 8
                /\ AtLogin(r, a.marks)
           \/ /\ how = "form" /\ a.st = 200 /\ a.marks = {"form"}
              /\ \/ a.size = 8
                 \/ a.size = 20 /\ "lookalike" \in Nature(r).habits
Page(r, a) ==
    /\ a.st = 200 /\ Owns(r)
    /\ Fair(Nature(r), a.marks)
    /\ r.method # "OPTIONS" => a.size \in Sizes(r)
    /\ r.method \notin {"HEAD", "OPTIONS"} => Standing(r.url) \subseteq a.marks
    /\ "hosted" \in a.marks /\ r.hdr = "none" => "cached" \in Nature(r).habits
Serves(r, a) ==
    /\ a.is = "page" /\ r.input \notin Copies /\ Reads(r)
    /\ \/ a.st = 404 /\ a.size = 1 /\ a.marks = {} /\ ~Owns(r)
       \/ a.st = 409 /\ a.size = 1 /\ a.marks = {} /\ Registers(r)
       \/ Page(r, a)
Copied(r, a) ==
    /\ a.is = "page" /\ r.input \in Copies
    /\ [st |-> a.st, size |-> a.size, marks |-> a.marks] \in Files(r)
Plausible(r, a) ==
    /\ a.who = r.who /\ a.input = r.input
    /\ Nothing(a) \/ Overload(a) \/ Refuses(r, a) \/ Serves(r, a) \/ Copied(r, a)

\* No header stands for itself.
LEMMA ForwardedIs == "none" \notin ToSet(Forwarding)
BY DEF ToSet, Forwarding

\* The marks of a page are fair, and its standing ones are there.
LEMMA MarksAre ==
    ASSUME NEW r, r.url \in Urls, server \in Servers
    PROVE  /\ Fair(Nature(r), Marks(r)) /\ Standing(r.url) \subseteq Marks(r)
           /\ "hosted" \in Marks(r) => r.hdr # "none"
<1>1. server.at[r.url] \in Natures
  BY DepthAssumption
<1> DEFINE n == server.at[r.url]
           ms == Marks(r)
<1>2. \A m \in ms :
        \/ m \in {"xpath", "nosql", "ldap", "both", "link", "canary", "evaluated",
                  "escaped"} /\ m \in n.flaws
        \/ m \in Standing(r.url)
        \/ m \in {"in", "privileged"}
        \/ m = "echo" /\ "echoes" \in n.flaws
        \/ m = "hosted" /\ "host" \in n.flaws /\ r.hdr # "none"
        \/ m = "acao-evil" /\ "origin" \in n.flaws
        \/ m = "acao-null" /\ "null" \in n.flaws
  BY ForwardedIs DEF Marks, Nature, If, Tells
<1>3. \A m \in Standing(r.url) :
        \/ m \in Engines /\ "errs" \in n.habits
        \/ m \in n.habits /\ m \in {"hub", "records", "well-formed", "form", "tokened"}
        \/ m = "acao-star" /\ "star" \in n.flaws
        \/ m = "acac" /\ "creds" \in n.flaws
  BY DEF Standing, If
<1>4. Standing(r.url) \subseteq ms
  BY DEF Marks
<1> HIDE DEF n, ms
<1>5. \A m \in Engines : m \in ms => m \in n.flaws \/ "errs" \in n.habits
  BY <1>2, <1>3 DEF Engines
<1>6. \A m \in {"both", "link", "canary", "evaluated", "escaped"} : m \in ms => m \in n.flaws
  BY <1>2, <1>3 DEF Engines
<1>7. /\ "echo" \in ms => "echoes" \in n.flaws
      /\ "hosted" \in ms => "host" \in n.flaws /\ r.hdr # "none"
  BY <1>2, <1>3 DEF Engines
<1>8. /\ "acao-evil" \in ms => "origin" \in n.flaws
      /\ "acao-null" \in ms => "null" \in n.flaws
      /\ "acao-star" \in ms => "star" \in n.flaws
      /\ "acac" \in ms => "creds" \in n.flaws
  BY <1>2, <1>3 DEF Engines
<1>9. "at login" \notin ms
  BY <1>2, <1>3 DEF Engines
<1>10. \A m \in {"records", "well-formed", "hub"} : m \in ms => m \in n.habits
  BY <1>2, <1>3 DEF Engines
<1> QED BY <1>4, <1>5, <1>6, <1>7, <1>8, <1>9, <1>10 DEF Fair, Nature, n, ms

\* So are the standing ones alone, and none of them shows a session.
LEMMA StandingIs ==
    ASSUME NEW u \in Urls, server \in Servers
    PROVE  Fair(server.at[u], Standing(u)) /\ "in" \notin Standing(u)
<1> DEFINE n == server.at[u]
           ms == Standing(u)
<1>1. \A m \in ms :
        \/ m \in Engines /\ "errs" \in n.habits
        \/ m \in n.habits /\ m \in {"hub", "records", "well-formed", "form", "tokened"}
        \/ m = "acao-star" /\ "star" \in n.flaws
        \/ m = "acac" /\ "creds" \in n.flaws
  BY DEF Standing, If
<1> HIDE DEF n, ms
<1>2. \A m \in Engines : m \in ms => m \in n.flaws \/ "errs" \in n.habits
  BY <1>1 DEF Engines
<1>3. \A m \in {"both", "link", "canary", "evaluated", "escaped"} : m \in ms => m \in n.flaws
  BY <1>1 DEF Engines
<1>4. "echo" \notin ms /\ "hosted" \notin ms /\ "acao-evil" \notin ms /\ "acao-null" \notin ms
  BY <1>1 DEF Engines
<1>5. /\ "acao-star" \in ms => "star" \in n.flaws
      /\ "acac" \in ms => "creds" \in n.flaws
      /\ "at login" \notin ms /\ "in" \notin ms
  BY <1>1 DEF Engines
<1>6. \A m \in {"records", "well-formed", "hub"} : m \in ms => m \in n.habits
  BY <1>1 DEF Engines
<1> QED BY <1>2, <1>3, <1>4, <1>5, <1>6 DEF Fair, n, ms

\* Marks that claim nothing are fair.
LEMMA FairMarks ==
    ASSUME NEW n, NEW ms, ms \subseteq {"writes", "form"}
    PROVE  Fair(n, ms)
<1>1. \A m \in ms : m = "writes" \/ m = "form"
  OBVIOUS
<1> QED BY <1>1 DEF Fair, Engines

\* The login page shows a form and where it is, and a forged host if a
\* flaw, or an entry of its cache, lets it.
LEMMA LoginPageIs ==
    ASSUME NEW r, LoginKept(shared[Login])
    PROVE  /\ LoginPage(r).st = 200 /\ LoginPage(r).size = 8
           /\ AtLogin(r, LoginPage(r).marks)
<1> DEFINE rest == IF "cached" \in server.login /\ shared[Login] # Cold
                   THEN shared[Login].marks
                   ELSE If("host" \in server.login /\ r.hdr \in ToSet(Forwarding), "hosted")
<1>1. /\ LoginPage(r).st = 200 /\ LoginPage(r).size = 8
      /\ LoginPage(r).marks = {"form", "at login"} \union rest
  BY DEF LoginPage, Refusals
<1>2. FromLogin(rest) /\ ("hosted" \in rest /\ r.hdr = "none" => "cached" \in server.login)
  <2>1. CASE "cached" \in server.login /\ shared[Login] # Cold
    BY <2>1 DEF LoginKept
  <2>2. CASE ~("cached" \in server.login /\ shared[Login] # Cold)
    BY <2>2, ForwardedIs DEF FromLogin, If
  <2> QED BY <2>1, <2>2
<1> HIDE DEF rest
<1>3. FromLogin({"form", "at login"} \union rest)
  BY <1>2 DEF FromLogin
<1> QED BY <1>1, <1>2, <1>3 DEF AtLogin

\* Every answer is plausible.
LEMMA AnswerIs ==
    ASSUME NEW r, r.url \in Urls, server \in Servers, Kept(r.url, Entry(r)),
           LoginKept(shared[Login]), NEW us, NEW a \in Answers(r, us)
    PROVE  Plausible(r, a)
<1>1. server.at[r.url] \in Natures
  BY DepthAssumption
<1>2. CASE a \in {Lost(r), Blocked(r)}
  BY <1>2 DEF Lost, Blocked, Seen, Plausible, Nothing, Overload
<1>3. CASE a \notin {Lost(r), Blocked(r)}
  <2> DEFINE is == IF r.input \in Copies \/ Reads(r) THEN "page" ELSE "refusal"
             first == Registers(r) /\ Reads(r) /\ Taken(us)
  <2>1. PICK x \in IF first THEN {Conflict} ELSE Replies(r) : a = Seen(x, is, r)
    BY <1>3 DEF Answers
  <2>2. /\ a.st = x.st /\ a.size = x.size /\ a.marks = x.marks /\ a.is = is
        /\ a.who = r.who /\ a.input = r.input
    BY <2>1 DEF Seen
  <2>4. CASE first
    <3>1. x = Conflict
      BY <2>1, <2>4
    <3>2. a.st = 409 /\ a.size = 1 /\ a.marks = {}
      BY <2>2, <3>1 DEF Conflict
    <3>3. a.is = "page" /\ r.input \notin Copies /\ Reads(r)
      BY <2>2, <2>4 DEF Registers, Copies
    <3> QED BY <2>2, <2>4, <3>2, <3>3 DEF Plausible, Serves
  <2>5. CASE ~first /\ r.input \in Copies
    <3>1. x \in Files(r)
      BY <2>1, <2>5 DEF Replies
    <3>2. x = [st |-> x.st, size |-> x.size, marks |-> x.marks]
      BY <3>1 DEF Files, Missing, NotFound
    <3>3. Copied(r, a)
      BY <2>2, <2>5, <3>1, <3>2 DEF Copied
    <3> QED BY <2>2, <3>3 DEF Plausible
  <2>6. CASE ~first /\ r.input \notin Copies /\ ~Reads(r)
    <3>1. x = Refusal(r)
      BY <2>1, <2>6 DEF Replies
    <3>3. Nature(r).refusal \in {"unauthorized", "redirect", "form"}
      BY <1>1 DEF Nature, Natures
    <3>4. Refuses(r, a)
      <4> DEFINE how == Nature(r).refusal
      <4>1. CASE how = "unauthorized"
        <5>1. x = [st |-> 401, size |-> 1, marks |-> {}]
          BY <3>1, <4>1 DEF Refusal, Refusals, Bounced
        <5> QED BY <2>2, <2>6, <4>1, <5>1 DEF Refuses
      <4>2. CASE how = "redirect" /\ ~Follows(r)
        <5>1. x = [st |-> 302, size |-> 0, marks |-> {}]
          BY <3>1, <4>2 DEF Refusal, Refusals, Bounced
        <5> QED BY <2>2, <2>6, <4>2, <5>1 DEF Refuses
      <4>3. CASE how = "redirect" /\ Follows(r)
        <5>1. x = LoginPage(r)
          BY <3>1, <4>3 DEF Refusal, Bounced
        <5> QED BY <2>2, <2>6, <4>3, <5>1, LoginPageIs DEF Refuses
      <4>4. CASE how = "form"
        <5>1. /\ x.st = 200 /\ x.marks = {"form"}
              /\ x.size = 8 \/ (x.size = 20 /\ "lookalike" \in Nature(r).habits)
          BY <3>1, <4>4 DEF Refusal, Refusals, Bounced
        <5> QED BY <2>2, <2>6, <4>4, <5>1 DEF Refuses
      <4> QED BY <3>3, <4>1, <4>2, <4>3, <4>4
    <3> QED BY <2>2, <3>4 DEF Plausible
  <2>7. CASE ~first /\ r.input \notin Copies /\ Reads(r) /\ ~Owns(r)
    <3>1. x = NotFound
      BY <2>1, <2>7 DEF Replies
    <3> QED BY <2>2, <2>7, <3>1 DEF NotFound, Plausible, Serves
  <2>8. CASE ~first /\ r.input \notin Copies /\ Reads(r) /\ Owns(r) /\ r.method = "OPTIONS"
    <3>1. x.st = 200 /\ x.size = 0 /\ x.marks \subseteq {"writes"}
      BY <2>1, <2>8 DEF Replies, If
    <3>2. Fair(Nature(r), x.marks)
      BY <3>1, FairMarks
    <3> QED BY <2>2, <2>8, <3>1, <3>2 DEF Plausible, Serves, Page
  <2>9. CASE ~first /\ r.input \notin Copies /\ Reads(r) /\ Owns(r) /\ r.method # "OPTIONS"
    <3> DEFINE ms == IF Cacheable(r) /\ Entry(r) # Cold THEN Entry(r).marks
                     ELSE IF r.method = "HEAD" THEN {} ELSE Marks(r)
    <3>1. x.st = 200 /\ x.size \in Sizes(r) /\ x.marks = ms
      BY <2>1, <2>9 DEF Replies
    <3>2. CASE Cacheable(r) /\ Entry(r) # Cold
      <4>1. Fair(Nature(r), ms) /\ Standing(r.url) \subseteq ms
        BY <3>2 DEF Kept, Nature
      <4>2. "cached" \in Nature(r).habits
        BY <3>2 DEF Cacheable
      <4> QED BY <2>2, <2>9, <3>1, <4>1, <4>2 DEF Plausible, Serves, Page
    <3>3. CASE ~(Cacheable(r) /\ Entry(r) # Cold) /\ r.method = "HEAD"
      <4>1. ms = {} /\ Fair(Nature(r), {})
        BY <3>3 DEF Fair
      <4> QED BY <2>2, <2>9, <3>1, <3>3, <4>1 DEF Plausible, Serves, Page
    <3>4. CASE ~(Cacheable(r) /\ Entry(r) # Cold) /\ r.method # "HEAD"
      <4>1. ms = Marks(r)
        BY <3>4
      <4>2. /\ Fair(Nature(r), ms) /\ Standing(r.url) \subseteq ms
            /\ "hosted" \in ms => r.hdr # "none"
        BY <4>1, MarksAre
      <4> QED BY <2>2, <2>9, <3>1, <4>2 DEF Plausible, Serves, Page
    <3> QED BY <3>2, <3>3, <3>4
  <2> QED BY <2>4, <2>5, <2>6, <2>7, <2>8, <2>9
<1> QED BY <1>2, <1>3

-----------------------------------------------------------------------------
(***************************************************************************)
(* What a stage asks.                                                      *)
(***************************************************************************)
\* A turn that asks, asks for a crawled URL, and is not the stage's last; only
\* the cache-poisoning stage, and always, under a cache-buster.
AsksFor(t, u) ==
    t.ask # <<>> =>
        /\ t.over = FALSE /\ t.ask[1].url \in Urls
        /\ Stage = "cache-poison" => t.ask[1].busted = TRUE /\ t.ask[1].url = u.url
        /\ Stage # "cache-poison" => t.ask[1].busted = FALSE

Unbusted(r) == r.url \in Urls /\ r.busted = FALSE

LEMMA Requests ==
    ASSUME NEW u
    PROVE  /\ AsksFor(Skip, u)
           /\ \A x : AsksFor(Report(x), u) /\ AsksFor(ReportAndStop(x), u)
           /\ Stage # "cache-poison" =>
                \A r : Unbusted(r) => /\ AsksFor(Ask(r), u)
                                      /\ \A x : AsksFor(ReportAndAsk(x, r), u)
                                      /\ \A x : AsksFor([Ask(r) EXCEPT !.say = x], u)
           /\ \A v \in Urls : \A who, x, m :
                /\ Unbusted(Get(v, who)) /\ Unbusted(Put(v, who, x)) /\ Unbusted(Poison(v, who, x))
                /\ Unbusted([Get(v, who) EXCEPT !.method = m])
                /\ Unbusted([Put(v, who, x) EXCEPT !.method = m])
BY DEF AsksFor, Unbusted, Skip, Report, ReportAndAsk, ReportAndStop, Ask, Get, Put, Poison

\* The operator each stage is.
LEMMA TurnIs ==
    ASSUME NEW u, NEW g
    PROVE
       /\ Stage = "gate" => Turn(u, g) = Gate(u, g, me, server.stored, server.marker)
       /\ Stage = "api-authz" => Turn(u, g) = ApiAuthz(u, g)
       /\ Stage = "authz" => Turn(u, g) = Authz(u, g, me)
       /\ Stage = "jwt" => Turn(u, g) = Jwt(u, g, me, server.weak)
       /\ Stage = "verb" => Turn(u, g) = Verb(u, g, me)
       /\ Stage = "cors" => Turn(u, g) = Cors(u, g, me)
       /\ Stage = "host-header" => Turn(u, g) = HostHeader(u, g, me)
       /\ Stage = "cspp" => Turn(u, g) = Cspp(u, g, me)
       /\ Stage = "xpath" => Turn(u, g) = XPath(u, g, me)
       /\ Stage = "cache-poison" => Turn(u, g) = CachePoison(u, g, me)
       /\ Stage = "nosql" => Turn(u, g) = NoSql(u, g, me)
       /\ Stage = "ldap" => Turn(u, g) = Ldap(u, g, me)
       /\ Stage = "hpp" => Turn(u, g) = Hpp(u, g, me)
       /\ Stage = "backup" => Turn(u, g) = Backup(u, g, me, notes)
       /\ Stage = "reflection" => Turn(u, g) = Reflection(u, g, me)
       /\ Stage = "transformation" => Turn(u, g) = Transformation(u, g, me)
       /\ Stage = "api-exposure" => Turn(u, g) = ApiExposure(u, g, me)
       /\ Stage = "form-security" => Turn(u, g) = FormSecurity(u, g, me)
       /\ Stage = "websocket" => Turn(u, g) = WebSocket(u, g, me)
       /\ Stage = "matrix" => Turn(u, g) = Matrix(u, g, me, Other)
<1>1. Stage = "gate" => Turn(u, g) = Gate(u, g, me, server.stored, server.marker)
  BY DEF Turn
<1>2. Stage = "api-authz" => Turn(u, g) = ApiAuthz(u, g)
  BY DEF Turn
<1>3. Stage = "authz" => Turn(u, g) = Authz(u, g, me)
  BY DEF Turn
<1>4. Stage = "jwt" => Turn(u, g) = Jwt(u, g, me, server.weak)
  BY DEF Turn
<1>5. Stage = "verb" => Turn(u, g) = Verb(u, g, me)
  BY DEF Turn
<1>6. Stage = "cors" => Turn(u, g) = Cors(u, g, me)
  BY DEF Turn
<1>7. Stage = "host-header" => Turn(u, g) = HostHeader(u, g, me)
  BY DEF Turn
<1>8. Stage = "cspp" => Turn(u, g) = Cspp(u, g, me)
  BY DEF Turn
<1>9. Stage = "xpath" => Turn(u, g) = XPath(u, g, me)
  BY DEF Turn
<1>10. Stage = "cache-poison" => Turn(u, g) = CachePoison(u, g, me)
  BY DEF Turn
<1>11. Stage = "nosql" => Turn(u, g) = NoSql(u, g, me)
  BY DEF Turn
<1>12. Stage = "ldap" => Turn(u, g) = Ldap(u, g, me)
  BY DEF Turn
<1>13. Stage = "hpp" => Turn(u, g) = Hpp(u, g, me)
  BY DEF Turn
<1>14. Stage = "backup" => Turn(u, g) = Backup(u, g, me, notes)
  BY DEF Turn
<1>15. Stage = "reflection" => Turn(u, g) = Reflection(u, g, me)
  BY DEF Turn
<1>16. Stage = "transformation" => Turn(u, g) = Transformation(u, g, me)
  BY DEF Turn
<1>17. Stage = "api-exposure" => Turn(u, g) = ApiExposure(u, g, me)
  BY DEF Turn
<1>18. Stage = "form-security" => Turn(u, g) = FormSecurity(u, g, me)
  BY DEF Turn
<1>19. Stage = "websocket" => Turn(u, g) = WebSocket(u, g, me)
  BY DEF Turn
<1>20. Stage = "matrix" => Turn(u, g) = Matrix(u, g, me, Other)
  BY DEF Turn
<1> QED BY <1>1, <1>2, <1>3, <1>4, <1>5, <1>6, <1>7, <1>8, <1>9, <1>10, <1>11, <1>12, <1>13, <1>14, <1>15, <1>16, <1>17, <1>18, <1>19, <1>20

\* The listings to look a user up in, the objects to write to.
LEMMA ListsAre ==
    /\ Len(ListSeq) \in Nat /\ \A n \in 1 .. Len(ListSeq) : ListSeq[n] \in Urls /\ List(ListSeq[n])
    /\ Len(Objects) \in Nat /\ \A n \in 1 .. Len(Objects) : Objects[n] \in {"own", "theirs"}
<1>1. Len(ListSeq) \in Nat /\ \A n \in 1 .. Len(ListSeq) : ListSeq[n] \in Urls /\ List(ListSeq[n])
  <2> DEFINE S == {i \in DOMAIN UrlSeq : List(UrlSeq[i])}
  <2>1. S \in SUBSET DOMAIN UrlSeq /\ \A i \in S : UrlSeq[i] \in Urls /\ List(UrlSeq[i])
    BY DepthAssumption
  <2>2. ListSeq = Sublist(UrlSeq, S)
    BY DEF ListSeq, Where
  <2> HIDE DEF S
  <2>3. /\ ListSeq \in Seq(Urls) /\ Len(ListSeq) = Cardinality(S) /\ Cardinality(S) \in Nat
        /\ \A n \in 1 .. Cardinality(S) :
             Nth(S, n) \in S /\ ListSeq[n] = UrlSeq[Nth(S, n)]
    <3>1. UrlSeq \in Seq(Urls)
      BY DepthAssumption
    <3> QED BY ONLY <2>1, <2>2, <3>1, SublistIs
  <2> QED BY <2>1, <2>3
<1>2. Len(Objects) \in Nat /\ \A n \in 1 .. Len(Objects) : Objects[n] \in {"own", "theirs"}
  <2> DEFINE fs == <<"own", "theirs">>
             S == {i \in DOMAIN fs : Noticed(fs[i])}
             X == {"own", "theirs"}
  <2>1. S \in SUBSET DOMAIN fs
    OBVIOUS
  <2>2. fs \in Seq(X)
    OBVIOUS
  <2>3. Objects = Sublist(fs, S)
    BY DEF Objects, Where
  <2> HIDE DEF S, fs, X
  <2>4. /\ Objects \in Seq(X) /\ Len(Objects) = Cardinality(S) /\ Cardinality(S) \in Nat
    BY ONLY <2>1, <2>2, <2>3, SublistIs
  <2>5. \A n \in 1 .. Len(Objects) : Objects[n] \in X
    BY <2>4
  <2> QED BY <2>4, <2>5 DEF X
<1> QED BY <1>1, <1>2

LEMMA TurnAsks ==
    ASSUME NEW u, u.url \in Urls, NEW g, Len(g) \in Nat, Stage \in ToSet(Stages),
           Stage = "api-authz" => u.hdr \in {"fields", "new user", "list", "others"}
    PROVE  AsksFor(Turn(u, g), u)
<1>1. CASE Stage = "gate"
  <2>1. Turn(u, g) = Gate(u, g, me, server.stored, server.marker)
    BY <1>1, TurnIs
  <2>2. AsksFor(Gate(u, g, me, server.stored, server.marker), u)
    BY <1>1, Requests DEF Gate
  <2> QED BY <2>1, <2>2
<1>2. CASE Stage = "api-authz"
  <2>1. Turn(u, g) = ApiAuthz(u, g)
    BY <1>2, TurnIs
  <2>2. AsksFor(ApiAuthz(u, g), u)
    <3> DEFINE as == BaseHeaders(me, Bearer)
    <3>1. CASE u.hdr = "fields"
      <4>1. ApiAuthz(u, g) = MassAssign(u, g, as)
        BY <3>1 DEF ApiAuthz
      <4>2. AsksFor(MassAssign(u, g, as), u)
        BY <1>2, Requests DEF MassAssign, Write
      <4> QED BY <4>1, <4>2
    <3>2. CASE u.hdr = "new user"
      <4>1. ApiAuthz(u, g) = Register(u, g, as, ListSeq)
        BY <3>2 DEF ApiAuthz
      <4>2. \A n \in 1 .. Len(ListSeq) : ListSeq[n] \in Urls
        BY ListsAre
      <4>3. Len(g) # 0 /\ Len(g) <= Len(ListSeq) =>
              AsksFor(Ask(Get(ListSeq[Len(g)], as)), u)
        <5> SUFFICES ASSUME Len(g) # 0, Len(g) <= Len(ListSeq)
                     PROVE  AsksFor(Ask(Get(ListSeq[Len(g)], as)), u)
          OBVIOUS
        <5>0. Len(g) \in 1 .. Len(ListSeq)
          <6>1. Len(ListSeq) \in Nat
            BY ListsAre
          <6> QED BY ONLY <6>1, Len(g) \in Nat, Len(g) # 0, Len(g) <= Len(ListSeq)
        <5>1. ListSeq[Len(g)] \in Urls
          BY <4>2, <5>0
        <5>2. Unbusted(Get(ListSeq[Len(g)], as))
          BY <5>1, Requests
        <5>3. Stage # "cache-poison"
          BY <1>2
        <5>4. \A r : Unbusted(r) => AsksFor(Ask(r), u)
          BY <5>3, Requests
        <5> QED BY ONLY <5>2, <5>4
      <4>4. AsksFor(Ask(Write(u, as, "new user")), u)
        BY <1>2, Requests DEF Write
      <4> HIDE DEF as
      <4>5. AsksFor(Register(u, g, as, ListSeq), u)
        BY <4>3, <4>4, Requests DEF Register
      <4> QED BY <4>1, <4>5
    <3>3. CASE u.hdr = "list"
      <4>1. ApiAuthz(u, g) = Listing(u, g, as)
        BY <3>3 DEF ApiAuthz
      <4>2. AsksFor(Listing(u, g, as), u)
        BY <1>2, Requests DEF Listing
      <4> QED BY <4>1, <4>2
    <3>4. CASE u.hdr = "others"
      <4>1. ApiAuthz(u, g) = WriteOthers(u, g, as, Objects)
        BY <3>4 DEF ApiAuthz
      <4>2. AsksFor(WriteOthers(u, g, as, Objects), u)
        BY <1>2, Requests DEF WriteOthers, Write
      <4> QED BY <4>1, <4>2
    <3> QED BY <1>2, <3>1, <3>2, <3>3, <3>4
  <2> QED BY <2>1, <2>2
<1>3. CASE Stage = "authz"
  <2>1. Turn(u, g) = Authz(u, g, me)
    BY <1>3, TurnIs
  <2>2. AsksFor(Authz(u, g, me), u)
    BY <1>3, Requests DEF Authz
  <2> QED BY <2>1, <2>2
<1>4. CASE Stage = "jwt"
  <2>1. Turn(u, g) = Jwt(u, g, me, server.weak)
    BY <1>4, TurnIs
  <2>2. AsksFor(Jwt(u, g, me, server.weak), u)
    <3> DEFINE n == Len(g)
               Send(k) == Ask(Get(u.url, With(me, "authorization", Forgeries(server.weak)[k])))
    <3>1. \A who : Unbusted(Get(u.url, who))
      BY Requests
    <3>2. \A who : AsksFor(Ask(Get(u.url, who)), u)
                   /\ \A x : AsksFor([Ask(Get(u.url, who)) EXCEPT !.say = x], u)
      BY <1>4, <3>1, Requests
    <3>3. AsksFor(Send(1), u) /\ \A x : AsksFor([Send(n - 1) EXCEPT !.say = x], u)
      BY <3>2
    <3> HIDE DEF Send
    <3>4. \/ Jwt(u, g, me, server.weak) \in {Ask(Get(u.url, me)), Ask(Get(u.url, NoAuth(me))),
                                              Send(1), Skip}
          \/ \E x : Jwt(u, g, me, server.weak) \in {ReportAndStop(x), [Send(n - 1) EXCEPT !.say = x]}
      BY DEF Jwt, Send
    <3> QED BY <3>2, <3>3, <3>4, Requests
  <2> QED BY <2>1, <2>2
<1>5. CASE Stage = "verb"
  <2>1. Turn(u, g) = Verb(u, g, me)
    BY <1>5, TurnIs
  <2>2. AsksFor(Verb(u, g, me), u)
    <3> DEFINE As(method) == [Get(u.url, NoAuth(me)) EXCEPT !.method = method]
               options == [Get(u.url, me) EXCEPT !.method = "OPTIONS"]
    <3>1. /\ Unbusted(Get(u.url, me)) /\ Unbusted(Get(u.url, NoAuth(me)))
          /\ Unbusted(As("GET")) /\ Unbusted(As("HEAD")) /\ Unbusted(options)
      BY Requests
    <3> HIDE DEF As, options
    <3>2. /\ AsksFor(Ask(Get(u.url, me)), u) /\ AsksFor(Ask(Get(u.url, NoAuth(me))), u)
          /\ AsksFor(Ask(As("GET")), u) /\ AsksFor(Ask(As("HEAD")), u)
          /\ AsksFor(Ask(options), u) /\ \A x : AsksFor(ReportAndAsk(x, options), u)
      BY <1>5, <3>1, Requests
    <3>3. \A x : AsksFor(Report(x), u)
      BY Requests
    <3>4. AsksFor(Skip, u)
      BY Requests
    <3> QED BY <3>2, <3>3, <3>4 DEF Verb, As, options
  <2> QED BY <2>1, <2>2
<1>6. CASE Stage = "cors"
  <2>1. Turn(u, g) = Cors(u, g, me)
    BY <1>6, TurnIs
  <2>2. AsksFor(Cors(u, g, me), u)
    BY <1>6, Requests DEF Cors
  <2> QED BY <2>1, <2>2
<1>7. CASE Stage = "host-header"
  <2>1. Turn(u, g) = HostHeader(u, g, me)
    BY <1>7, TurnIs
  <2>2. AsksFor(HostHeader(u, g, me), u)
    BY <1>7, Requests DEF HostHeader
  <2> QED BY <2>1, <2>2
<1>8. CASE Stage = "cspp"
  <2>1. Turn(u, g) = Cspp(u, g, me)
    BY <1>8, TurnIs
  <2>2. AsksFor(Cspp(u, g, me), u)
    BY <1>8, Requests DEF Cspp
  <2> QED BY <2>1, <2>2
<1>9. CASE Stage = "xpath"
  <2>1. Turn(u, g) = XPath(u, g, me)
    BY <1>9, TurnIs
  <2>2. AsksFor(XPath(u, g, me), u)
    BY <1>9, Requests DEF XPath
  <2> QED BY <2>1, <2>2
<1>10. CASE Stage = "cache-poison"
  <2>1. Turn(u, g) = CachePoison(u, g, me)
    BY <1>10, TurnIs
  <2>2. AsksFor(CachePoison(u, g, me), u)
    <3> DEFINE r1 == Busted(Poison(u.url, me, u.hdr))
               r2 == Busted(Get(u.url, me))
    <3>1. /\ r1.url = u.url /\ r1.busted = TRUE /\ r2.url = u.url /\ r2.busted = TRUE
      BY DEF Busted, Poison, Get
    <3> HIDE DEF r1, r2
    <3>2. AsksFor(Ask(r1), u) /\ AsksFor(Ask(r2), u)
      BY <1>10, <3>1 DEF AsksFor, Ask
    <3>3. \/ CachePoison(u, g, me) \in {Ask(r1), Ask(r2), Skip}
          \/ \E x : CachePoison(u, g, me) = ReportAndStop(x)
      BY DEF CachePoison, r1, r2
    <3> QED BY <3>2, <3>3, Requests
  <2> QED BY <2>1, <2>2
<1>11. CASE Stage = "nosql"
  <2>1. Turn(u, g) = NoSql(u, g, me)
    BY <1>11, TurnIs
  <2>2. AsksFor(NoSql(u, g, me), u)
    BY <1>11, Requests DEF NoSql, Differential
  <2> QED BY <2>1, <2>2
<1>12. CASE Stage = "ldap"
  <2>1. Turn(u, g) = Ldap(u, g, me)
    BY <1>12, TurnIs
  <2>2. AsksFor(Ldap(u, g, me), u)
    BY <1>12, Requests DEF Ldap, Differential
  <2> QED BY <2>1, <2>2
<1>13. CASE Stage = "hpp"
  <2>1. Turn(u, g) = Hpp(u, g, me)
    BY <1>13, TurnIs
  <2>2. AsksFor(Hpp(u, g, me), u)
    BY <1>13, Requests DEF Hpp
  <2> QED BY <2>1, <2>2
<1>14. CASE Stage = "backup"
  <2>1. Turn(u, g) = Backup(u, g, me, notes)
    BY <1>14, TurnIs
  <2>2. AsksFor(Backup(u, g, me, notes), u)
    BY <1>14, Requests DEF Backup
  <2> QED BY <2>1, <2>2
<1>15. CASE Stage = "reflection"
  <2>1. Turn(u, g) = Reflection(u, g, me)
    BY <1>15, TurnIs
  <2>2. AsksFor(Reflection(u, g, me), u)
    BY <1>15, Requests DEF Reflection
  <2> QED BY <2>1, <2>2
<1>16. CASE Stage = "transformation"
  <2>1. Turn(u, g) = Transformation(u, g, me)
    BY <1>16, TurnIs
  <2>2. AsksFor(Transformation(u, g, me), u)
    BY <1>16, Requests DEF Transformation
  <2> QED BY <2>1, <2>2
<1>17. CASE Stage = "api-exposure"
  <2>1. Turn(u, g) = ApiExposure(u, g, me)
    BY <1>17, TurnIs
  <2>2. AsksFor(ApiExposure(u, g, me), u)
    BY <1>17, Requests DEF ApiExposure
  <2> QED BY <2>1, <2>2
<1>18. CASE Stage = "form-security"
  <2>1. Turn(u, g) = FormSecurity(u, g, me)
    BY <1>18, TurnIs
  <2>2. AsksFor(FormSecurity(u, g, me), u)
    BY <1>18, Requests DEF FormSecurity
  <2> QED BY <2>1, <2>2
<1>19. CASE Stage = "websocket"
  <2>1. Turn(u, g) = WebSocket(u, g, me)
    BY <1>19, TurnIs
  <2>2. AsksFor(WebSocket(u, g, me), u)
    <3> DEFINE n == Len(g)
               bare == [Get(u.url, NoAuth(me)) EXCEPT !.method = IF n = 1 THEN "POST" ELSE "GET"]
               post == [Get(u.url, me) EXCEPT !.method = "POST"]
    <3>1. Unbusted(bare) /\ Unbusted(post) /\ Unbusted(Get(u.url, me))
      BY Requests
    <3> HIDE DEF bare, post
    <3>2. AsksFor(Ask(bare), u) /\ AsksFor(Ask(post), u) /\ AsksFor(Ask(Get(u.url, me)), u)
      BY <1>19, <3>1, Requests
    <3>3. \/ WebSocket(u, g, me) \in {Ask(bare), Ask(post), Ask(Get(u.url, me)), Skip}
          \/ \E x : WebSocket(u, g, me) = Report(x)
      BY DEF WebSocket, bare, post
    <3> QED BY <3>2, <3>3, Requests
  <2> QED BY <2>1, <2>2
<1>20. CASE Stage = "matrix"
  <2>1. Turn(u, g) = Matrix(u, g, me, Other)
    BY <1>20, TurnIs
  <2>2. AsksFor(Matrix(u, g, me, Other), u)
    BY <1>20, Requests DEF Matrix
  <2> QED BY <2>1, <2>2
<1> QED BY <1>1, <1>2, <1>3, <1>4, <1>5, <1>6, <1>7, <1>8, <1>9, <1>10, <1>11, <1>12, <1>13, <1>14, <1>15, <1>16, <1>17, <1>18, <1>19, <1>20, StageNames

-----------------------------------------------------------------------------
(***************************************************************************)
(* Facts every stage uses.                                                 *)
(***************************************************************************)
\* What the forms of a turn say and ask.
LEMMA Forms ==
    /\ Skip.say = {} /\ Skip.ask = <<>>
    /\ \A r : Ask(r).say = {} /\ Ask(r).ask = <<r>> /\ Ask(r).ask # <<>> /\ Ask(r).ask[1] = r
    /\ \A x, r : /\ ReportAndAsk(x, r).say = x /\ ReportAndAsk(x, r).ask = <<r>>
                 /\ ReportAndAsk(x, r).ask # <<>> /\ ReportAndAsk(x, r).ask[1] = r
                 /\ [Ask(r) EXCEPT !.say = x] = ReportAndAsk(x, r)
    /\ \A x : /\ Report(x).say = x /\ Report(x).ask = <<>>
              /\ ReportAndStop(x).say = x /\ ReportAndStop(x).ask = <<>>
BY DEF Skip, Ask, ReportAndAsk, Report, ReportAndStop

\* The parts of a request.
LEMMA Parts ==
    \A v, who :
        /\ LET r == Get(v, who)
           IN  /\ r.url = v /\ r.who = who /\ r.method = "GET" /\ r.input = "own"
               /\ r.hdr = "none"
        /\ \A x : LET r == Put(v, who, x)
                  IN  /\ r.url = v /\ r.who = who /\ r.method = "GET" /\ r.input = x
                      /\ r.hdr = "none"
        /\ \A x : LET r == Poison(v, who, x)
                  IN  /\ r.url = v /\ r.who = who /\ r.method = "GET" /\ r.input = "own"
                      /\ r.hdr = x
        /\ \A m : LET r == [Get(v, who) EXCEPT !.method = m]
                  IN  /\ r.url = v /\ r.who = who /\ r.method = m /\ r.input = "own"
                      /\ r.hdr = "none"
        /\ \A x, m : LET r == [Put(v, who, x) EXCEPT !.method = m]
                     IN  /\ r.url = v /\ r.who = who /\ r.method = m /\ r.input = x
                         /\ r.hdr = "none"
BY DEF Get, Put, Poison

\* The identities of account A, and what is left of them without credentials.
OfA(who) == \A h \in Headers : who[h] \in {"none", "A"}

LEMMA Identities ==
    ASSUME me \in Sessions
    PROVE  /\ OfA(me) /\ OfA(Bare(me)) /\ OfA(NoAuth(me)) /\ OfA(CookieOnly(me))
           /\ me["cookie"] = "none" => \A h \in Headers : CookieOnly(me)[h] = "none"
           /\ \A h \in Headers : NoAuth(me)[h] = "A" => me[h] = "A"
BY DEF Sessions, OfA, Bare, NoAuth, CookieOnly, Without, Headers

\* Under such an identity a page is read where it is open, or with A's session
\* alive; and what A may read is A's.
LEMMA ReadsBy ==
    ASSUME server \in Servers, NEW r, r.url \in Urls, OfA(r.who), Reads(r)
    PROVE  \/ Nature(r).guard = "open"
           \/ "method" \in Nature(r).flaws /\ r.method \notin {"GET", "POST"}
           \/ \E h \in server.honours : r.who[h] = "A" /\ alive
<1>1. server.honours \subseteq Headers
  BY DepthAssumption
<1> QED BY <1>1 DEF Reads, Bypasses, Valid, OfA

LEMMA OwnsOwn ==
    ASSUME server \in Servers, NEW r, r.url \in Urls, OfA(r.who), Reads(r),
           r.input \notin {"nextid", "theirs"}
    PROVE  Owns(r)
<1>1. server.honours \subseteq Headers
  BY DepthAssumption
<1> QED BY <1>1, ReadsBy DEF Owns, Bypasses

\* A mark on an answer, but for those of the login page, is the mark of a page.
LEMMA Marked ==
    ASSUME NEW r, NEW a, Plausible(r, a), r.input \notin Copies,
           NEW m \in a.marks, m \notin {"form", "at login", "hosted"}
    PROVE  Serves(r, a) /\ Page(r, a)
BY DEF Plausible, Nothing, Overload, Refuses, AtLogin, FromLogin, Serves, Copied

\* A forged host comes from a flaw of the page, or of the login page that a
\* redirect led to; without a forged header it comes from a cache.
LEMMA HostedBy ==
    ASSUME NEW r, NEW a, Plausible(r, a), r.input \notin Copies, "hosted" \in a.marks
    PROVE  \/ /\ "host" \in Nature(r).flaws
              /\ r.hdr = "none" => "cached" \in Nature(r).habits
           \/ /\ ~Reads(r) /\ Nature(r).refusal = "redirect" /\ Follows(r)
              /\ "host" \in server.login
              /\ r.hdr = "none" => "cached" \in server.login
<1>1. Refuses(r, a) \/ Serves(r, a)
  BY DEF Plausible, Nothing, Overload, Copied
<1>2. CASE Refuses(r, a)
  <2>1. "hosted" \notin {} /\ "hosted" \notin {"form"}
    OBVIOUS
  <2>2. ~Reads(r) /\ Nature(r).refusal = "redirect" /\ Follows(r) /\ AtLogin(r, a.marks)
    BY <1>2, <2>1 DEF Refuses
  <2> QED BY <2>2 DEF AtLogin, FromLogin
<1>3. CASE Serves(r, a)
  BY <1>3 DEF Serves, Page, Fair
<1> QED BY <1>1, <1>2, <1>3

\* What each mark tells.
LEMMA Signs ==
    ASSUME NEW r, NEW a, Plausible(r, a), r.input \notin Copies
    PROVE  LET n == server.at[r.url]
           IN  /\ "both" \in a.marks => "both" \in n.flaws
               /\ "link" \in a.marks => "link" \in n.flaws
               /\ "canary" \in a.marks => "canary" \in n.flaws
               /\ "evaluated" \in a.marks => "evaluated" \in n.flaws
               /\ "escaped" \in a.marks => "escaped" \in n.flaws
               /\ "echo" \in a.marks => "echoes" \in n.flaws
               /\ "acao-evil" \in a.marks => "origin" \in n.flaws
               /\ "acao-null" \in a.marks => "null" \in n.flaws
               /\ "acao-star" \in a.marks => "star" \in n.flaws
               /\ "acac" \in a.marks => "creds" \in n.flaws
               /\ "records" \in a.marks => "records" \in n.habits /\ Reads(r)
               /\ "well-formed" \in a.marks => "well-formed" \in n.habits
               /\ "hub" \in a.marks => "hub" \in n.habits /\ Reads(r)
<1>1. CASE a.marks \subseteq {"form", "at login", "hosted"}
  <2>1. \A m \in a.marks : m = "form" \/ m = "at login" \/ m = "hosted"
    BY <1>1
  <2> QED BY <2>1
<1>2. CASE ~ (a.marks \subseteq {"form", "at login", "hosted"})
  <2>1. PICK m \in a.marks : m \notin {"form", "at login", "hosted"}
    BY <1>2
  <2>2. Page(r, a) /\ Reads(r)
    BY <2>1, Marked DEF Serves
  <2> QED BY <2>2 DEF Page, Fair, Nature
<1> QED BY <1>1, <1>2

-----------------------------------------------------------------------------
(***************************************************************************)
(* What the answers a stage keeps tell it: the stages that compare them.   *)
(***************************************************************************)
\* The first answer is a page of the usual size, unless it was a refusal.
Weighed(g) ==
    /\ Len(g) >= 1 => g[1].is = "refusal" \/ ~Served(g[1]) \/ g[1].size \in {20, 4}
    /\ Len(g) >= 2 => Served(g[1])

\* Without the token the endpoint refused, unless it was a block.
Shut(n) == n.guard = "locked" /\ n.refusal = "unauthorized"
Denied(a) == a.st \in {401, 403}
Oracle(n, weak, g) ==
    /\ Len(g) <= 1 + Len(Forgeries(weak))
    /\ Len(g) >= 2 /\ Denied(g[2]) => g[2].is = "block" \/ Shut(n)
    /\ Len(g) >= 3 => Denied(g[2])

\* ... and what it refused can no longer be a session it knows; what a method
\* then opened is a flaw.
Unread(hs, who, lives) == \A h \in hs : who[h] = "A" => ~lives
Protected(n, hs, who, lives, g) ==
    /\ Len(g) >= 2 /\ Denied(g[2]) =>
         g[2].is = "block" \/ (Shut(n) /\ Unread(hs, who, lives))
    /\ Len(g) >= 3 /\ Denied(g[2]) /\ Served(g[3]) =>
         g[2].is = "block" \/ "method" \in n.flaws

\* A handshake is a hub's.
Shaken(n, g) == \A i \in 1 .. Len(g) : "hub" \in g[i].marks => "hub" \in n.habits

\* The baseline of an injection test shows the parser errors every page shows.
Baseline(n, g) ==
    /\ Len(g) >= 1 =>
         \/ g[1].is \in {"block", "refusal"} \/ g[1].st = 0
         \/ "moody" \in n.habits
         \/ g[1].size = 20 /\ ("errs" \in n.habits => Engines \subseteq g[1].marks)
    /\ Len(g) >= 2 => g[1].st # 0

\* The user a successful registration made is privileged only by the flaw.
Succeeded(a) == a.is = "page" /\ ~(a.st >= 300)
Enrolled(n, us, fs, g) ==
    /\ Len(g) >= 1 =>
         \/ g[1].st = 0 \/ g[1].st >= 300 \/ g[1].is = "refusal"
         \/ /\ Succeeded(g[1])
            /\ [n |-> Cardinality(fs), priv |-> TRUE] \in us => "elevates" \in n.flaws
    /\ Len(g) >= 2 => g[1].st # 0

Past(u, g, us) ==
    LET n == server.at[u.url]
    IN  /\ Stage \in {"authz", "matrix"} => Weighed(g)
        /\ Stage = "jwt" => Oracle(n, server.weak, g)
        /\ Stage = "verb" => Protected(n, server.honours, NoAuth(me), alive, g)
        /\ Stage = "websocket" => Shaken(n, g)
        /\ Stage \in Engines => Baseline(n, g)
        /\ Stage = "api-authz" /\ u.hdr = "new user" => Enrolled(n, us, found, g)

\* One answer more to a unit of the stage.
Step(u, g, a, h) ==
    /\ server \in Servers /\ me \in Sessions /\ u.url \in Urls
    /\ Len(g) \in Nat /\ (g = <<>> <=> Len(g) = 0)
    /\ Len(h) = Len(g) + 1 /\ h # <<>> /\ h[Len(g) + 1] = a
    /\ \A i \in 1 .. Len(g) : h[i] = g[i]
    /\ Turn(u, g).ask # <<>> /\ Plausible(Turn(u, g).ask[1], a)

\* What is said then is so, or one of the named cases, and what is kept is as
\* above.
Finding(k, u, h) == [kind |-> k, url |-> u.url, got |-> h]
Sound(k, u, h) ==
    /\ Right(Finding(k, u, h)) \/ Misled(Finding(k, u, h))
    /\ k = "backup" => Stage = "backup" /\ u.hdr # "baseline"
Follow(u, h, us) ==
    /\ \A k \in Turn(u, h).say : Sound(k, u, h)
    /\ Turn(u, h).ask # <<>> => Past(u, h, us)

LEMMA Keeps ==
    ASSUME Stage \notin {"authz", "matrix", "jwt", "verb", "websocket", "api-authz"} \union Engines
    PROVE  \A u, g, us : Past(u, g, us)
BY DEF Past

LEMMA Findings ==
    \A k, u, h : LET f == Finding(k, u, h) IN f.kind = k /\ f.url = u.url /\ f.got = h
BY DEF Finding

\* What makes each finding right, as Right says it kind by kind.
LEMMA RightIs ==
    ASSUME NEW f
    PROVE
      LET n == server.at[f.url]
      IN  /\ f.kind \in {"refused", "idor-suspect", "methods-advertised", "csrf"} => Right(f)
          /\ f.kind = "mass-echo" => (Right(f) <=> "echoes" \in n.flaws)
          /\ f.kind = "mass-persisted" => (Right(f) <=> "elevates" \in n.flaws)
          /\ f.kind = "bola-write" =>
               (Right(f) <=> n.guard = "open" \/ "object" \in n.flaws \/ "method" \in n.flaws)
          /\ f.kind = "exposed" => (Right(f) <=> n.guard = "open" /\ "records" \in n.habits)
          /\ f.kind = "exposed-with-session" => (Right(f) <=> "records" \in n.habits)
          /\ f.kind \in {"broken-auth", "hub-open"} => (Right(f) <=> n.guard = "open")
          /\ f.kind = "broken-token-validation" =>
               (Right(f) <=> n.guard = "open" \/ "token" \in n.flaws)
          /\ f.kind = "jwt-forged" => (Right(f) <=> n.guard = "locked" /\ "token" \in n.flaws)
          /\ f.kind = "jwt-weak-secret" => (Right(f) <=> server.weak)
          /\ f.kind = "verb-bypass" => (Right(f) <=> n.guard = "locked" /\ "method" \in n.flaws)
          /\ f.kind = "hub-guarded" => (Right(f) <=> n.guard = "locked")
          /\ f.kind = "bola" => (Right(f) <=> "object" \in n.flaws \/ n.guard = "open")
          /\ f.kind = "credentials" =>
               (Right(f) <=> "creds" \in n.flaws /\ ("origin" \in n.flaws \/ "star" \in n.flaws))
          /\ f.kind = "reflected" => (Right(f) <=> "origin" \in n.flaws)
          /\ f.kind = "null" => (Right(f) <=> "null" \in n.flaws)
          /\ f.kind = "host-header" => (Right(f) <=> "host" \in n.flaws)
          /\ f.kind = "cache-poisoning" =>
               (Right(f) <=> \/ "host" \in n.flaws /\ "cached" \in n.habits
                             \/ /\ n.guard = "locked" /\ n.refusal = "redirect"
                                /\ server.login = {"host", "cached"})
          /\ f.kind = "cspp" => (Right(f) <=> "link" \in n.flaws)
          /\ f.kind = "reflected-input" => (Right(f) <=> "canary" \in n.flaws)
          /\ f.kind = "template" => (Right(f) <=> "evaluated" \in n.flaws)
          /\ f.kind = "escape" => (Right(f) <=> "escaped" \in n.flaws)
          /\ f.kind = "hpp" => (Right(f) <=> "both" \in n.flaws)
          /\ f.kind = "backup" => (Right(f) <=> "leftover" \in n.flaws)
          /\ f.kind \in Engines => (Right(f) <=> f.kind \in n.flaws)
BY DEF Right, Engines

\* ... and what excuses it, as Misled says it.
LEMMA MisledIs ==
    ASSUME NEW f
    PROVE
      LET n == Len(f.got)
          Carried(i) == \E h \in server.honours : f.got[i].who[h] = "A"
      IN  /\ /\ f.kind = "mass-persisted"
             /\ \/ f.got[1].st >= 300 \/ f.got[1].is = "refusal"
                \/ \E v \in Urls : List(v) /\ "cached" \in server.at[v].habits
             => Misled(f)
          /\ f.kind = "bola-write" /\ (f.got[n].is = "refusal" \/ f.got[n].input = "own")
             => Misled(f)
          /\ /\ f.kind \in {"broken-auth", "broken-token-validation", "bola"}
             /\ \/ f.got[1].is = "refusal"
                \/ f.got[n].is = "refusal" /\ "lookalike" \in server.at[f.url].habits
             => Misled(f)
          /\ f.kind \in {"jwt-forged", "verb-bypass"} /\ f.got[2].is = "block" => Misled(f)
          /\ f.kind = "hub-guarded" /\ f.got[n].is \in {"lost", "block"} => Misled(f)
          /\ f.kind \in {"broken-auth", "broken-token-validation", "jwt-forged", "bola"}
               /\ (\E i \in 2 .. n : Carried(i))
             => Misled(f)
          /\ f.kind = "hub-open" /\ Carried(n) => Misled(f)
          /\ f.kind \in Engines /\ (\E i \in 1 .. n : f.got[i].is \in {"block", "refusal"})
             => Misled(f)
          /\ f.kind \in Engines /\ "moody" \in server.at[f.url].habits => Misled(f)
          /\ /\ f.kind = "backup" /\ "catchall" \in server.at[f.url].habits
             /\ \E p \in Missing(f.url) : [size |-> p.size, marks |-> p.marks] \notin notes
             => Misled(f)
BY DEF Misled

\* Stages that say at once what one mark shows.
LEMMA GateIsSound ==
    ASSUME NEW u, NEW g, NEW a, NEW h, Step(u, g, a, h), Stage = "gate"
    PROVE  \A us : Follow(u, h, us)
<1>1. Turn(u, h) \in {Skip, ReportAndStop({"refused"})}
  BY TurnIs DEF Gate, Step
<1>2. Sound("refused", u, h)
  BY Findings, RightIs DEF Sound
<1> QED BY <1>1, <1>2, Forms, Keeps DEF Follow, Engines

LEMMA HostHeaderIsSound ==
    ASSUME NEW u, NEW g, NEW a, NEW h, Step(u, g, a, h), Stage = "host-header"
    PROVE  \A us : Follow(u, h, us)
<1> DEFINE r == Poison(u.url, me, u.hdr)
<1>1. Turn(u, g) = Ask(r) /\ g = <<>> /\ h[1] = a /\ h # <<>>
  <2>1. Turn(u, g) = HostHeader(u, g, me) /\ Turn(u, g).ask # <<>>
    BY TurnIs DEF Step
  <2>2. g # <<>> => HostHeader(u, g, me).ask = <<>>
    BY Forms DEF HostHeader
  <2>3. g = <<>> => h[1] = a
    BY DEF Step
  <2> QED BY <2>1, <2>2, <2>3 DEF HostHeader, Step
<1>2. Plausible(r, a)
  BY <1>1, Forms DEF Step
<1>3. \A k \in Turn(u, h).say : k = "host-header" /\ "hosted" \in a.marks
  BY <1>1, TurnIs, Forms DEF HostHeader, Step, If
<1>4. Turn(u, h).ask = <<>>
  BY <1>1, TurnIs, Forms DEF HostHeader, Step
<1>5. "hosted" \in a.marks => "host" \in server.at[u.url].flaws
  <2>1. r.url = u.url /\ r.input \notin Copies
    BY Parts DEF Copies
  <2>2. ~Follows(r)
    BY DEF Follows
  <2> HIDE DEF r
  <2> QED BY <1>2, <2>1, <2>2, HostedBy DEF Nature
<1>6. "hosted" \in a.marks => Sound("host-header", u, h)
  BY <1>5, Findings, RightIs DEF Sound
<1> QED BY <1>3, <1>4, <1>6 DEF Follow

LEMMA CsppIsSound ==
    ASSUME NEW u, NEW g, NEW a, NEW h, Step(u, g, a, h), Stage = "cspp"
    PROVE  \A us : Follow(u, h, us)
<1> DEFINE r == Put(u.url, me, "pollute")
<1>1. Turn(u, g) = Ask(r) /\ g = <<>> /\ h[1] = a /\ h # <<>>
  <2>1. Turn(u, g) = Cspp(u, g, me) /\ Turn(u, g).ask # <<>>
    BY TurnIs DEF Step
  <2>2. g # <<>> => Cspp(u, g, me).ask = <<>>
    BY Forms DEF Cspp
  <2>3. g = <<>> => h[1] = a
    BY DEF Step
  <2> QED BY <2>1, <2>2, <2>3 DEF Cspp, Step
<1>2. Plausible(r, a)
  BY <1>1, Forms DEF Step
<1>3. \A k \in Turn(u, h).say : k = "cspp" /\ "link" \in a.marks
  BY <1>1, TurnIs, Forms DEF Cspp, Step, If
<1>4. Turn(u, h).ask = <<>>
  BY <1>1, TurnIs, Forms DEF Cspp, Step
<1>5. "link" \in a.marks => "link" \in server.at[u.url].flaws
  <2>1. r.url = u.url /\ r.input \notin Copies
    BY Parts DEF Copies
  <2> HIDE DEF r
  <2> QED BY <1>2, <2>1, Signs
<1>6. "link" \in a.marks => Sound("cspp", u, h)
  BY <1>5, Findings, RightIs DEF Sound
<1> QED BY <1>3, <1>4, <1>6 DEF Follow

LEMMA ReflectionIsSound ==
    ASSUME NEW u, NEW g, NEW a, NEW h, Step(u, g, a, h), Stage = "reflection"
    PROVE  \A us : Follow(u, h, us)
<1> DEFINE r == Put(u.url, me, "canary")
<1>1. Turn(u, g) = Ask(r) /\ g = <<>> /\ h[1] = a /\ h # <<>>
  <2>1. Turn(u, g) = Reflection(u, g, me) /\ Turn(u, g).ask # <<>>
    BY TurnIs DEF Step
  <2>2. g # <<>> => Reflection(u, g, me).ask = <<>>
    BY Forms DEF Reflection
  <2>3. g = <<>> => h[1] = a
    BY DEF Step
  <2> QED BY <2>1, <2>2, <2>3 DEF Reflection, Step
<1>2. Plausible(r, a)
  BY <1>1, Forms DEF Step
<1>3. \A k \in Turn(u, h).say : k = "reflected-input" /\ "canary" \in a.marks
  BY <1>1, TurnIs, Forms DEF Reflection, Step, If
<1>4. Turn(u, h).ask = <<>>
  BY <1>1, TurnIs, Forms DEF Reflection, Step
<1>5. "canary" \in a.marks => "canary" \in server.at[u.url].flaws
  <2>1. r.url = u.url /\ r.input \notin Copies
    BY Parts DEF Copies
  <2> HIDE DEF r
  <2> QED BY <1>2, <2>1, Signs
<1>6. "canary" \in a.marks => Sound("reflected-input", u, h)
  BY <1>5, Findings, RightIs DEF Sound
<1> QED BY <1>3, <1>4, <1>6 DEF Follow

LEMMA CorsIsSound ==
    ASSUME NEW u, NEW g, NEW a, NEW h, Step(u, g, a, h), Stage = "cors"
    PROVE  \A us : Follow(u, h, us)
<1>1. Turn(u, g) = Cors(u, g, me) /\ Turn(u, h) = Cors(u, h, me) /\ Turn(u, g).ask # <<>>
  BY TurnIs DEF Step
<1>2. Len(g) \in {0, 1} /\ \E x : Turn(u, g).ask[1] = Poison(u.url, me, x)
  <2>1. CASE Len(g) = 0
    BY <1>1, <2>1, Forms DEF Cors
  <2>2. CASE Len(g) = 1
    BY <1>1, <2>2, Forms DEF Cors
  <2>3. CASE Len(g) \notin {0, 1}
    BY <1>1, <2>3, Forms DEF Cors
  <2> QED BY <2>1, <2>2, <2>3
<1>3. PICK x : Turn(u, g).ask[1] = Poison(u.url, me, x)
  BY <1>2
<1> DEFINE r == Poison(u.url, me, x)
           n == server.at[u.url]
<1>4. Plausible(r, a) /\ r.url = u.url /\ r.input \notin Copies
  BY <1>3, Parts DEF Step, Copies
<1> HIDE DEF r
<1>5. /\ "acao-evil" \in a.marks => "origin" \in n.flaws
      /\ "acao-null" \in a.marks => "null" \in n.flaws
      /\ "acao-star" \in a.marks => "star" \in n.flaws
      /\ "acac" \in a.marks => "creds" \in n.flaws
  BY <1>4, Signs
<1>6. Len(h) \in {1, 2} /\ h[Len(h)] = a
  BY <1>2 DEF Step
<1>7. ASSUME NEW k \in Turn(u, h).say
      PROVE  \/ k = "reflected" /\ "acao-evil" \in a.marks
             \/ k = "credentials" /\ "acac" \in a.marks
                  /\ ("acao-star" \in a.marks \/ "acao-evil" \in a.marks)
             \/ k = "null" /\ "acao-null" \in a.marks
  <2>1. CASE Len(h) = 1
    BY <1>1, <1>6, <1>7, <2>1, Forms DEF Cors, If
  <2>2. CASE Len(h) = 2
    BY <1>1, <1>6, <1>7, <2>2, Forms DEF Cors, If
  <2> QED BY <1>6, <2>1, <2>2
<1>8. \A k \in Turn(u, h).say : Sound(k, u, h)
  BY <1>5, <1>7, Findings, RightIs DEF Sound
<1> QED BY <1>8, Keeps DEF Follow, Engines

LEMMA CachePoisonIsSound ==
    ASSUME NEW u, NEW g, NEW a, NEW h, Step(u, g, a, h), Stage = "cache-poison"
    PROVE  \A us : Follow(u, h, us)
<1> DEFINE r == Busted(Get(u.url, me))
           n == server.at[u.url]
<1>1. /\ Turn(u, g) = CachePoison(u, g, me) /\ Turn(u, h) = CachePoison(u, h, me)
      /\ Turn(u, g).ask # <<>>
  BY TurnIs DEF Step
<1>2. /\ Len(g) \in {0, 1}
      /\ Len(g) = 1 => Turn(u, g).ask[1] = r
  <2>1. CASE Len(g) = 0
    BY <2>1
  <2>2. CASE Len(g) = 1
    BY <1>1, <2>2, Forms DEF CachePoison
  <2>3. CASE Len(g) \notin {0, 1}
    BY <1>1, <2>3, Forms DEF CachePoison
  <2> QED BY <2>1, <2>2, <2>3
<1>3. CASE Len(g) = 0
  <2>1. Len(h) = 1
    BY <1>3 DEF Step
  <2>2. Turn(u, h).say = {}
    BY <1>1, <2>1, Forms DEF CachePoison
  <2> QED BY <2>2, Keeps DEF Follow, Engines
<1>4. CASE Len(g) = 1
  <2>1. Len(h) = 2 /\ h[2] = a
    BY <1>4 DEF Step
  <2>2. Plausible(r, a)
    BY <1>2, <1>4 DEF Step
  <2>3. r.url = u.url /\ r.input \notin Copies /\ r.hdr = "none"
    BY DEF Busted, Get, Copies
  <2> HIDE DEF r
  <2>4. "hosted" \in a.marks => \/ "host" \in n.flaws /\ "cached" \in n.habits
                                \/ /\ n.guard = "locked" /\ n.refusal = "redirect"
                                   /\ server.login = {"host", "cached"}
    <3>1. n.guard \in {"open", "locked"} /\ server.login \subseteq {"host", "cached"}
      BY DepthAssumption DEF Step, Natures
    <3>2. n = Nature(r) /\ (~Reads(r) => n.guard # "open")
      BY <2>3 DEF Nature, Reads
    <3> HIDE DEF n
    <3> QED BY <2>2, <2>3, <3>1, <3>2, HostedBy
  <2>5. \A k \in Turn(u, h).say : k = "cache-poisoning" /\ "hosted" \in a.marks
    BY <1>1, <2>1, Forms DEF CachePoison
  <2>6. \A k \in Turn(u, h).say : Sound(k, u, h)
    BY <2>4, <2>5, Findings, RightIs DEF Sound
  <2> QED BY <2>6, Keeps DEF Follow, Engines
<1> QED BY <1>2, <1>3, <1>4

LEMMA HppIsSound ==
    ASSUME NEW u, NEW g, NEW a, NEW h, Step(u, g, a, h), Stage = "hpp"
    PROVE  \A us : Follow(u, h, us)
<1> DEFINE r == Put(u.url, me, "double")
           n == server.at[u.url]
<1>1. Turn(u, g) = Hpp(u, g, me) /\ Turn(u, h) = Hpp(u, h, me) /\ Turn(u, g).ask # <<>>
  BY TurnIs DEF Step
<1>2. /\ Len(g) \in {0, 1}
      /\ Len(g) = 1 => Turn(u, g).ask[1] = r
  <2>1. CASE Len(g) = 0
    BY <2>1
  <2>2. CASE Len(g) = 1
    BY <1>1, <2>2, Forms DEF Hpp
  <2>3. CASE Len(g) \notin {0, 1}
    BY <1>1, <2>3, Forms DEF Hpp
  <2> QED BY <2>1, <2>2, <2>3
<1>3. CASE Len(g) = 0
  <2>1. Len(h) = 1
    BY <1>3 DEF Step
  <2>2. Turn(u, h).say = {}
    BY <1>1, <2>1, Forms DEF Hpp
  <2> QED BY <2>2, Keeps DEF Follow, Engines
<1>4. CASE Len(g) = 1
  <2>1. Len(h) = 2 /\ h[2] = a
    BY <1>4 DEF Step
  <2>2. Plausible(r, a)
    BY <1>2, <1>4 DEF Step
  <2>3. r.url = u.url /\ r.input \notin Copies
    BY Parts DEF Copies
  <2> HIDE DEF r
  <2>4. "both" \in a.marks => "both" \in n.flaws
    BY <2>2, <2>3, Signs
  <2>5. \A k \in Turn(u, h).say : k = "hpp" /\ "both" \in a.marks
    BY <1>1, <2>1, Forms DEF Hpp
  <2>6. \A k \in Turn(u, h).say : Sound(k, u, h)
    BY <2>4, <2>5, Findings, RightIs DEF Sound
  <2> QED BY <2>6, Keeps DEF Follow, Engines
<1> QED BY <1>2, <1>3, <1>4

LEMMA TransformationIsSound ==
    ASSUME NEW u, NEW g, NEW a, NEW h, Step(u, g, a, h), Stage = "transformation"
    PROVE  \A us : Follow(u, h, us)
<1> DEFINE n == server.at[u.url]
<1>1. /\ Turn(u, g) = Transformation(u, g, me) /\ Turn(u, h) = Transformation(u, h, me)
      /\ Turn(u, g).ask # <<>>
  BY TurnIs DEF Step
<1>2. /\ Len(g) \in {0, 1}
      /\ \E x \in {"expression", "quote"} : Turn(u, g).ask[1] = Put(u.url, me, x)
  <2>1. CASE Len(g) = 0
    BY <1>1, <2>1, Forms DEF Transformation
  <2>2. CASE Len(g) = 1
    BY <1>1, <2>2, Forms DEF Transformation
  <2>3. CASE Len(g) \notin {0, 1}
    BY <1>1, <2>3, Forms DEF Transformation, If
  <2> QED BY <2>1, <2>2, <2>3
<1>3. PICK x \in {"expression", "quote"} : Turn(u, g).ask[1] = Put(u.url, me, x)
  BY <1>2
<1> DEFINE r == Put(u.url, me, x)
<1>4. Plausible(r, a) /\ r.url = u.url /\ r.input \notin Copies
  BY <1>3, Parts DEF Step, Copies
<1> HIDE DEF r
<1>5. /\ "evaluated" \in a.marks => "evaluated" \in n.flaws
      /\ "escaped" \in a.marks => "escaped" \in n.flaws
  BY <1>4, Signs
<1>6. Len(h) \in {1, 2} /\ h[Len(h)] = a
  BY <1>2 DEF Step
<1>7. ASSUME NEW k \in Turn(u, h).say
      PROVE  \/ k = "template" /\ "evaluated" \in a.marks
             \/ k = "escape" /\ "escaped" \in a.marks
  <2>1. CASE Len(h) = 1
    BY <1>1, <1>6, <1>7, <2>1, Forms DEF Transformation
  <2>2. CASE Len(h) = 2
    BY <1>1, <1>6, <1>7, <2>2, Forms DEF Transformation, If
  <2> QED BY <1>6, <2>1, <2>2
<1>8. \A k \in Turn(u, h).say : Sound(k, u, h)
  BY <1>5, <1>7, Findings, RightIs DEF Sound
<1> QED BY <1>8, Keeps DEF Follow, Engines

LEMMA ApiExposureIsSound ==
    ASSUME NEW u, NEW g, NEW a, NEW h, Step(u, g, a, h), Stage = "api-exposure"
    PROVE  \A us : Follow(u, h, us)
<1> DEFINE r == Get(u.url, CookieOnly(me))
           n == server.at[u.url]
<1>1. Turn(u, g) = Ask(r) /\ g = <<>> /\ h[1] = a /\ h # <<>>
  <2>1. Turn(u, g) = ApiExposure(u, g, me) /\ Turn(u, g).ask # <<>>
    BY TurnIs DEF Step
  <2>2. g # <<>> => ApiExposure(u, g, me).ask = <<>>
    BY Forms DEF ApiExposure
  <2>3. g = <<>> => h[1] = a
    BY DEF Step
  <2> QED BY <2>1, <2>2, <2>3 DEF ApiExposure, Step
<1>2. Plausible(r, a) /\ r.url = u.url /\ r.input \notin Copies /\ r.method = "GET"
      /\ r.who = CookieOnly(me)
  BY <1>1, Forms, Parts DEF Step, Copies
<1>3. \A k \in Turn(u, h).say :
        /\ me["cookie"] = "none" => k = "exposed"
        /\ me["cookie"] # "none" => k = "exposed-with-session"
        /\ "records" \in a.marks \/ "well-formed" \in a.marks
  <2> DEFINE kind == IF me["cookie"] = "none" THEN "exposed" ELSE "exposed-with-session"
             shows == Done2xx(h[1]) /\ {"records", "well-formed"} \intersect h[1].marks # {}
  <2>1. Turn(u, h) = ApiExposure(u, h, me)
    BY TurnIs
  <2>2. ApiExposure(u, h, me).say = If(shows, kind)
    BY <1>1, Forms DEF ApiExposure
  <2>3. shows => "records" \in a.marks \/ "well-formed" \in a.marks
    BY <1>1
  <2> HIDE DEF shows, kind
  <2>4. \A k \in Turn(u, h).say : k = kind /\ shows
    BY <2>1, <2>2 DEF If
  <2>5. \A k \in Turn(u, h).say : "records" \in a.marks \/ "well-formed" \in a.marks
    BY <2>3, <2>4
  <2>6. \A k \in Turn(u, h).say : k = kind
    BY <2>4
  <2>7. /\ me["cookie"] = "none" => kind = "exposed"
        /\ me["cookie"] # "none" => kind = "exposed-with-session"
    BY DEF kind
  <2> QED BY <2>5, <2>6, <2>7
<1>4. Turn(u, h).ask = <<>>
  <2>1. Turn(u, h) = ApiExposure(u, h, me)
    BY TurnIs
  <2>2. \E x : ApiExposure(u, h, me) = Report(x)
    BY <1>1 DEF ApiExposure
  <2> QED BY <2>1, <2>2, Forms
<1> HIDE DEF r
<1>5. /\ "records" \in a.marks => "records" \in n.habits /\ Reads(r)
      /\ "well-formed" \in a.marks => "well-formed" \in n.habits
  BY <1>2, Signs
<1>6. Reads(r) /\ me["cookie"] = "none" => n.guard = "open"
  <2>1. server.honours \subseteq Headers
    BY DepthAssumption DEF Step
  <2> QED BY <1>2, <2>1, ReadsBy, Identities DEF Step, Nature
<1>7. \A k \in Turn(u, h).say : Sound(k, u, h)
  <2> SUFFICES ASSUME NEW k \in Turn(u, h).say PROVE Sound(k, u, h)
    OBVIOUS
  <2>1. CASE "well-formed" \in n.habits
    <3>1. Misled(Finding(k, u, h))
      BY <1>3, <2>1, Findings DEF Misled
    <3> QED BY <1>3, <3>1 DEF Sound
  <2>2. CASE "well-formed" \notin n.habits
    BY <1>3, <1>5, <1>6, <2>2, Findings, RightIs DEF Sound
  <2> QED BY <2>1, <2>2
<1> QED BY <1>4, <1>7 DEF Follow

LEMMA FormSecurityIsSound ==
    ASSUME NEW u, NEW g, NEW a, NEW h, Step(u, g, a, h), Stage = "form-security"
    PROVE  \A us : Follow(u, h, us)
<1> DEFINE r == [Put(u.url, CookieOnly(me), "canary") EXCEPT !.method = "POST"]
           n == server.at[u.url]
<1>1. /\ Turn(u, g) = FormSecurity(u, g, me) /\ Turn(u, h) = FormSecurity(u, h, me)
      /\ Turn(u, g).ask # <<>>
  BY TurnIs DEF Step
<1>2. /\ Len(g) \in {0, 1}
      /\ Len(g) = 1 => Turn(u, g).ask[1] = r
  <2>1. CASE Len(g) = 0
    BY <2>1
  <2>2. CASE Len(g) = 1
    BY <1>1, <2>2, Forms DEF FormSecurity, Step
  <2>3. CASE Len(g) \notin {0, 1}
    BY <1>1, <2>3, Forms DEF FormSecurity, Step
  <2> QED BY <2>1, <2>2, <2>3
<1>3. \A k : k = "csrf" => Sound(k, u, h)
  BY Findings, RightIs DEF Sound
<1>4. CASE Len(g) = 0
  <2>1. Len(h) = 1 /\ h # <<>>
    BY <1>4 DEF Step
  <2>2. \A k \in Turn(u, h).say : k = "csrf"
    BY <1>1, <2>1, Forms DEF FormSecurity, If
  <2> QED BY <1>3, <2>2, Keeps DEF Follow, Engines
<1>5. CASE Len(g) = 1
  <2>1. Len(h) = 2 /\ h # <<>> /\ h[2] = a
    BY <1>5 DEF Step
  <2>2. Plausible(r, a)
    BY <1>2, <1>5 DEF Step
  <2>3. r.url = u.url /\ r.input \notin Copies
    BY Parts DEF Copies
  <2> HIDE DEF r
  <2>4. "canary" \in a.marks => "canary" \in n.flaws
    BY <2>2, <2>3, Signs
  <2>5. \A k \in Turn(u, h).say : k = "reflected-input" /\ "canary" \in a.marks
    BY <1>1, <2>1, Forms DEF FormSecurity, If
  <2>6. \A k \in Turn(u, h).say : Sound(k, u, h)
    BY <2>4, <2>5, Findings, RightIs DEF Sound
  <2> QED BY <2>6, Keeps DEF Follow, Engines
<1> QED BY <1>2, <1>4, <1>5

-----------------------------------------------------------------------------
(***************************************************************************)
(* The stages that compare answers.                                        *)
(***************************************************************************)
\* How large the page of a plain request is.
LEMMA PageSize ==
    ASSUME NEW r, NEW a, Plausible(r, a), r.method = "GET", r.input = "own"
    PROVE  a.is = "refusal" \/ ~Served(a) \/ a.size \in {20, 4}
<1>1. r.input \notin Copies /\ Sizes(r) \subseteq {20, 4}
  BY DEF Copies, Sizes
<1>2. CASE Nothing(a) \/ Overload(a)
  BY <1>2 DEF Nothing, Overload, Served
<1>3. CASE Refuses(r, a)
  BY <1>3 DEF Refuses
<1>4. CASE Serves(r, a)
  BY <1>1, <1>4 DEF Serves, Page, Served
<1> QED BY <1>1, <1>2, <1>3, <1>4 DEF Plausible, Copied

\* An answer as large as such a page, from a stage that follows no redirect, is
\* one that was read, or a refusal page of that size.
LEMMA ServedIsRead ==
    ASSUME NEW r, NEW a, NEW b, Plausible(r, a), r.input \notin Copies, ~Follows(r),
           Served(a), Similar(a, b), b.size \in {20, 4}
    PROVE  \/ Reads(r) /\ Owns(r)
           \/ a.is = "refusal" /\ "lookalike" \in Nature(r).habits
<1>1. CASE Nothing(a) \/ Overload(a)
  BY <1>1 DEF Nothing, Overload, Served
<1>2. CASE Refuses(r, a)
  <2>1. a.st # 401 => a.size \in {0, 8} \/ "lookalike" \in Nature(r).habits
    BY <1>2 DEF Refuses
  <2>2. a.st # 401
    BY DEF Served
  <2>3. a.size \notin {0, 8}
    BY DEF Similar, Abs
  <2> QED BY <1>2, <2>1, <2>2, <2>3 DEF Refuses
<1>3. CASE Serves(r, a)
  BY <1>3 DEF Serves, Page, Served
<1> QED BY <1>1, <1>2, <1>3 DEF Plausible, Copied

LEMMA AuthzIsSound ==
    ASSUME NEW u, NEW g, NEW a, NEW h, Step(u, g, a, h), Stage = "authz",
           NEW us, Past(u, g, us)
    PROVE  Follow(u, h, us)
<1> DEFINE n == server.at[u.url]
           bogus == With(Bare(me), AuthHeader(me), "bogus")
<1>1. /\ Turn(u, g) = Authz(u, g, me) /\ Turn(u, h) = Authz(u, h, me)
      /\ Turn(u, g).ask # <<>>
  BY TurnIs DEF Step
<1>2. Len(g) \in Nat /\ Len(h) = Len(g) + 1 /\ h[Len(h)] = a /\ \A i \in 1 .. Len(g) : h[i] = g[i]
  BY DEF Step
<1>3. /\ Plausible(Turn(u, g).ask[1], a) /\ server.honours \subseteq Headers
      /\ \A r : ~Follows(r)
  BY DepthAssumption DEF Step, Follows
<1>4. Weighed(g) /\ (Weighed(h) => Past(u, h, us))
  BY DEF Past, Engines
<1>5. \A v : v = u.url => server.at[v] = n
  OBVIOUS
<1> HIDE DEF n
<1>6. CASE Len(g) = 0
  <2>1. Turn(u, g).ask[1] = Get(u.url, me)
    BY <1>1, <1>6, Forms DEF Authz
  <2>2. a.is = "refusal" \/ ~Served(a) \/ a.size \in {20, 4}
    BY <1>3, <2>1, PageSize, Parts
  <2>3. Weighed(h)
    BY <1>2, <1>6, <2>2 DEF Weighed
  <2>4. Turn(u, h).say = {}
    BY <1>1, <1>2, <1>6, Forms DEF Authz
  <2> QED BY <1>4, <2>3, <2>4 DEF Follow
<1>7. CASE Len(g) = 1
  <2> DEFINE r == Get(u.url, Bare(me))
  <2>1. Turn(u, g).ask[1] = r /\ Served(g[1])
    BY <1>1, <1>7, Forms DEF Authz
  <2>2. Len(h) = 2 /\ h[2] = a /\ h[1] = g[1]
    BY <1>2, <1>7
  <2>3. Weighed(h)
    BY <1>4, <1>7, <2>1, <2>2 DEF Weighed
  <2>4. /\ Plausible(r, a) /\ r.url = u.url /\ r.input \notin Copies /\ r.method = "GET"
        /\ r.who = Bare(me)
    BY <1>3, <2>1, Parts DEF Copies
  <2> HIDE DEF r
  <2>5. ASSUME NEW k \in Turn(u, h).say
        PROVE  k = "broken-auth" /\ Served(a) /\ Similar(a, g[1])
    BY <1>1, <2>2, <2>5, Forms DEF Authz
  <2>6. ASSUME Served(a), Similar(a, g[1]), g[1].size \in {20, 4}
        PROVE  \/ n.guard = "open" \/ \E x \in server.honours : a.who[x] = "A"
               \/ a.is = "refusal" /\ "lookalike" \in n.habits
    <3>1. Reads(r) \/ (a.is = "refusal" /\ "lookalike" \in n.habits)
      BY <1>3, <1>5, <2>4, <2>6, ServedIsRead DEF Nature
    <3> QED BY <1>5, <2>4, <3>1, ReadsBy, Identities DEF Step, Nature, Plausible
  <2>7. g[1].is = "refusal" \/ g[1].size \in {20, 4}
    BY <1>4, <1>7, <2>1 DEF Weighed
  <2>8. ASSUME NEW k \in Turn(u, h).say
        PROVE  Sound(k, u, h)
    <3>1. k = "broken-auth"
      BY <2>5
    <3>2. \/ h[1].is = "refusal" \/ n.guard = "open"
          \/ \E x \in server.honours : h[2].who[x] = "A"
          \/ h[2].is = "refusal" /\ "lookalike" \in n.habits
      BY <2>2, <2>5, <2>6, <2>7
    <3> DEFINE f == Finding(k, u, h)
    <3>3. f.kind = k /\ f.url = u.url /\ f.got = h
      BY Findings
    <3> HIDE DEF f
    <3>4. Right(f) \/ Misled(f)
      BY <1>5, <2>2, <3>1, <3>2, <3>3, RightIs, MisledIs
    <3> QED BY <3>1, <3>4 DEF Sound, f
  <2> QED BY <1>4, <2>3, <2>8 DEF Follow
<1>8. CASE Len(g) = 2
  <2> DEFINE r == Get(u.url, bogus)
  <2>1. Turn(u, g).ask[1] = r
    BY <1>1, <1>8, Forms DEF Authz
  <2>2. Len(h) = 3 /\ h[3] = a /\ h[1] = g[1]
    BY <1>2, <1>8
  <2>3. Weighed(h)
    BY <1>4, <1>8, <2>2 DEF Weighed
  <2>4. /\ Plausible(r, a) /\ r.url = u.url /\ r.input \notin Copies /\ r.method = "GET"
        /\ r.who = bogus
    BY <1>3, <2>1, Parts DEF Copies
  <2> HIDE DEF r
  <2>5. ASSUME NEW k \in Turn(u, h).say
        PROVE  k = "broken-token-validation" /\ Served(a) /\ Similar(a, g[1])
    BY <1>1, <2>2, <2>5, Forms DEF Authz, If
  <2>6. ASSUME Served(a), Similar(a, g[1]), g[1].size \in {20, 4}
        PROVE  \/ n.guard = "open" \/ "token" \in n.flaws
               \/ \E x \in server.honours : a.who[x] = "A"
               \/ a.is = "refusal" /\ "lookalike" \in n.habits
    <3>1. Reads(r) \/ (a.is = "refusal" /\ "lookalike" \in n.habits)
      BY <1>3, <1>5, <2>4, <2>6, ServedIsRead DEF Nature
    <3>2. \A x \in Headers : bogus[x] \in {"none", "A", "bogus"}
      BY Identities DEF Step, With, OfA, Bare, Without
    <3> HIDE DEF bogus
    <3> QED BY <1>3, <1>5, <2>4, <3>1, <3>2 DEF Nature, Plausible, Reads, Bypasses, Valid
  <2>7. g[1].is = "refusal" \/ g[1].size \in {20, 4}
    BY <1>4, <1>8 DEF Weighed
  <2>8. ASSUME NEW k \in Turn(u, h).say
        PROVE  Sound(k, u, h)
    <3>1. k = "broken-token-validation"
      BY <2>5
    <3>2. \/ h[1].is = "refusal" \/ n.guard = "open" \/ "token" \in n.flaws
          \/ \E x \in server.honours : h[3].who[x] = "A"
          \/ h[3].is = "refusal" /\ "lookalike" \in n.habits
      BY <2>2, <2>5, <2>6, <2>7
    <3> DEFINE f == Finding(k, u, h)
    <3>3. f.kind = k /\ f.url = u.url /\ f.got = h
      BY Findings
    <3> HIDE DEF f
    <3>4. Right(f) \/ Misled(f)
      <4>1. 3 \in 2 .. Len(h)
        BY <2>2
      <4>2. h[1].is = "refusal" => Misled(f)
        BY <3>1, <3>3, MisledIs
      <4>3. (\E x \in server.honours : h[3].who[x] = "A") => Misled(f)
        BY <3>1, <3>3, <4>1, MisledIs
      <4>4. h[3].is = "refusal" /\ "lookalike" \in n.habits => Misled(f)
        BY <1>5, <2>2, <3>1, <3>3, MisledIs
      <4> QED BY <1>5, <3>1, <3>2, <3>3, <4>2, <4>3, <4>4, RightIs
    <3> QED BY <3>1, <3>4 DEF Sound, f
  <2> QED BY <1>4, <2>3, <2>8 DEF Follow
<1>9. CASE Len(g) = 3
  <2>1. Len(h) = 4 /\ h[1] = g[1]
    BY <1>2, <1>9
  <2>2. Weighed(h)
    BY <1>4, <1>9, <2>1 DEF Weighed
  <2>3. \A k \in Turn(u, h).say : k = "idor-suspect"
    BY <1>1, <2>1, Forms DEF Authz, If
  <2>4. \A k : k = "idor-suspect" => Sound(k, u, h)
    BY Findings, RightIs DEF Sound
  <2> QED BY <1>4, <2>2, <2>3, <2>4 DEF Follow
<1>10. Len(g) \in {0, 1, 2, 3}
  <2>1. Len(g) \notin {0, 1, 2, 3} => \E x : Authz(u, g, me) = Report(x)
    BY DEF Authz
  <2> QED BY <1>1, <2>1, Forms
<1> QED BY <1>6, <1>7, <1>8, <1>9, <1>10

LEMMA MatrixIsSound ==
    ASSUME NEW u, NEW g, NEW a, NEW h, Step(u, g, a, h), Stage = "matrix",
           Facts[u.url].id, NEW us, Past(u, g, us)
    PROVE  Follow(u, h, us)
<1> DEFINE n == server.at[u.url]
           them == AsOther(me, Other)
<1>1. /\ Turn(u, g) = Matrix(u, g, me, Other) /\ Turn(u, h) = Matrix(u, h, me, Other)
      /\ Turn(u, g).ask # <<>>
  BY TurnIs DEF Step
<1>2. Len(g) \in Nat /\ Len(h) = Len(g) + 1 /\ h[Len(h)] = a /\ \A i \in 1 .. Len(g) : h[i] = g[i]
  BY DEF Step
<1>3. /\ Plausible(Turn(u, g).ask[1], a) /\ server.honours \subseteq Headers
      /\ \A r : ~Follows(r)
  BY DepthAssumption DEF Step, Follows
<1>4. Weighed(g) /\ (Weighed(h) => Past(u, h, us))
  BY DEF Past, Engines
<1>5. \A v : v = u.url => server.at[v] = n
  OBVIOUS
<1> HIDE DEF n
<1>6. CASE Len(g) = 0
  <2>1. Turn(u, g).ask[1] = Get(u.url, me)
    BY <1>1, <1>6, Forms DEF Matrix
  <2>2. a.is = "refusal" \/ ~Served(a) \/ a.size \in {20, 4}
    BY <1>3, <2>1, PageSize, Parts
  <2>3. Weighed(h)
    BY <1>2, <1>6, <2>2 DEF Weighed
  <2>4. Turn(u, h).say = {}
    BY <1>1, <1>2, <1>6, Forms DEF Matrix
  <2> QED BY <1>4, <2>3, <2>4 DEF Follow
<1>7. CASE Len(g) = 1
  <2> DEFINE r == Get(u.url, them)
  <2>1. Turn(u, g).ask[1] = r /\ Served(g[1])
    BY <1>1, <1>7, Forms DEF Matrix
  <2>2. Len(h) = 2 /\ h[2] = a /\ h[1] = g[1]
    BY <1>2, <1>7
  <2>3. Weighed(h)
    BY <1>4, <1>7, <2>1, <2>2 DEF Weighed
  <2>4. /\ Plausible(r, a) /\ r.url = u.url /\ r.input \notin Copies /\ r.method = "GET"
        /\ r.who = them /\ r.input = "own"
    BY <1>3, <2>1, Parts DEF Copies
  <2> HIDE DEF r
  <2>5. ASSUME NEW k \in Turn(u, h).say
        PROVE  k = "bola" /\ Served(a) /\ Similar(a, g[1])
    BY <1>1, <2>2, <2>5, Forms DEF Matrix, If
  <2>6. ASSUME Served(a), Similar(a, g[1]), g[1].size \in {20, 4}
        PROVE  \/ n.guard = "open" \/ "object" \in n.flaws
               \/ \E x \in server.honours : a.who[x] = "A"
               \/ a.is = "refusal" /\ "lookalike" \in n.habits
    <3>1. Owns(r) \/ (a.is = "refusal" /\ "lookalike" \in n.habits)
      BY <1>3, <1>5, <2>4, <2>6, ServedIsRead DEF Nature
    <3>2. \A x \in Headers : them[x] \in {"none", "A", "B"}
      <4>1. NoAuth(me) = [x \in Headers |-> NoAuth(me)[x]]
        BY DEF NoAuth, Without
      <4>2. \A x \in Headers : NoAuth(me)[x] \in {"none", "A"}
        BY Identities DEF Step, OfA
      <4>3. Other["authorization"] \in {"none", "B"} /\ Other["cookie"] \in {"none", "B"}
        BY DepthAssumption DEF Headers
      <4> QED BY <4>1, <4>2, <4>3 DEF AsOther
    <3> HIDE DEF them
    <3> QED BY <1>3, <1>5, <2>4, <3>1, <3>2 DEF Nature, Plausible, Owns, Bypasses
  <2>7. g[1].is = "refusal" \/ g[1].size \in {20, 4}
    BY <1>4, <1>7, <2>1 DEF Weighed
  <2>8. ASSUME NEW k \in Turn(u, h).say
        PROVE  Sound(k, u, h)
    <3>1. k = "bola"
      BY <2>5
    <3>2. \/ h[1].is = "refusal" \/ n.guard = "open" \/ "object" \in n.flaws
          \/ \E x \in server.honours : h[2].who[x] = "A"
          \/ h[2].is = "refusal" /\ "lookalike" \in n.habits
      BY <2>2, <2>5, <2>6, <2>7
    <3> DEFINE f == Finding(k, u, h)
    <3>3. f.kind = k /\ f.url = u.url /\ f.got = h
      BY Findings
    <3> HIDE DEF f
    <3>4. Right(f) \/ Misled(f)
      <4>1. 2 \in 2 .. Len(h)
        BY <2>2
      <4>2. h[1].is = "refusal" => Misled(f)
        BY <3>1, <3>3, MisledIs
      <4>3. (\E x \in server.honours : h[2].who[x] = "A") => Misled(f)
        BY <3>1, <3>3, <4>1, MisledIs
      <4>4. h[2].is = "refusal" /\ "lookalike" \in n.habits => Misled(f)
        BY <1>5, <2>2, <3>1, <3>3, MisledIs
      <4> QED BY <1>5, <3>1, <3>2, <3>3, <4>2, <4>3, <4>4, RightIs
    <3> QED BY <3>1, <3>4 DEF Sound, f
  <2> QED BY <1>4, <2>3, <2>8 DEF Follow
<1>8. Len(g) \in {0, 1}
  <2>1. Len(g) \notin {0, 1} => \E x : Matrix(u, g, me, Other) = Report(x)
    BY DEF Matrix
  <2> QED BY <1>1, <2>1, Forms
<1> QED BY <1>6, <1>7, <1>8

\* Which of the last answers there can be.
LEMMA Counts ==
    \A n \in Nat : /\ n > 2 => n # 0 /\ n # 1 /\ n # 2 /\ ~ (n <= 2)
                   /\ n >= 2 => n = 2 \/ n > 2
OBVIOUS

\* The forged tokens: one at least, and the minted one only with its secret.
LEMMA ForgeriesAre ==
    ASSUME NEW weak \in BOOLEAN
    PROVE  LET forged == Forgeries(weak)
           IN  /\ Len(forged) \in Nat /\ Len(forged) >= 1
               /\ \A k \in 1 .. Len(forged) :
                    /\ forged[k] \in {"alg-none", "stripped", "tampered", "kid", "minted"}
                    /\ forged[k] = "minted" => weak
<1> DEFINE four == <<"alg-none", "stripped", "tampered", "kid">>
           rest == IF weak THEN <<"minted">> ELSE <<>>
           kinds == {"alg-none", "stripped", "tampered", "kid"}
           all == IF weak THEN kinds \union {"minted"} ELSE kinds
<1>1. four \in Seq(all) /\ rest \in Seq(all) /\ Len(four) = 4
  <2>1. Len(four) = 4
    OBVIOUS
  <2>2. kinds \subseteq all
    OBVIOUS
  <2>3. four \in Seq(kinds)
    OBVIOUS
  <2>4. four \in Seq(all)
    <3> HIDE DEF four, kinds, all
    <3> QED BY <2>2, <2>3, SeqWider
  <2>5. rest \in Seq(all)
    <3>1. CASE weak
      <4>1. "minted" \in all /\ rest = <<"minted">>
        BY <3>1
      <4> HIDE DEF all, rest
      <4> QED BY <4>1
    <3>2. CASE ~weak
      BY <3>2
    <3> QED BY <3>1, <3>2
  <2> QED BY <2>1, <2>4, <2>5
<1>2. \A x \in all : x \in {"alg-none", "stripped", "tampered", "kid", "minted"}
                     /\ (x = "minted" => weak)
  OBVIOUS
<1>3. Forgeries(weak) = four \o rest
  BY DEF Forgeries
<1> HIDE DEF four, rest, kinds, all
<1>4. four \o rest \in Seq(all) /\ Len(four \o rest) = Len(four) + Len(rest)
  BY <1>1, ConcatProperties
<1>5. Len(rest) \in Nat
  BY <1>1
<1>6. \A m \in Nat : 4 + m \in Nat /\ 4 + m >= 1
  OBVIOUS
<1>7. Len(four \o rest) = 4 + Len(rest)
  BY <1>1, <1>4
<1>8. Len(four \o rest) \in Nat /\ Len(four \o rest) >= 1
  BY ONLY <1>5, <1>6, <1>7
<1>9. \A k \in 1 .. Len(four \o rest) : (four \o rest)[k] \in all
  BY <1>4
<1> QED BY <1>2, <1>3, <1>8, <1>9

\* What the token stage does once the forgeries are out.
LEMMA JwtLater ==
    ASSUME NEW u, NEW g, NEW weak, Len(g) \in Nat, Len(g) > 2
    PROVE  LET n == Len(g)
               forged == Forgeries(weak)
               last == IF forged[n - 2] = "minted" THEN {"jwt-weak-secret"}
                       ELSE If(g[n].st = 200 /\ g[n].size > 0 /\ Similar(g[n], g[1]),
                               "jwt-forged")
           IN  Jwt(u, g, me, weak) =
                 IF n - 2 = Len(forged) THEN ReportAndStop(last)
                 ELSE ReportAndAsk(last, Get(u.url, With(me, "authorization", forged[n - 1])))
<1> DEFINE n == Len(g)
           forged == Forgeries(weak)
           last == IF forged[n - 2] = "minted" THEN {"jwt-weak-secret"}
                   ELSE If(g[n].st = 200 /\ g[n].size > 0 /\ Similar(g[n], g[1]), "jwt-forged")
           said == IF n <= 2 THEN {} ELSE last
           r == Get(u.url, With(me, "authorization", forged[n - 1]))
<1>0. n # 0 /\ n # 1 /\ n # 2 /\ ~ (n <= 2)
  BY Counts, Zenon
<1>1. said = last /\ n # 0 /\ n # 1 /\ n # 2
  BY <1>0
<1>2. Jwt(u, g, me, weak) = IF n - 2 = Len(forged) THEN ReportAndStop(said)
                            ELSE [Ask(r) EXCEPT !.say = said]
  BY <1>1 DEF Jwt
<1> HIDE DEF n, forged, last, said, r
<1>3. [Ask(r) EXCEPT !.say = said] = ReportAndAsk(said, r)
  BY Forms
<1>4. Jwt(u, g, me, weak) = IF n - 2 = Len(forged) THEN ReportAndStop(last)
                            ELSE ReportAndAsk(last, r)
  BY <1>1, <1>2, <1>3
<1> QED BY <1>4 DEF n, forged, last, r

\* The status of a refusal tells which it is.
LEMMA RefusalIs ==
    ASSUME NEW r, NEW a, Refuses(r, a)
    PROVE  /\ a.is = "refusal" /\ ~Reads(r) /\ a.st \in {401, 302, 200}
           /\ a.st = 401 <=> Nature(r).refusal = "unauthorized"
<1>1. a.is = "refusal" /\ ~Reads(r)
  BY DEF Refuses
<1> DEFINE how == Nature(r).refusal
<1>2. \/ how = "unauthorized" /\ a.st = 401
      \/ how = "redirect" /\ a.st = 302
      \/ how = "redirect" /\ a.st = 200
      \/ how = "form" /\ a.st = 200
  BY DEF Refuses
<1> HIDE DEF how
<1>3. a.st \in {401, 302, 200} /\ (a.st = 401 <=> how = "unauthorized")
  BY <1>2
<1> QED BY <1>1, <1>3 DEF how

\* Where a plain request without credentials is denied and not blocked, it was
\* refused.
LEMMA DeniedIsShut ==
    ASSUME server \in Servers, NEW r, r.url \in Urls, NEW a, Plausible(r, a),
           r.input = "own", r.method = "GET", Denied(a)
    PROVE  a.is = "block" \/ (Shut(Nature(r)) /\ ~Reads(r))
<1>1. Nature(r) \in Natures
  BY DepthAssumption DEF Nature
<1>2. ~Reads(r) => Nature(r).guard = "locked"
  BY <1>1 DEF Reads, Natures
<1>3. r.input \notin Copies
  BY DEF Copies
<1>4. CASE Nothing(a) \/ Overload(a)
  BY <1>4 DEF Nothing, Overload, Denied
<1>5. CASE Refuses(r, a)
  <2>1. Nature(r).refusal = "unauthorized" /\ ~Reads(r)
    BY <1>5, RefusalIs DEF Denied
  <2> QED BY <1>2, <2>1 DEF Shut
<1>6. CASE Serves(r, a)
  BY <1>6 DEF Serves, Page, Denied
<1> QED BY <1>3, <1>4, <1>5, <1>6 DEF Plausible, Copied

LEMMA JwtIsSound ==
    ASSUME NEW u, NEW g, NEW a, NEW h, Step(u, g, a, h), Stage = "jwt",
           NEW us, Past(u, g, us)
    PROVE  Follow(u, h, us)
<1> DEFINE n == server.at[u.url]
           weak == server.weak
           forged == Forgeries(weak)
           from(k) == With(me, "authorization", forged[k])
           Accepted(x) == x.st = 200 /\ x.size > 0 /\ Similar(x, h[1])
<1>1. /\ Turn(u, g) = Jwt(u, g, me, weak) /\ Turn(u, h) = Jwt(u, h, me, weak)
      /\ Turn(u, g).ask # <<>>
  BY TurnIs DEF Step
<1>2. Len(g) \in Nat /\ Len(h) = Len(g) + 1 /\ h[Len(h)] = a /\ \A i \in 1 .. Len(g) : h[i] = g[i]
  BY DEF Step
<1>3. /\ Plausible(Turn(u, g).ask[1], a) /\ server.honours \subseteq Headers
      /\ server \in Servers /\ weak \in BOOLEAN /\ u.url \in Urls
  BY DepthAssumption DEF Step
<1>4. Oracle(n, weak, g) /\ (Oracle(n, weak, h) => Past(u, h, us))
  BY DEF Past, Engines
<1>5. \A v : v = u.url => server.at[v] = n
  OBVIOUS
<1>6. /\ Len(forged) \in Nat /\ Len(forged) >= 1
      /\ \A k \in 1 .. Len(forged) :
           /\ forged[k] \in {"alg-none", "stripped", "tampered", "kid", "minted"}
           /\ forged[k] = "minted" => weak
  BY <1>3, ForgeriesAre
<1> HIDE DEF n, weak, forged
<1>7. CASE Len(g) = 0
  <2>1. Oracle(n, weak, h)
    BY <1>2, <1>6, <1>7 DEF Oracle, forged
  <2>2. Turn(u, h).say = {}
    BY <1>1, <1>2, <1>7, Forms DEF Jwt
  <2> QED BY <1>4, <2>1, <2>2 DEF Follow
<1>8. CASE Len(g) = 1
  <2> DEFINE r == Get(u.url, NoAuth(me))
  <2>1. Turn(u, g).ask[1] = r
    BY <1>1, <1>8, Forms DEF Jwt
  <2>2. Plausible(r, a) /\ r.url = u.url /\ r.input = "own" /\ r.method = "GET"
    BY <1>3, <2>1, Parts
  <2> HIDE DEF r
  <2>3. Denied(a) => a.is = "block" \/ Shut(n)
    BY <1>3, <1>5, <2>2, DeniedIsShut DEF Nature
  <2>4. Oracle(n, weak, h)
    BY <1>2, <1>6, <1>8, <2>3 DEF Oracle, forged
  <2>5. Turn(u, h).say = {}
    BY <1>1, <1>2, <1>8, Forms DEF Jwt
  <2> QED BY <1>4, <2>4, <2>5 DEF Follow
<1>9. CASE Len(g) >= 2
  <2> DEFINE k == Len(g) - 1
             r == Get(u.url, from(k))
  <2>1. /\ Turn(u, g).ask[1] = r /\ Denied(g[2])
    <3>1. CASE Len(g) = 2
      BY <1>1, <3>1, Forms DEF Jwt, IsOracle, Denied, forged
    <3>2. CASE Len(g) > 2
      <4>1. \E x : Turn(u, g) \in {ReportAndStop(x), ReportAndAsk(x, r)}
        BY <1>1, <1>2, <3>2, JwtLater DEF forged
      <4>2. Turn(u, g).ask[1] = r
        BY <1>1, <4>1, Forms
      <4>3. Denied(g[2])
        BY <1>2, <1>4, <3>2 DEF Oracle
      <4> QED BY <4>2, <4>3
    <3>3. Len(g) = 2 \/ Len(g) > 2
      <4>1. Len(g) \in Nat
        BY <1>2
      <4> QED BY <1>9, <4>1, Counts, Zenon
    <3> QED BY <3>1, <3>2, <3>3
  <2>2. /\ Plausible(r, a) /\ r.url = u.url /\ r.input = "own" /\ r.method = "GET"
        /\ r.who = from(k)
    BY <1>3, <2>1, Parts
  <2> HIDE DEF r
  <2>3. k \in 1 .. Len(forged) /\ Len(h) >= 3
    BY <1>2, <1>4, <1>6, <1>9 DEF Oracle, forged
  <2>4. h[2] = g[2] /\ (g[2].is = "block" \/ Shut(n))
    BY <1>2, <1>4, <1>9, <2>1 DEF Oracle
  <2>5. ASSUME NEW c \in Turn(u, h).say
        PROVE  \/ c = "jwt-weak-secret" /\ weak
               \/ c = "jwt-forged" /\ a.st = 200 /\ forged[k] # "minted"
    <3>1. Len(h) - 2 = k
      BY <1>2
    <3>2. \/ c = "jwt-weak-secret" /\ forged[k] = "minted"
          \/ c = "jwt-forged" /\ a.st = 200 /\ forged[k] # "minted"
      <4> DEFINE last == IF forged[k] = "minted" THEN {"jwt-weak-secret"}
                         ELSE If(Accepted(a), "jwt-forged")
      <4>1. Len(h) \in Nat /\ Len(h) > 2 /\ h[Len(h)] = a
        BY <1>2, <2>3
      <4>2. Turn(u, h) = ReportAndStop(last)
              \/ \E x : Turn(u, h) = ReportAndAsk(last, x)
        BY <1>1, <3>1, <4>1, JwtLater DEF forged
      <4>3. Turn(u, h).say = last
        BY <4>2, Forms
      <4>4. c \in last
        BY <2>5, <4>3
      <4> QED BY <4>4 DEF If
    <3> QED BY <1>6, <2>3, <3>2
  <2>6. a.st = 200 /\ Shut(n) => Reads(r) /\ n.guard = "locked"
    <3> SUFFICES ASSUME a.st = 200, Shut(n) PROVE Reads(r)
      BY DEF Shut
    <3>1. r.input \notin Copies
      BY <2>2 DEF Copies
    <3>2. ~Nothing(a) /\ ~Overload(a)
      BY DEF Nothing, Overload
    <3>3. Refuses(r, a) => a.st = 401
      BY <1>5, <2>2, RefusalIs DEF Shut, Nature
    <3>4. ~Copied(r, a)
      BY <3>1 DEF Copied
    <3> QED BY <2>2, <3>2, <3>3, <3>4 DEF Plausible, Serves
  <2>7. Reads(r) /\ n.guard = "locked" /\ forged[k] # "minted" =>
          "token" \in n.flaws \/ \E x \in server.honours : a.who[x] = "A"
    <3>1. \A x \in Headers : from(k)[x] \in {"none", "A", forged[k]}
      BY Identities DEF Step, OfA, With
    <3> HIDE DEF from
    <3> QED BY <1>3, <1>5, <1>6, <2>2, <2>3, <3>1
            DEF Reads, Bypasses, Valid, Nature, Plausible
  <2>8. ASSUME NEW c \in Turn(u, h).say
        PROVE  Sound(c, u, h)
    <3> DEFINE f == Finding(c, u, h)
    <3>1. f.kind = c /\ f.url = u.url /\ f.got = h
      BY Findings
    <3> HIDE DEF f
    <3>2. c \in {"jwt-weak-secret", "jwt-forged"}
      BY <2>5
    <3>3. CASE c = "jwt-weak-secret"
      <4>1. weak
        BY <2>5, <3>3
      <4>2. Right(f)
        BY <3>1, <3>3, <4>1, RightIs DEF weak
      <4> QED BY <3>3, <4>2 DEF Sound, f
    <3>4. CASE c = "jwt-forged"
      <4>1. \/ h[2].is = "block"
            \/ n.guard = "locked" /\ "token" \in n.flaws
            \/ \E x \in server.honours : h[Len(h)].who[x] = "A"
        <5>1. a.st = 200 /\ forged[k] # "minted"
          BY <2>5, <3>4
        <5>2. h[2].is = "block" \/ Shut(n)
          BY <2>4
        <5>3. Shut(n) => n.guard = "locked"
          BY DEF Shut
        <5>4. h[Len(h)] = a
          BY <1>2
        <5> QED BY <2>6, <2>7, <5>1, <5>2, <5>3, <5>4
      <4>2. Len(h) \in 2 .. Len(h)
        BY <1>2, <2>3
      <4>3. h[2].is = "block" => Misled(f)
        BY <3>1, <3>4, MisledIs
      <4>4. (\E x \in server.honours : h[Len(h)].who[x] = "A") => Misled(f)
        BY <3>1, <3>4, <4>2, MisledIs
      <4>5. Right(f) \/ Misled(f)
        BY <1>5, <3>1, <3>4, <4>1, <4>3, <4>4, RightIs
      <4> QED BY <3>4, <4>5 DEF Sound, f
    <3> QED BY <3>2, <3>3, <3>4
  <2>9. Turn(u, h).ask # <<>> => Oracle(n, weak, h)
    <3>1. Turn(u, h).ask # <<>> => Len(h) - 2 # Len(forged)
      BY <1>1, <1>2, <2>3, Forms DEF Jwt, forged
    <3>2. Len(h) <= Len(forged) + 2
      BY <1>2, <2>3
    <3>3. Denied(h[2])
      BY <2>1, <2>4
    <3> QED BY <1>2, <1>6, <2>4, <3>1, <3>2, <3>3 DEF Oracle, forged
  <2> QED BY <1>4, <2>8, <2>9 DEF Follow
<1>10. Len(g) = 0 \/ Len(g) = 1 \/ Len(g) >= 2
  <2>1. \A m \in Nat : m = 0 \/ m = 1 \/ m >= 2
    OBVIOUS
  <2> QED BY <1>2, <2>1
<1> QED BY <1>7, <1>8, <1>9, <1>10

\* What the verb stage does after each answer.
LEMMA VerbForms ==
    ASSUME NEW u, NEW g, Len(g) \in Nat
    PROVE  LET n == Len(g)
               As(method) == [Get(u.url, NoAuth(me)) EXCEPT !.method = method]
               options == [Get(u.url, me) EXCEPT !.method = "OPTIONS"]
               shut == Denied(g[2])
               body == Served(g[3]) /\ g[3].size > 0
               t == Verb(u, g, me)
           IN  /\ n = 0 => t = Ask(Get(u.url, me))
               /\ n = 1 => t \in {Skip, Ask(Get(u.url, NoAuth(me)))}
               /\ n = 2 /\ shut => t \in {Skip, Ask(As("GET"))}
               /\ n = 2 /\ ~shut => t \in {Skip, Ask(options)}
               /\ n = 3 /\ shut /\ body => t = ReportAndAsk({"verb-bypass"}, options)
               /\ n = 3 /\ shut /\ ~body => t = Ask(As("HEAD"))
               /\ n = 4 /\ shut /\ ~body =>
                    t = ReportAndAsk(If(Served(g[3]) \/ Served(g[4]), "verb-bypass"), options)
               /\ (n = 3 /\ ~shut) \/ (n = 4 /\ (~shut \/ body)) \/ n > 4 =>
                    t = Report(If("writes" \in g[n].marks, "methods-advertised"))
<1> DEFINE n == Len(g)
           As(method) == [Get(u.url, NoAuth(me)) EXCEPT !.method = method]
           options == [Get(u.url, me) EXCEPT !.method = "OPTIONS"]
           shut == g[2].st \in {401, 403}
           body == Served(g[3]) /\ g[3].size > 0
           asked == IF ~shut THEN 2 ELSE IF body THEN 3 ELSE 4
           bypass == If(\E i \in 3 .. asked : Served(g[i]), "verb-bypass")
           advertised == If("writes" \in g[n].marks, "methods-advertised")
           t == Verb(u, g, me)
<1>0. shut <=> Denied(g[2])
  BY DEF Denied
<1>1. t = CASE n = 0 -> Ask(Get(u.url, me))
            [] n = 1 -> IF Heard(g[1]) THEN Ask(Get(u.url, NoAuth(me))) ELSE Skip
            [] n = 2 -> IF ~Heard(g[2]) \/ ~Served(g[1]) THEN Skip
                        ELSE IF shut THEN Ask(As("GET")) ELSE Ask(options)
            [] n = 3 /\ asked = 4 -> Ask(As("HEAD"))
            [] n > 2 /\ n = asked -> ReportAndAsk(bypass, options)
            [] OTHER -> Report(advertised)
  BY DEF Verb
<1>2. /\ ~shut => asked = 2
      /\ shut /\ body => asked = 3
      /\ shut /\ ~body => asked = 4
  OBVIOUS
<1>3. /\ asked = 3 /\ body => bypass = {"verb-bypass"}
      /\ asked = 4 => bypass = If(Served(g[3]) \/ Served(g[4]), "verb-bypass")
  <2>1. asked = 3 /\ body => \E i \in 3 .. asked : Served(g[i])
    <3> HIDE DEF asked
    <3>1. 3 \in 3 .. 3
      OBVIOUS
    <3> QED BY <3>1
  <2>2. asked = 4 => ((\E i \in 3 .. asked : Served(g[i])) <=> Served(g[3]) \/ Served(g[4]))
    <3> HIDE DEF asked
    <3>1. 3 .. 4 = {3, 4}
      OBVIOUS
    <3> QED BY <3>1
  <2> QED BY <2>1, <2>2 DEF If
<1> HIDE DEF n, As, options, body, asked, bypass, advertised, t, shut
<1>4. n = 0 => t = Ask(Get(u.url, me))
  BY <1>1
<1>5. n = 1 => t \in {Skip, Ask(Get(u.url, NoAuth(me)))}
  BY <1>1
<1>6. n = 2 => /\ shut => t \in {Skip, Ask(As("GET"))}
               /\ ~shut => t \in {Skip, Ask(options)}
  BY <1>1
<1>7. n = 3 /\ shut /\ body => t = ReportAndAsk({"verb-bypass"}, options)
  BY <1>1, <1>2, <1>3
<1>8. n = 3 /\ shut /\ ~body => t = Ask(As("HEAD"))
  BY <1>1, <1>2
<1>9. n = 4 /\ shut /\ ~body =>
        t = ReportAndAsk(If(Served(g[3]) \/ Served(g[4]), "verb-bypass"), options)
  BY <1>1, <1>2, <1>3
<1>10. (n = 3 /\ ~shut) \/ (n = 4 /\ (~shut \/ body)) \/ n > 4 => t = Report(advertised)
  <2>1. asked = 2 \/ asked = 3 \/ asked = 4
    BY <1>2
  <2>2. n \in Nat
    BY DEF n
  <2>3. CASE n = 3 /\ ~shut
    BY <1>1, <1>2, <2>3
  <2>4. CASE n = 4 /\ (~shut \/ body)
    BY <1>1, <1>2, <2>4
  <2>5. CASE n > 4
    <3>1. n # 0 /\ n # 1 /\ n # 2 /\ n # 3 /\ n # 2 /\ n # 4
      BY <2>2, <2>5
    <3> QED BY <1>1, <2>1, <3>1
  <2> QED BY <2>3, <2>4, <2>5
<1> QED BY <1>0, <1>4, <1>5, <1>6, <1>7, <1>8, <1>9, <1>10
        DEF n, As, options, body, advertised, t

\* Where a session can no longer be read, and nobody else, what a method opens
\* is a flaw.
LEMMA OpenedByMethod ==
    ASSUME server \in Servers, NEW r, r.url \in Urls, OfA(r.who), r.input = "own",
           NEW a, Plausible(r, a), Served(a), Shut(Nature(r)),
           Unread(server.honours, r.who, alive)
    PROVE  "method" \in Nature(r).flaws
<1>1. r.input \notin Copies
  BY DEF Copies
<1>2. ~Nothing(a) /\ ~Overload(a) /\ ~Copied(r, a)
  BY <1>1 DEF Nothing, Overload, Copied, Served
<1>3. ~Refuses(r, a)
  BY RefusalIs DEF Shut, Served
<1>4. Reads(r)
  BY <1>2, <1>3 DEF Plausible, Serves
<1> QED BY <1>4, ReadsBy DEF Shut, Unread

LEMMA VerbIsSound ==
    ASSUME NEW u, NEW g, NEW a, NEW h, Step(u, g, a, h), Stage = "verb",
           NEW us, Past(u, g, us)
    PROVE  Follow(u, h, us)
<1> DEFINE n == server.at[u.url]
           hs == server.honours
           As(method) == [Get(u.url, NoAuth(me)) EXCEPT !.method = method]
<1>1. /\ Turn(u, g) = Verb(u, g, me) /\ Turn(u, h) = Verb(u, h, me)
      /\ Turn(u, g).ask # <<>>
  BY TurnIs DEF Step
<1>2. Len(g) \in Nat /\ Len(h) = Len(g) + 1 /\ h[Len(h)] = a /\ \A i \in 1 .. Len(g) : h[i] = g[i]
  BY DEF Step
<1>3. /\ Plausible(Turn(u, g).ask[1], a) /\ server \in Servers /\ u.url \in Urls
      /\ me \in Sessions
  BY DEF Step
<1>4. /\ Protected(n, hs, NoAuth(me), alive, g)
      /\ Protected(n, hs, NoAuth(me), alive, h) => Past(u, h, us)
  BY DEF Past, Engines
<1>5. \A v : v = u.url => server.at[v] = n
  OBVIOUS
<1>6. \A k : k = "methods-advertised" => Sound(k, u, h)
  BY Findings, RightIs DEF Sound
<1>7. ASSUME h[2].is = "block" \/ (Shut(n) /\ "method" \in n.flaws)
      PROVE  Sound("verb-bypass", u, h)
  <2> DEFINE f == Finding("verb-bypass", u, h)
  <2>1. f.kind = "verb-bypass" /\ f.url = u.url /\ f.got = h
    BY Findings
  <2> HIDE DEF f
  <2>2. h[2].is = "block" => Misled(f)
    BY <2>1, MisledIs
  <2>3. Shut(n) /\ "method" \in n.flaws => Right(f)
    BY <2>1, RightIs DEF Shut
  <2>4. Right(f) \/ Misled(f)
    BY <1>7, <2>2, <2>3
  <2> QED BY <2>4 DEF Sound, f
<1>8. \A m : /\ As(m).url = u.url /\ As(m).who = NoAuth(me) /\ As(m).input = "own"
             /\ OfA(As(m).who)
  BY <1>3, Parts, Identities
<1> HIDE DEF n, hs, As
<1>9. CASE Len(g) = 0
  <2>1. Protected(n, hs, NoAuth(me), alive, h)
    BY <1>2, <1>9 DEF Protected
  <2>2. Turn(u, h).say = {}
    <3>1. Len(h) \in Nat /\ Len(h) = 1
      BY <1>2, <1>9
    <3>2. \E x : Verb(u, h, me) = Skip \/ Verb(u, h, me) = Ask(x)
      BY <3>1, VerbForms
    <3> QED BY <1>1, <3>2, Forms
  <2> QED BY <1>4, <2>1, <2>2 DEF Follow
<1>10. CASE Len(g) = 1
  <2> DEFINE r == Get(u.url, NoAuth(me))
  <2>1. Turn(u, g).ask[1] = r
    <3>1. Verb(u, g, me) = Skip \/ Verb(u, g, me) = Ask(r)
      BY <1>2, <1>10, VerbForms
    <3> QED BY <1>1, <3>1, Forms
  <2>2. /\ Plausible(r, a) /\ r.url = u.url /\ r.input = "own" /\ r.method = "GET"
        /\ r.who = NoAuth(me)
    BY <1>3, <2>1, Parts
  <2> HIDE DEF r
  <2>3. Denied(a) => a.is = "block" \/ (Shut(n) /\ ~Reads(r))
    BY <1>3, <1>5, <2>2, DeniedIsShut DEF Nature
  <2>4. ~Reads(r) => Unread(hs, NoAuth(me), alive)
    BY <2>2 DEF Reads, Valid, Unread, hs
  <2>5. Protected(n, hs, NoAuth(me), alive, h)
    BY <1>2, <1>10, <2>3, <2>4 DEF Protected
  <2>6. Turn(u, h).say = {}
    <3>1. Len(h) \in Nat /\ Len(h) = 2
      BY <1>2, <1>10
    <3>2. \E x : Verb(u, h, me) = Skip \/ Verb(u, h, me) = Ask(x)
      BY <3>1, VerbForms
    <3> QED BY <1>1, <3>2, Forms
  <2> QED BY <1>4, <2>5, <2>6 DEF Follow
<1>11. CASE Len(g) = 2
  <2>1. Len(h) = 3 /\ h[3] = a /\ h[2] = g[2] /\ Len(h) \in Nat
    BY <1>2, <1>11
  <2>2. Denied(g[2]) => Turn(u, g).ask[1] = As("GET")
    <3>1. Denied(g[2]) => Verb(u, g, me) = Skip \/ Verb(u, g, me) = Ask(As("GET"))
      BY <1>2, <1>11, VerbForms DEF As
    <3> QED BY <1>1, <3>1, Forms
  <2>3. Denied(g[2]) => g[2].is = "block" \/ (Shut(n) /\ Unread(hs, NoAuth(me), alive))
    BY <1>4, <1>11 DEF Protected
  <2>4. Denied(g[2]) /\ Served(a) =>
          g[2].is = "block" \/ (Shut(n) /\ "method" \in n.flaws)
    BY <1>3, <1>5, <1>8, <2>2, <2>3, OpenedByMethod DEF Nature, hs
  <2>5. Protected(n, hs, NoAuth(me), alive, h)
    BY <2>1, <2>3, <2>4 DEF Protected
  <2>6. \A k \in Turn(u, h).say :
          \/ k = "methods-advertised"
          \/ k = "verb-bypass" /\ Denied(g[2]) /\ Served(a)
    <3>1. CASE ~Denied(h[2])
      <4>1. Turn(u, h).say = If("writes" \in h[3].marks, "methods-advertised")
        <5>1. Verb(u, h, me) = Report(If("writes" \in h[3].marks, "methods-advertised"))
          BY <2>1, <3>1, VerbForms
        <5> QED BY <1>1, <5>1, Forms
      <4> QED BY <4>1 DEF If
    <3>2. CASE Denied(h[2]) /\ Served(h[3]) /\ h[3].size > 0
      <4>1. Turn(u, h).say = {"verb-bypass"}
        <5>1. \E x : Verb(u, h, me) = ReportAndAsk({"verb-bypass"}, x)
          BY <2>1, <3>2, VerbForms
        <5> QED BY <1>1, <5>1, Forms
      <4> QED BY <2>1, <3>2, <4>1
    <3>3. CASE Denied(h[2]) /\ ~(Served(h[3]) /\ h[3].size > 0)
      <4>1. Turn(u, h).say = {}
        <5>1. \E x : Verb(u, h, me) = Ask(x)
          BY <2>1, <3>3, VerbForms
        <5> QED BY <1>1, <5>1, Forms
      <4> QED BY <4>1
    <3> QED BY <3>1, <3>2, <3>3
  <2>7. \A k \in Turn(u, h).say : Sound(k, u, h)
    BY <1>6, <1>7, <2>1, <2>4, <2>6
  <2> QED BY <1>4, <2>5, <2>7 DEF Follow
<1>12. CASE Len(g) = 3
  <2>1. Len(h) = 4 /\ h[4] = a /\ h[2] = g[2] /\ h[3] = g[3] /\ Len(h) \in Nat
    BY <1>2, <1>12
  <2>2. Protected(n, hs, NoAuth(me), alive, h)
    BY <1>4, <1>12, <2>1 DEF Protected
  <2>3. CASE ~Denied(h[2]) \/ (Served(h[3]) /\ h[3].size > 0)
    <3>1. Turn(u, h).say = If("writes" \in h[4].marks, "methods-advertised")
      <4>1. Verb(u, h, me) = Report(If("writes" \in h[4].marks, "methods-advertised"))
        BY <2>1, <2>3, VerbForms
      <4> QED BY <1>1, <4>1, Forms
    <3>2. \A k \in Turn(u, h).say : k = "methods-advertised"
      BY <3>1 DEF If
    <3> QED BY <1>4, <1>6, <2>2, <3>2 DEF Follow
  <2>4. CASE Denied(h[2]) /\ ~(Served(h[3]) /\ h[3].size > 0)
    <3>1. Turn(u, h).say = If(Served(h[3]) \/ Served(h[4]), "verb-bypass")
      <4>1. \E x : Verb(u, h, me) =
                     ReportAndAsk(If(Served(h[3]) \/ Served(h[4]), "verb-bypass"), x)
        BY <2>1, <2>4, VerbForms
      <4> QED BY <1>1, <4>1, Forms
    <3>2. \A k \in Turn(u, h).say : k = "verb-bypass" /\ (Served(g[3]) \/ Served(a))
      BY <2>1, <3>1 DEF If
    <3>3. Turn(u, g).ask[1] = As("HEAD")
      <4>1. Verb(u, g, me) = Ask(As("HEAD"))
        BY <1>2, <1>12, <2>1, <2>4, VerbForms DEF As
      <4> QED BY <1>1, <4>1, Forms
    <3>4. g[2].is = "block" \/ (Shut(n) /\ Unread(hs, NoAuth(me), alive))
      BY <1>4, <1>12, <2>1, <2>4 DEF Protected
    <3>5. Served(a) => g[2].is = "block" \/ (Shut(n) /\ "method" \in n.flaws)
      BY <1>3, <1>5, <1>8, <3>3, <3>4, OpenedByMethod DEF Nature, hs
    <3>6. Served(g[3]) => g[2].is = "block" \/ (Shut(n) /\ "method" \in n.flaws)
      BY <1>4, <1>12, <2>1, <2>4, <3>4 DEF Protected
    <3>7. \A k \in Turn(u, h).say : Sound(k, u, h)
      BY <1>7, <2>1, <3>2, <3>5, <3>6
    <3> QED BY <1>4, <2>2, <3>7 DEF Follow
  <2> QED BY <2>3, <2>4
<1>13. CASE Len(g) > 3
  <2>1. Len(h) \in Nat /\ Len(h) > 4
    BY <1>2, <1>13
  <2>2. Turn(u, h) = Report(If("writes" \in h[Len(h)].marks, "methods-advertised"))
    BY <1>1, <2>1, VerbForms
  <2>3. Turn(u, h).ask = <<>> /\ \A k \in Turn(u, h).say : k = "methods-advertised"
    BY <2>2, Forms DEF If
  <2> QED BY <1>6, <2>3 DEF Follow
<1>14. Len(g) = 0 \/ Len(g) = 1 \/ Len(g) = 2 \/ Len(g) = 3 \/ Len(g) > 3
  <2>1. \A m \in Nat : m = 0 \/ m = 1 \/ m = 2 \/ m = 3 \/ m > 3
    OBVIOUS
  <2> QED BY ONLY <1>2, <2>1, Zenon
<1> QED BY <1>9, <1>10, <1>11, <1>12, <1>13, <1>14

\* A hub's handshake, a request for one without credentials, and the verdict.
Handshake(a) == a.st = 200 /\ "hub" \in a.marks
Unsigned(u, m) == [Get(u.url, NoAuth(me)) EXCEPT !.method = m]
Verdict(a) == IF Handshake(a) THEN "hub-open" ELSE "hub-guarded"

\* What the handshake stage does after each answer.
LEMMA WebSocketForms ==
    ASSUME NEW u, NEW g, Len(g) \in Nat
    PROVE  LET n == Len(g)
               t == WebSocket(u, g, me)
           IN  /\ n = 0 => t = Ask([Get(u.url, me) EXCEPT !.method = "POST"])
               /\ n = 1 /\ Handshake(g[1]) => t = Skip \/ t = Ask(Unsigned(u, "POST"))
               /\ n = 1 /\ ~Handshake(g[1]) => t = Skip \/ t = Ask(Get(u.url, me))
               /\ n = 2 /\ ~Handshake(g[1]) =>
                    t = Skip \/ (Handshake(g[2]) /\ t = Ask(Unsigned(u, "GET")))
               /\ n = 2 /\ Handshake(g[1]) => t = Report({Verdict(g[n])})
               /\ n > 2 => t = Report({Verdict(g[n])})
<1> DEFINE n == Len(g)
           post == [Get(u.url, me) EXCEPT !.method = "POST"]
           bare == [Get(u.url, NoAuth(me)) EXCEPT !.method = IF n = 1 THEN "POST" ELSE "GET"]
           verdict == Report({Verdict(g[n])})
           t == WebSocket(u, g, me)
<1>1. t = CASE n = 0 -> Ask(post)
            [] n = 1 -> IF ~Heard(g[1]) THEN Skip
                        ELSE IF Handshake(g[1]) THEN Ask(bare) ELSE Ask(Get(u.url, me))
            [] n = 2 /\ ~Handshake(g[1]) -> IF Handshake(g[2]) THEN Ask(bare) ELSE Skip
            [] OTHER -> verdict
  BY DEF WebSocket, Handshake, Verdict
<1>2. (n = 1 => bare = Unsigned(u, "POST")) /\ (n = 2 => bare = Unsigned(u, "GET")) /\ n \in Nat
  <2>1. CASE n = 1
    BY <2>1 DEF Unsigned
  <2>2. CASE n = 2
    BY <2>2 DEF Unsigned
  <2>3. CASE n # 1 /\ n # 2
    BY <2>3
  <2> QED BY <2>1, <2>2, <2>3
<1>3. n > 2 => n # 0 /\ n # 1 /\ n # 2
  BY <1>2, Counts, Zenon
<1> HIDE DEF n, bare, post, verdict, t
<1>4. n = 0 => t = Ask(post)
  BY <1>1
<1>5. /\ n = 1 /\ Handshake(g[1]) => t = Skip \/ t = Ask(Unsigned(u, "POST"))
      /\ n = 1 /\ ~Handshake(g[1]) => t = Skip \/ t = Ask(Get(u.url, me))
  BY <1>1, <1>2
<1>6. n = 2 /\ ~Handshake(g[1]) => t = Skip \/ (Handshake(g[2]) /\ t = Ask(Unsigned(u, "GET")))
  BY <1>1, <1>2
<1>7. (n = 2 /\ Handshake(g[1]) => t = verdict) /\ (n > 2 => t = verdict)
  BY <1>1, <1>3
<1> QED BY <1>4, <1>5, <1>6, <1>7 DEF n, post, verdict, t

\* The verdict on a hub after a handshake without credentials.
LEMMA HubVerdict ==
    ASSUME server \in Servers, NEW u, u.url \in Urls, NEW r, NEW a, NEW h,
           Plausible(r, a), r.url = u.url, OfA(r.who), r.input = "own",
           r.method \in {"POST", "GET"}, Len(h) \in Nat, h[Len(h)] = a,
           "hub" \in server.at[u.url].habits,
           NEW k, k = Verdict(a)
    PROVE  Sound(k, u, h)
<1> DEFINE n == server.at[u.url]
           f == Finding(k, u, h)
<1>1. n \in Natures /\ Nature(r) = n /\ r.input \notin Copies
  BY DepthAssumption DEF Nature, Copies
<1>2. f.kind = k /\ f.url = u.url /\ f.got = h
  BY Findings
<1>3. n.guard = "open" \/ n.guard = "locked"
  BY <1>1 DEF Natures
<1>4. "hub" \in Standing(r.url)
  BY DEF Standing
<1> HIDE DEF n, f
<1>5. CASE Handshake(a)
  <2>1. Reads(r)
    BY <1>1, <1>5, Signs DEF Handshake
  <2>2. n.guard = "open" \/ \E x \in server.honours : a.who[x] = "A"
    BY <1>1, <2>1, ReadsBy DEF Plausible
  <2>3. k = "hub-open"
    BY <1>5 DEF Verdict
  <2>4. n.guard = "open" => Right(f)
    BY <1>2, <2>3, RightIs DEF n
  <2>5. (\E x \in server.honours : a.who[x] = "A") => Misled(f)
    BY <1>2, <2>3, MisledIs
  <2> QED BY <2>2, <2>3, <2>4, <2>5 DEF Sound, f
<1>6. CASE ~Handshake(a)
  <2>1. k = "hub-guarded"
    BY <1>6 DEF Verdict
  <2>2. a.is \in {"lost", "block"} => Misled(f)
    BY <1>2, <2>1, MisledIs
  <2>3. n.guard = "locked" => Right(f)
    BY <1>2, <2>1, RightIs DEF n
  <2>4. CASE Nothing(a) \/ Overload(a)
    BY <2>1, <2>2, <2>4 DEF Nothing, Overload, Sound, f
  <2>5. CASE Refuses(r, a)
    <3>1. n.guard # "open"
      BY <1>1, <2>5, RefusalIs DEF Reads
    <3> QED BY <1>3, <2>1, <2>3, <3>1 DEF Sound, f
  <2>6. CASE Serves(r, a)
    <3>1. ~Page(r, a)
      BY <1>4, <1>6 DEF Page, Handshake
    <3>2. ~Owns(r)
      BY <2>6, <3>1 DEF Serves, Registers
    <3>3. n.guard # "open"
      BY <1>1, <3>2 DEF Owns
    <3> QED BY <1>3, <2>1, <2>3, <3>3 DEF Sound, f
  <2> QED BY <1>1, <2>4, <2>5, <2>6 DEF Plausible, Copied
<1> QED BY <1>5, <1>6

LEMMA WebSocketIsSound ==
    ASSUME NEW u, NEW g, NEW a, NEW h, Step(u, g, a, h), Stage = "websocket",
           NEW us, Past(u, g, us)
    PROVE  Follow(u, h, us)
<1> DEFINE n == server.at[u.url]
           r == Turn(u, g).ask[1]
<1>0. Len(g) \in Nat
  BY DEF Step
<1>1. /\ Turn(u, g) = WebSocket(u, g, me) /\ Turn(u, h) = WebSocket(u, h, me)
      /\ Turn(u, g).ask # <<>>
  BY TurnIs DEF Step
<1>2. /\ Len(g) \in Nat /\ Len(h) = Len(g) + 1 /\ h[Len(h)] = a
      /\ Len(h) \in Nat /\ \A i \in 1 .. Len(g) : h[i] = g[i]
  BY DEF Step
<1>3. /\ Plausible(r, a) /\ server \in Servers /\ u.url \in Urls /\ me \in Sessions
  BY DEF Step
<1>4. Shaken(n, g) /\ (Shaken(n, h) => Past(u, h, us))
  BY DEF Past, Engines
<1>5. \A m : /\ Unsigned(u, m).url = u.url /\ Unsigned(u, m).input = "own"
             /\ Unsigned(u, m).method = m /\ OfA(Unsigned(u, m).who)
  BY <1>3, Parts, Identities DEF Unsigned
<1>6. \A x : Skip.ask = <<>> /\ Report(x).ask = <<>>
  BY Forms
<1>7. ASSUME r.url = u.url, r.input = "own"
      PROVE  Shaken(n, h)
  <2>1. "hub" \in a.marks => "hub" \in n.habits
    BY <1>3, <1>7, Signs DEF Copies
  <2>2. \A i \in 1 .. Len(h) : i \in 1 .. Len(g) \/ i = Len(h)
    <3>1. \A l \in Nat : \A i \in 1 .. (l + 1) : i \in 1 .. l \/ i = l + 1
      OBVIOUS
    <3> QED BY <1>2, <3>1
  <2> QED BY <1>2, <1>4, <2>1, <2>2 DEF Shaken
<1>8. ASSUME NEW m \in {"POST", "GET"}, r = Unsigned(u, m),
             Turn(u, h) = Report({Verdict(h[Len(h)])}), "hub" \in n.habits
      PROVE  Follow(u, h, us)
  <2> DEFINE k == Verdict(a)
  <2>1. Sound(k, u, h)
    <3>1. /\ Plausible(r, a) /\ r.url = u.url /\ OfA(r.who) /\ r.input = "own"
          /\ r.method \in {"POST", "GET"}
      BY <1>3, <1>5, <1>8
    <3>2. Len(h) \in Nat /\ h[Len(h)] = a
      BY <1>2
    <3>3. "hub" \in server.at[u.url].habits /\ server \in Servers /\ u.url \in Urls
      BY <1>3, <1>8
    <3> HIDE DEF r
    <3> QED BY ONLY <3>1, <3>2, <3>3, HubVerdict
  <2> HIDE DEF k
  <2>2. Turn(u, h) = Report({k})
    BY <1>2, <1>8 DEF k
  <2>3. Turn(u, h).say = {k} /\ Turn(u, h).ask = <<>>
    BY <2>2, Forms
  <2> QED BY <2>1, <2>3 DEF Follow
<1>9. ASSUME r.url = u.url, r.input = "own", Turn(u, h).say = {}
      PROVE  Follow(u, h, us)
  BY <1>4, <1>7, <1>9 DEF Follow
<1> HIDE DEF n, r
<1>10. CASE Len(g) = 0
  <2>1. r.url = u.url /\ r.input = "own"
    <3>1. WebSocket(u, g, me) = Ask([Get(u.url, me) EXCEPT !.method = "POST"])
      BY <1>0, <1>10, WebSocketForms
    <3>2. r = [Get(u.url, me) EXCEPT !.method = "POST"]
      BY <1>1, <3>1, Forms DEF r
    <3> QED BY <3>2, Parts
  <2>2. Turn(u, h).say = {}
    <3>1. Len(h) = 1 /\ Len(h) \in Nat
      BY <1>2, <1>10
    <3>2. \E x : WebSocket(u, h, me) = Skip \/ WebSocket(u, h, me) = Ask(x)
      BY <3>1, WebSocketForms
    <3> QED BY <1>1, <3>2, Forms
  <2> QED BY <1>9, <2>1, <2>2
<1>11. CASE Len(g) = 1
  <2>1. Len(h) = 2 /\ Len(h) \in Nat /\ h[1] = g[1]
    BY <1>2, <1>11
  <2>2. CASE Handshake(g[1])
    <3>1. Turn(u, g) = Skip \/ Turn(u, g) = Ask(Unsigned(u, "POST"))
      BY <1>0, <1>1, <1>11, <2>2, WebSocketForms
    <3>2. r = Unsigned(u, "POST")
      BY <1>1, <1>6, <3>1, Forms DEF r
    <3>3. Turn(u, h) = Report({Verdict(h[Len(h)])})
      <4>1. WebSocket(u, h, me) = Report({Verdict(h[Len(h)])})
        BY <2>1, <2>2, WebSocketForms
      <4> QED BY <1>1, <4>1
    <3>4. "hub" \in n.habits
      BY <1>4, <1>11, <2>2 DEF Shaken, Handshake
    <3> QED BY <1>8, <3>2, <3>3, <3>4
  <2>3. CASE ~Handshake(g[1])
    <3>1. Turn(u, g) = Skip \/ Turn(u, g) = Ask(Get(u.url, me))
      BY <1>0, <1>1, <1>11, <2>3, WebSocketForms
    <3>2. r = Get(u.url, me)
      BY <1>1, <1>6, <3>1, Forms DEF r
    <3>3. \E x : WebSocket(u, h, me) = Skip \/ WebSocket(u, h, me) = Ask(x)
      BY <2>1, <2>3, WebSocketForms
    <3>4. Turn(u, h).say = {}
      BY <1>1, <3>3, Forms
    <3>5. r.url = u.url /\ r.input = "own"
      BY <3>2, Parts
    <3> QED BY <1>9, <3>4, <3>5
  <2> QED BY <2>2, <2>3
<1>12. CASE Len(g) = 2
  <2>1. CASE Handshake(g[1])
    <3>1. \E x : WebSocket(u, g, me) = Report(x)
      BY <1>0, <1>12, <2>1, WebSocketForms
    <3> QED BY <1>1, <1>6, <3>1
  <2>2. CASE ~Handshake(g[1])
    <3>1. \/ WebSocket(u, g, me) = Skip
          \/ Handshake(g[2]) /\ WebSocket(u, g, me) = Ask(Unsigned(u, "GET"))
      BY <1>0, <1>12, <2>2, WebSocketForms
    <3>2. r = Unsigned(u, "GET") /\ Handshake(g[2])
      BY <1>1, <1>6, <3>1, Forms DEF r
    <3>3. Len(h) > 2 /\ Len(h) \in Nat
      BY <1>2, <1>12
    <3>4. Turn(u, h) = Report({Verdict(h[Len(h)])})
      <4>1. WebSocket(u, h, me) = Report({Verdict(h[Len(h)])})
        BY <3>3, WebSocketForms
      <4> QED BY <1>1, <4>1
    <3>5. "hub" \in n.habits
      BY <1>4, <1>12, <3>2 DEF Shaken, Handshake
    <3> QED BY <1>8, <3>2, <3>4, <3>5
  <2> QED BY <2>1, <2>2
<1>13. CASE Len(g) > 2
  <2>1. \E x : WebSocket(u, g, me) = Report(x)
    BY <1>0, <1>13, WebSocketForms
  <2> QED BY <1>1, <1>6, <2>1
<1>14. Len(g) = 0 \/ Len(g) = 1 \/ Len(g) = 2 \/ Len(g) > 2
  <2>1. \A m \in Nat : m = 0 \/ m = 1 \/ m = 2 \/ m > 2
    OBVIOUS
  <2> QED BY ONLY <1>2, <2>1, Zenon
<1> QED BY <1>10, <1>11, <1>12, <1>13, <1>14

-----------------------------------------------------------------------------
(***************************************************************************)
(* The injection tests: a parser error, or another page.                   *)
(***************************************************************************)
\* A request of A's for what is A's.
Ordinary(r) ==
    /\ r.url \in Urls /\ OfA(r.who) /\ r.method = "GET"
    /\ r.input \notin Copies \union {"nextid", "theirs", "new user"}

LEMMA Requested ==
    ASSUME me \in Sessions, NEW v \in Urls
    PROVE  /\ Ordinary(Get(v, me))
           /\ \A x \in {"quote", "paren", "true", "false", "ne", "star"} :
                Ordinary(Put(v, me, x)) /\ Put(v, me, x).input = x /\ Put(v, me, x).url = v
<1>1. Ordinary(Get(v, me))
  <2> DEFINE r == Get(v, me)
  <2>1. r.url = v /\ r.who = me /\ r.method = "GET" /\ r.input = "own"
    BY Parts
  <2> HIDE DEF r
  <2>2. Ordinary(r)
    BY <2>1, Identities DEF Ordinary, Copies
  <2> QED BY <2>2 DEF r
<1>2. ASSUME NEW x \in {"quote", "paren", "true", "false", "ne", "star"}
      PROVE  Ordinary(Put(v, me, x)) /\ Put(v, me, x).input = x /\ Put(v, me, x).url = v
  <2> DEFINE r == Put(v, me, x)
  <2>1. r.url = v /\ r.who = me /\ r.method = "GET" /\ r.input = x
    BY Parts
  <2> HIDE DEF r
  <2>2. Ordinary(r)
    BY <2>1, Identities DEF Ordinary, Copies
  <2> QED BY <2>1, <2>2 DEF r
<1> QED BY <1>1, <1>2

\* Its answer, where it is no loss, block or refusal, is the page.
LEMMA OrdinaryIs ==
    ASSUME server \in Servers, NEW r, Ordinary(r), NEW a, Plausible(r, a)
    PROVE  \/ a.is \in {"block", "refusal"} \/ a.st = 0
           \/ /\ a.size \in Sizes(r) /\ Standing(r.url) \subseteq a.marks
              /\ Fair(Nature(r), a.marks)
<1>1. CASE Nothing(a) \/ Overload(a)
  BY <1>1 DEF Nothing, Overload
<1>2. CASE Refuses(r, a)
  BY <1>2, RefusalIs
<1>3. CASE Serves(r, a)
  <2>1. Owns(r)
    BY <1>3, OwnsOwn DEF Ordinary, Serves
  <2>2. Page(r, a)
    BY <1>3, <2>1 DEF Serves, Registers, Ordinary
  <2> QED BY <2>2 DEF Page, Ordinary
<1> QED BY <1>1, <1>2, <1>3 DEF Plausible, Copied, Ordinary

\* The baseline an injection test keeps.
LEMMA BaselineIs ==
    ASSUME server \in Servers, NEW r, Ordinary(r), NEW a, Plausible(r, a), r.input = "own"
    PROVE  \/ a.is \in {"block", "refusal"} \/ a.st = 0
           \/ "moody" \in Nature(r).habits
           \/ a.size = 20 /\ ("errs" \in Nature(r).habits => Engines \subseteq a.marks)
<1>1. "moody" \notin Nature(r).habits => Sizes(r) = {20}
  BY DEF Sizes, Ordinary
<1>2. "errs" \in Nature(r).habits => Engines \subseteq Standing(r.url)
  BY DEF Standing, Nature
<1> QED BY <1>1, <1>2, OrdinaryIs

\* A turn of such a test keeps it.
LEMMA BaselineStays ==
    ASSUME NEW u, NEW g, NEW a, NEW h, Step(u, g, a, h), Stage \in Engines,
           NEW us, Past(u, g, us),
           Len(g) = 0 => Turn(u, g).ask[1] = Get(u.url, me),
           Len(g) = 1 => Heard(g[1])
    PROVE  Baseline(server.at[u.url], h) /\ Past(u, h, us)
<1> DEFINE n == server.at[u.url]
           r == Get(u.url, me)
<1>1. /\ Len(g) \in Nat /\ Len(h) = Len(g) + 1 /\ h[Len(g) + 1] = a
      /\ \A i \in 1 .. Len(g) : h[i] = g[i]
  BY DEF Step
<1>2. Baseline(n, g) /\ (Baseline(n, h) => Past(u, h, us))
  BY DEF Past, Engines
<1>3. Ordinary(r) /\ r.input = "own" /\ Nature(r) = n
  BY Requested, Parts DEF Step, Nature
<1> HIDE DEF n, r
<1>4. CASE Len(g) = 0
  <2>1. Plausible(r, a) /\ server \in Servers
    BY <1>4 DEF Step, r
  <2>2. Len(h) = 1 /\ h[1] = a
    BY <1>1, <1>4
  <2>3. \/ a.is \in {"block", "refusal"} \/ a.st = 0 \/ "moody" \in n.habits
        \/ a.size = 20 /\ ("errs" \in n.habits => Engines \subseteq a.marks)
    BY <1>3, <2>1, BaselineIs
  <2> QED BY <1>2, <2>2, <2>3 DEF Baseline, n
<1>5. CASE Len(g) = 1
  <2>1. Len(h) = 2 /\ h[1] = g[1]
    BY <1>1, <1>5
  <2> QED BY <1>2, <1>5, <2>1 DEF Baseline, Heard, n
<1>6. CASE Len(g) >= 2
  <2>1. Len(h) >= 2 /\ h[1] = g[1] /\ Len(g) >= 1
    BY <1>1, <1>6
  <2> QED BY <1>2, <1>6, <2>1 DEF Baseline, n
<1>7. Len(g) = 0 \/ Len(g) = 1 \/ Len(g) >= 2
  <2>1. \A m \in Nat : m = 0 \/ m = 1 \/ m >= 2
    OBVIOUS
  <2> QED BY <1>1, <2>1
<1> QED BY <1>4, <1>5, <1>6, <1>7

\* A parser error the baseline did not show is the flaw's.
LEMMA ErrorTold ==
    ASSUME NEW u, NEW h, Len(h) \in Nat, Len(h) >= 2, NEW e \in Engines,
           Baseline(server.at[u.url], h), ErrorBased(e, h),
           NEW r, Plausible(r, h[2]), r.url = u.url, r.input \notin Copies
    PROVE  Sound(e, u, h)
<1> DEFINE n == server.at[u.url]
           f == Finding(e, u, h)
<1>1. f.kind = e /\ f.url = u.url /\ f.got = h
  BY Findings
<1>2. e \in h[2].marks /\ e \notin h[1].marks
  BY DEF ErrorBased
<1>3. e \in n.flaws \/ "errs" \in n.habits
  <2>1. e \notin {"form", "at login", "hosted"}
    BY DEF Engines
  <2>2. Page(r, h[2])
    BY <1>2, <2>1, Marked
  <2> QED BY <1>2, <2>2 DEF Page, Fair, Nature
<1> HIDE DEF n, f
<1>4. "errs" \in n.habits => h[1].is \in {"block", "refusal"} \/ "moody" \in n.habits
  BY <1>2 DEF Baseline, n
<1>5. e \in n.flaws => Right(f)
  BY <1>1, RightIs DEF n
<1>6. "moody" \in n.habits => Misled(f)
  BY <1>1, MisledIs DEF n
<1>7. h[1].is \in {"block", "refusal"} => Misled(f)
  <2>1. 1 \in 1 .. Len(h)
    OBVIOUS
  <2> QED BY <1>1, <2>1, MisledIs
<1>8. e # "backup"
  BY DEF Engines
<1> QED BY <1>3, <1>4, <1>5, <1>6, <1>7, <1>8 DEF Sound, f

\* So is a page that differs from it, where only the flaw would change the page.
LEMMA DifferenceTold ==
    ASSUME server \in Servers, NEW u, NEW h, Len(h) \in Nat, Len(h) >= 2, NEW e \in Engines,
           Baseline(server.at[u.url], h),
           NEW r, NEW a, Plausible(r, a), Ordinary(r), r.url = u.url,
           h[Len(h)] = a, Heard(a), ~(h[1].size = 20 /\ a.size = 20),
           "moody" \notin Nature(r).habits /\ e \notin Nature(r).flaws => Sizes(r) = {20}
    PROVE  Sound(e, u, h)
<1> DEFINE n == server.at[u.url]
           f == Finding(e, u, h)
<1>1. f.kind = e /\ f.url = u.url /\ f.got = h
  BY Findings
<1>2. Nature(r) = n
  BY DEF Nature
<1> HIDE DEF n, f
<1>3. \/ h[1].is \in {"block", "refusal"} \/ "moody" \in n.habits \/ h[1].size = 20
  BY DEF Baseline, n
<1>4. a.is \in {"block", "refusal"} \/ a.size \in Sizes(r)
  BY OrdinaryIs DEF Heard
<1>5. e \in n.flaws => Right(f)
  BY <1>1, RightIs DEF n
<1>6. "moody" \in n.habits => Misled(f)
  BY <1>1, MisledIs DEF n
<1>7. h[1].is \in {"block", "refusal"} \/ h[Len(h)].is \in {"block", "refusal"} => Misled(f)
  <2>1. 1 \in 1 .. Len(h) /\ Len(h) \in 1 .. Len(h)
    OBVIOUS
  <2> QED BY <1>1, <2>1, MisledIs
<1>8. e # "backup"
  BY DEF Engines
<1> QED BY <1>2, <1>3, <1>4, <1>5, <1>6, <1>7, <1>8 DEF Sound, f

\* What such a test does after each answer.
LEMMA XPathForms ==
    ASSUME NEW u, NEW g, Len(g) \in Nat
    PROVE  LET n == Len(g)
               t == XPath(u, g, me)
               stop == ReportAndStop({"xpath"})
           IN  /\ n = 0 => t = Ask(Get(u.url, me))
               /\ n > 0 /\ ~Heard(g[n]) => t = Skip
               /\ n = 1 /\ Heard(g[1]) => t = Ask(Put(u.url, me, "quote"))
               /\ n = 2 => t \in {Skip, Ask(Put(u.url, me, "true"))}
                           \/ (ErrorBased("xpath", g) /\ t = stop)
               /\ n = 3 => t \in {Skip, Ask(Put(u.url, me, "false"))}
               /\ n > 3 => t = Skip \/ (/\ t = stop /\ Heard(g[n])
                                        /\ 10 * Abs(g[4].size - g[1].size) > 3 * g[1].size)
<1> DEFINE n == Len(g)
           stop == ReportAndStop({"xpath"})
           far == 10 * Abs(g[4].size - g[1].size) > 3 * g[1].size
           steady == 20 * Abs(g[3].size - g[1].size) < g[1].size
           apart == 10 * Abs(g[3].size - g[4].size) > 3 * g[1].size
           differs == steady /\ far /\ apart
           t == XPath(u, g, me)
<1>1. t = IF n > 0 /\ ~Heard(g[n]) THEN Skip
          ELSE CASE n = 0 -> Ask(Get(u.url, me))
            [] n = 1 -> Ask(Put(u.url, me, "quote"))
            [] n = 2 -> IF ErrorBased("xpath", g) THEN stop
                        ELSE IF Substantial(g[1]) THEN Ask(Put(u.url, me, "true")) ELSE Skip
            [] n = 3 -> Ask(Put(u.url, me, "false"))
            [] OTHER -> IF differs THEN stop ELSE Skip
  BY DEF XPath
<1>2. n \in Nat
  OBVIOUS
<1>3. /\ n = 1 => n > 0 /\ n # 0
      /\ n = 2 => n > 0 /\ n # 0 /\ n # 1
      /\ n = 3 => n > 0 /\ n # 0 /\ n # 1 /\ n # 2
      /\ n > 3 => n > 0 /\ n # 0 /\ n # 1 /\ n # 2 /\ n # 3
  <2> HIDE DEF n
  <2> QED BY <1>2
<1> HIDE DEF n, stop, far, steady, apart, t
<1>4. n = 0 => t = Ask(Get(u.url, me))
  BY <1>1, <1>2
<1>5. n > 0 /\ ~Heard(g[n]) => t = Skip
  BY <1>1
<1>6. n = 1 /\ Heard(g[1]) => t = Ask(Put(u.url, me, "quote"))
  BY <1>1, <1>3
<1>7. n = 2 => t \in {Skip, Ask(Put(u.url, me, "true"))} \/ (ErrorBased("xpath", g) /\ t = stop)
  BY <1>1, <1>3
<1>8. n = 3 => t \in {Skip, Ask(Put(u.url, me, "false"))}
  BY <1>1, <1>3
<1>9. n > 3 => t = Skip \/ (t = stop /\ Heard(g[n]) /\ far)
  BY <1>1, <1>3
<1> QED BY <1>4, <1>5, <1>6, <1>7, <1>8, <1>9 DEF n, stop, far, t

LEMMA XPathIsSound ==
    ASSUME NEW u, NEW g, NEW a, NEW h, Step(u, g, a, h), Stage = "xpath",
           NEW us, Past(u, g, us)
    PROVE  Follow(u, h, us)
<1> DEFINE n == server.at[u.url]
           r == Turn(u, g).ask[1]
           stop == ReportAndStop({"xpath"})
<1>1. /\ Turn(u, g) = XPath(u, g, me) /\ Turn(u, h) = XPath(u, h, me)
      /\ Turn(u, g).ask # <<>>
  BY TurnIs DEF Step
<1>2. /\ Len(g) \in Nat /\ Len(h) = Len(g) + 1 /\ Len(h) \in Nat /\ h[Len(h)] = a
  BY DEF Step
<1>3. Plausible(r, a) /\ server \in Servers /\ u.url \in Urls /\ me \in Sessions
  BY DEF Step
<1>4. "xpath" \in Engines
  BY DEF Engines
<1>5. /\ Len(g) = 0 => r = Get(u.url, me)
      /\ Len(g) = 1 => r = Put(u.url, me, "quote") /\ Heard(g[1])
      /\ Len(g) = 2 => r = Put(u.url, me, "true")
      /\ Len(g) = 3 => r = Put(u.url, me, "false")
      /\ ~(Len(g) > 3)
  <2>1. Len(g) = 0 => XPath(u, g, me) = Ask(Get(u.url, me))
    BY <1>2, XPathForms
  <2>2. Len(g) = 1 => XPath(u, g, me) = Skip
                      \/ (Heard(g[1]) /\ XPath(u, g, me) = Ask(Put(u.url, me, "quote")))
    BY <1>2, XPathForms
  <2>3. Len(g) = 2 => \/ XPath(u, g, me) = Skip \/ XPath(u, g, me) = stop
                      \/ XPath(u, g, me) = Ask(Put(u.url, me, "true"))
    BY <1>2, XPathForms
  <2>4. Len(g) = 3 => XPath(u, g, me) = Skip \/ XPath(u, g, me) = Ask(Put(u.url, me, "false"))
    BY <1>2, XPathForms
  <2>5. Len(g) > 3 => XPath(u, g, me) = Skip \/ XPath(u, g, me) = stop
    BY <1>2, XPathForms
  <2> QED BY <1>1, <2>1, <2>2, <2>3, <2>4, <2>5, Forms
<1>6. Baseline(n, h) /\ Past(u, h, us)
  <2>1. Len(g) = 0 => r = Get(u.url, me)
    BY <1>5
  <2>2. Len(g) = 1 => Heard(g[1])
    BY <1>5
  <2> QED BY <1>4, <2>1, <2>2, BaselineStays
<1> HIDE DEF n, r, stop
<1>7. CASE Len(g) = 0
  <2>1. Len(h) = 1
    BY <1>2, <1>7
  <2>2. XPath(u, h, me) = Skip \/ \E x : XPath(u, h, me) = Ask(x)
    BY <1>2, <2>1, XPathForms
  <2>3. Turn(u, h).say = {}
    BY <1>1, <2>2, Forms
  <2> QED BY <1>6, <2>3 DEF Follow
<1>8. CASE Len(g) = 1
  <2>1. Len(h) = 2 /\ Len(h) >= 2 /\ h[2] = a
    BY <1>2, <1>8
  <2>2. \/ XPath(u, h, me) = Skip \/ \E x : XPath(u, h, me) = Ask(x)
        \/ ErrorBased("xpath", h) /\ XPath(u, h, me) = stop
    BY <1>2, <2>1, XPathForms DEF stop
  <2>3. \A k \in Turn(u, h).say : k = "xpath" /\ ErrorBased("xpath", h)
    BY <1>1, <2>2, Forms DEF stop
  <2>4. r.url = u.url /\ r.input \notin Copies
    <3>1. r.url = u.url /\ r.input = "quote"
      BY <1>3, <1>5, <1>8, Requested
    <3> QED BY <3>1 DEF Copies
  <2>5. ErrorBased("xpath", h) => Sound("xpath", u, h)
    BY <1>2, <1>3, <1>4, <1>6, <2>1, <2>4, ErrorTold DEF n
  <2> QED BY <1>6, <2>3, <2>5 DEF Follow
<1>9. CASE Len(g) = 2
  <2>1. Len(h) = 3
    BY <1>2, <1>9
  <2>2. XPath(u, h, me) = Skip \/ \E x : XPath(u, h, me) = Ask(x)
    BY <1>2, <2>1, XPathForms
  <2>3. Turn(u, h).say = {}
    BY <1>1, <2>2, Forms
  <2> QED BY <1>6, <2>3 DEF Follow
<1>10. CASE Len(g) = 3
  <2> DEFINE far == 10 * Abs(a.size - h[1].size) > 3 * h[1].size
  <2>1. Len(h) = 4 /\ Len(h) > 3 /\ Len(h) >= 2 /\ h[4] = a
    BY <1>2, <1>10
  <2>2. XPath(u, h, me) = Skip \/ (XPath(u, h, me) = stop /\ Heard(a) /\ far)
    BY <1>2, <2>1, XPathForms DEF stop
  <2>3. ~(h[1].size = 20 /\ a.size = 20 /\ far)
    BY DEF Abs
  <2> HIDE DEF far
  <2>4. \A k \in Turn(u, h).say :
          k = "xpath" /\ Heard(a) /\ ~(h[1].size = 20 /\ a.size = 20)
    BY <1>1, <2>2, <2>3, Forms DEF stop
  <2>5. Ordinary(r) /\ r.url = u.url /\ r.input = "false"
    BY <1>3, <1>5, <1>10, Requested
  <2>6. "moody" \notin Nature(r).habits /\ "xpath" \notin Nature(r).flaws => Sizes(r) = {20}
    BY <2>5 DEF Sizes, Ordinary
  <2>7. Heard(a) /\ ~(h[1].size = 20 /\ a.size = 20) => Sound("xpath", u, h)
    BY <1>2, <1>3, <1>4, <1>6, <2>1, <2>5, <2>6, DifferenceTold DEF n
  <2> QED BY <1>6, <2>4, <2>7 DEF Follow
<1>11. Len(g) = 0 \/ Len(g) = 1 \/ Len(g) = 2 \/ Len(g) = 3
  <2>1. \A m \in Nat : m = 0 \/ m = 1 \/ m = 2 \/ m = 3 \/ m > 3
    OBVIOUS
  <2> QED BY ONLY <1>2, <1>5, <2>1, Zenon
<1> QED BY <1>7, <1>8, <1>9, <1>10, <1>11

\* The other two tests: breaker and widener are their inputs, and a page of the
\* baseline's size is not a changed one.
LEMMA NoSqlForms ==
    ASSUME NEW u, NEW g, Len(g) \in Nat
    PROVE  LET n == Len(g)
               t == NoSql(u, g, me)
               stop == ReportAndStop({"nosql"})
           IN  /\ n = 0 => t = Ask(Get(u.url, me))
               /\ n > 0 /\ ~Heard(g[n]) => t = Skip
               /\ n = 1 /\ Heard(g[1]) => t = Ask(Put(u.url, me, "quote"))
               /\ n = 2 => t \in {Skip, Ask(Put(u.url, me, "ne"))}
                           \/ (ErrorBased("nosql", g) /\ t = stop)
               /\ n > 2 => t = Skip \/ (/\ t = stop /\ Heard(g[n])
                                        /\ 10 * Abs(g[3].size - g[1].size) > 3 * g[1].size)
<1> DEFINE n == Len(g)
           stop == ReportAndStop({"nosql"})
           far == 10 * Abs(g[3].size - g[1].size) > 3 * g[1].size
           t == NoSql(u, g, me)
<1>1. t = IF n > 0 /\ ~Heard(g[n]) THEN Skip
          ELSE CASE n = 0 -> Ask(Get(u.url, me))
            [] n = 1 -> Ask(Put(u.url, me, "quote"))
            [] n = 2 -> IF ErrorBased("nosql", g) THEN stop
                        ELSE IF Substantial(g[1]) THEN Ask(Put(u.url, me, "ne")) ELSE Skip
            [] OTHER -> IF far THEN stop ELSE Skip
  BY DEF NoSql, Differential
<1>2. n \in Nat
  OBVIOUS
<1>3. /\ n = 1 => n > 0 /\ n # 0
      /\ n = 2 => n > 0 /\ n # 0 /\ n # 1
      /\ n > 2 => n > 0 /\ n # 0 /\ n # 1 /\ n # 2
  <2> HIDE DEF n
  <2> QED BY <1>2
<1> HIDE DEF n, stop, far, t
<1>4. n = 0 => t = Ask(Get(u.url, me))
  BY <1>1, <1>2
<1>5. n > 0 /\ ~Heard(g[n]) => t = Skip
  BY <1>1
<1>6. n = 1 /\ Heard(g[1]) => t = Ask(Put(u.url, me, "quote"))
  BY <1>1, <1>3
<1>7. n = 2 => t \in {Skip, Ask(Put(u.url, me, "ne"))} \/ (ErrorBased("nosql", g) /\ t = stop)
  BY <1>1, <1>3
<1>8. n > 2 => t = Skip \/ (t = stop /\ Heard(g[n]) /\ far)
  BY <1>1, <1>3
<1> QED BY <1>4, <1>5, <1>6, <1>7, <1>8 DEF n, stop, far, t

LEMMA NoSqlIsSound ==
    ASSUME NEW u, NEW g, NEW a, NEW h, Step(u, g, a, h), Stage = "nosql",
           NEW us, Past(u, g, us)
    PROVE  Follow(u, h, us)
<1> DEFINE n == server.at[u.url]
           r == Turn(u, g).ask[1]
           stop == ReportAndStop({"nosql"})
<1>1. /\ Turn(u, g) = NoSql(u, g, me) /\ Turn(u, h) = NoSql(u, h, me)
      /\ Turn(u, g).ask # <<>>
  BY TurnIs DEF Step
<1>2. /\ Len(g) \in Nat /\ Len(h) = Len(g) + 1 /\ Len(h) \in Nat /\ h[Len(h)] = a
  BY DEF Step
<1>3. Plausible(r, a) /\ server \in Servers /\ u.url \in Urls /\ me \in Sessions
  BY DEF Step
<1>4. "nosql" \in Engines
  BY DEF Engines
<1>5. /\ Len(g) = 0 => r = Get(u.url, me)
      /\ Len(g) = 1 => r = Put(u.url, me, "quote") /\ Heard(g[1])
      /\ Len(g) = 2 => r = Put(u.url, me, "ne")
      /\ ~(Len(g) > 2)
  <2>1. Len(g) = 0 => NoSql(u, g, me) = Ask(Get(u.url, me))
    BY <1>2, NoSqlForms
  <2>2. Len(g) = 1 => NoSql(u, g, me) = Skip
                      \/ (Heard(g[1]) /\ NoSql(u, g, me) = Ask(Put(u.url, me, "quote")))
    BY <1>2, NoSqlForms
  <2>3. Len(g) = 2 => \/ NoSql(u, g, me) = Skip \/ NoSql(u, g, me) = stop
                      \/ NoSql(u, g, me) = Ask(Put(u.url, me, "ne"))
    BY <1>2, NoSqlForms
  <2>4. Len(g) > 2 => NoSql(u, g, me) = Skip \/ NoSql(u, g, me) = stop
    BY <1>2, NoSqlForms
  <2> QED BY <1>1, <2>1, <2>2, <2>3, <2>4, Forms
<1>6. Baseline(n, h) /\ Past(u, h, us)
  <2>1. Len(g) = 0 => r = Get(u.url, me)
    BY <1>5
  <2>2. Len(g) = 1 => Heard(g[1])
    BY <1>5
  <2> QED BY <1>4, <2>1, <2>2, BaselineStays
<1> HIDE DEF n, r, stop
<1>7. CASE Len(g) = 0
  <2>1. Len(h) = 1
    BY <1>2, <1>7
  <2>2. NoSql(u, h, me) = Skip \/ \E x : NoSql(u, h, me) = Ask(x)
    BY <1>2, <2>1, NoSqlForms
  <2>3. Turn(u, h).say = {}
    BY <1>1, <2>2, Forms
  <2> QED BY <1>6, <2>3 DEF Follow
<1>8. CASE Len(g) = 1
  <2>1. Len(h) = 2 /\ Len(h) >= 2 /\ h[2] = a
    BY <1>2, <1>8
  <2>2. \/ NoSql(u, h, me) = Skip \/ \E x : NoSql(u, h, me) = Ask(x)
        \/ ErrorBased("nosql", h) /\ NoSql(u, h, me) = stop
    BY <1>2, <2>1, NoSqlForms DEF stop
  <2>3. \A k \in Turn(u, h).say : k = "nosql" /\ ErrorBased("nosql", h)
    BY <1>1, <2>2, Forms DEF stop
  <2>4. r.url = u.url /\ r.input \notin Copies
    <3>1. r.url = u.url /\ r.input = "quote"
      BY <1>3, <1>5, <1>8, Requested
    <3> QED BY <3>1 DEF Copies
  <2>5. ErrorBased("nosql", h) => Sound("nosql", u, h)
    BY <1>2, <1>3, <1>4, <1>6, <2>1, <2>4, ErrorTold DEF n
  <2> QED BY <1>6, <2>3, <2>5 DEF Follow
<1>9. CASE Len(g) = 2
  <2> DEFINE far == 10 * Abs(a.size - h[1].size) > 3 * h[1].size
  <2>1. Len(h) = 3 /\ Len(h) > 2 /\ Len(h) >= 2 /\ h[3] = a
    BY <1>2, <1>9
  <2>2. NoSql(u, h, me) = Skip \/ (NoSql(u, h, me) = stop /\ Heard(a) /\ far)
    BY <1>2, <2>1, NoSqlForms DEF stop
  <2>3. ~(h[1].size = 20 /\ a.size = 20 /\ far)
    BY DEF Abs
  <2> HIDE DEF far
  <2>4. \A k \in Turn(u, h).say :
          k = "nosql" /\ Heard(a) /\ ~(h[1].size = 20 /\ a.size = 20)
    BY <1>1, <2>2, <2>3, Forms DEF stop
  <2>5. Ordinary(r) /\ r.url = u.url /\ r.input = "ne"
    BY <1>3, <1>5, <1>9, Requested
  <2>6. "moody" \notin Nature(r).habits /\ "nosql" \notin Nature(r).flaws => Sizes(r) = {20}
    BY <2>5 DEF Sizes, Ordinary
  <2>7. Heard(a) /\ ~(h[1].size = 20 /\ a.size = 20) => Sound("nosql", u, h)
    BY <1>2, <1>3, <1>4, <1>6, <2>1, <2>5, <2>6, DifferenceTold DEF n
  <2> QED BY <1>6, <2>4, <2>7 DEF Follow
<1>10. Len(g) = 0 \/ Len(g) = 1 \/ Len(g) = 2
  <2>1. \A m \in Nat : m = 0 \/ m = 1 \/ m = 2 \/ m > 2
    OBVIOUS
  <2> QED BY ONLY <1>2, <1>5, <2>1, Zenon
<1> QED BY <1>7, <1>8, <1>9, <1>10

LEMMA LdapForms ==
    ASSUME NEW u, NEW g, Len(g) \in Nat
    PROVE  LET n == Len(g)
               t == Ldap(u, g, me)
               stop == ReportAndStop({"ldap"})
           IN  /\ n = 0 => t = Ask(Get(u.url, me))
               /\ n > 0 /\ ~Heard(g[n]) => t = Skip
               /\ n = 1 /\ Heard(g[1]) => t = Ask(Put(u.url, me, "paren"))
               /\ n = 2 => t \in {Skip, Ask(Put(u.url, me, "star"))}
                           \/ (ErrorBased("ldap", g) /\ t = stop)
               /\ n > 2 => t = Skip \/ (/\ t = stop /\ Heard(g[n])
                                        /\ 10 * (g[3].size - g[1].size) > 4 * g[1].size)
<1> DEFINE n == Len(g)
           stop == ReportAndStop({"ldap"})
           far == 10 * (g[3].size - g[1].size) > 4 * g[1].size
           t == Ldap(u, g, me)
<1>1. t = IF n > 0 /\ ~Heard(g[n]) THEN Skip
          ELSE CASE n = 0 -> Ask(Get(u.url, me))
            [] n = 1 -> Ask(Put(u.url, me, "paren"))
            [] n = 2 -> IF ErrorBased("ldap", g) THEN stop
                        ELSE IF Substantial(g[1]) THEN Ask(Put(u.url, me, "star")) ELSE Skip
            [] OTHER -> IF far THEN stop ELSE Skip
  BY DEF Ldap, Differential
<1>2. n \in Nat
  OBVIOUS
<1>3. /\ n = 1 => n > 0 /\ n # 0
      /\ n = 2 => n > 0 /\ n # 0 /\ n # 1
      /\ n > 2 => n > 0 /\ n # 0 /\ n # 1 /\ n # 2
  <2> HIDE DEF n
  <2> QED BY <1>2
<1> HIDE DEF n, stop, far, t
<1>4. n = 0 => t = Ask(Get(u.url, me))
  BY <1>1, <1>2
<1>5. n > 0 /\ ~Heard(g[n]) => t = Skip
  BY <1>1
<1>6. n = 1 /\ Heard(g[1]) => t = Ask(Put(u.url, me, "paren"))
  BY <1>1, <1>3
<1>7. n = 2 => t \in {Skip, Ask(Put(u.url, me, "star"))} \/ (ErrorBased("ldap", g) /\ t = stop)
  BY <1>1, <1>3
<1>8. n > 2 => t = Skip \/ (t = stop /\ Heard(g[n]) /\ far)
  BY <1>1, <1>3
<1> QED BY <1>4, <1>5, <1>6, <1>7, <1>8 DEF n, stop, far, t

LEMMA LdapIsSound ==
    ASSUME NEW u, NEW g, NEW a, NEW h, Step(u, g, a, h), Stage = "ldap",
           NEW us, Past(u, g, us)
    PROVE  Follow(u, h, us)
<1> DEFINE n == server.at[u.url]
           r == Turn(u, g).ask[1]
           stop == ReportAndStop({"ldap"})
<1>1. /\ Turn(u, g) = Ldap(u, g, me) /\ Turn(u, h) = Ldap(u, h, me)
      /\ Turn(u, g).ask # <<>>
  BY TurnIs DEF Step
<1>2. /\ Len(g) \in Nat /\ Len(h) = Len(g) + 1 /\ Len(h) \in Nat /\ h[Len(h)] = a
  BY DEF Step
<1>3. Plausible(r, a) /\ server \in Servers /\ u.url \in Urls /\ me \in Sessions
  BY DEF Step
<1>4. "ldap" \in Engines
  BY DEF Engines
<1>5. /\ Len(g) = 0 => r = Get(u.url, me)
      /\ Len(g) = 1 => r = Put(u.url, me, "paren") /\ Heard(g[1])
      /\ Len(g) = 2 => r = Put(u.url, me, "star")
      /\ ~(Len(g) > 2)
  <2>1. Len(g) = 0 => Ldap(u, g, me) = Ask(Get(u.url, me))
    BY <1>2, LdapForms
  <2>2. Len(g) = 1 => Ldap(u, g, me) = Skip
                      \/ (Heard(g[1]) /\ Ldap(u, g, me) = Ask(Put(u.url, me, "paren")))
    BY <1>2, LdapForms
  <2>3. Len(g) = 2 => \/ Ldap(u, g, me) = Skip \/ Ldap(u, g, me) = stop
                      \/ Ldap(u, g, me) = Ask(Put(u.url, me, "star"))
    BY <1>2, LdapForms
  <2>4. Len(g) > 2 => Ldap(u, g, me) = Skip \/ Ldap(u, g, me) = stop
    BY <1>2, LdapForms
  <2> QED BY <1>1, <2>1, <2>2, <2>3, <2>4, Forms
<1>6. Baseline(n, h) /\ Past(u, h, us)
  <2>1. Len(g) = 0 => r = Get(u.url, me)
    BY <1>5
  <2>2. Len(g) = 1 => Heard(g[1])
    BY <1>5
  <2> QED BY <1>4, <2>1, <2>2, BaselineStays
<1> HIDE DEF n, r, stop
<1>7. CASE Len(g) = 0
  <2>1. Len(h) = 1
    BY <1>2, <1>7
  <2>2. Ldap(u, h, me) = Skip \/ \E x : Ldap(u, h, me) = Ask(x)
    BY <1>2, <2>1, LdapForms
  <2>3. Turn(u, h).say = {}
    BY <1>1, <2>2, Forms
  <2> QED BY <1>6, <2>3 DEF Follow
<1>8. CASE Len(g) = 1
  <2>1. Len(h) = 2 /\ Len(h) >= 2 /\ h[2] = a
    BY <1>2, <1>8
  <2>2. \/ Ldap(u, h, me) = Skip \/ \E x : Ldap(u, h, me) = Ask(x)
        \/ ErrorBased("ldap", h) /\ Ldap(u, h, me) = stop
    BY <1>2, <2>1, LdapForms DEF stop
  <2>3. \A k \in Turn(u, h).say : k = "ldap" /\ ErrorBased("ldap", h)
    BY <1>1, <2>2, Forms DEF stop
  <2>4. r.url = u.url /\ r.input \notin Copies
    <3>1. r.url = u.url /\ r.input = "paren"
      BY <1>3, <1>5, <1>8, Requested
    <3> QED BY <3>1 DEF Copies
  <2>5. ErrorBased("ldap", h) => Sound("ldap", u, h)
    BY <1>2, <1>3, <1>4, <1>6, <2>1, <2>4, ErrorTold DEF n
  <2> QED BY <1>6, <2>3, <2>5 DEF Follow
<1>9. CASE Len(g) = 2
  <2> DEFINE far == 10 * (a.size - h[1].size) > 4 * h[1].size
  <2>1. Len(h) = 3 /\ Len(h) > 2 /\ Len(h) >= 2 /\ h[3] = a
    BY <1>2, <1>9
  <2>2. Ldap(u, h, me) = Skip \/ (Ldap(u, h, me) = stop /\ Heard(a) /\ far)
    BY <1>2, <2>1, LdapForms DEF stop
  <2>3. ~(h[1].size = 20 /\ a.size = 20 /\ far)
    OBVIOUS
  <2> HIDE DEF far
  <2>4. \A k \in Turn(u, h).say :
          k = "ldap" /\ Heard(a) /\ ~(h[1].size = 20 /\ a.size = 20)
    BY <1>1, <2>2, <2>3, Forms DEF stop
  <2>5. Ordinary(r) /\ r.url = u.url /\ r.input = "star"
    BY <1>3, <1>5, <1>9, Requested
  <2>6. "moody" \notin Nature(r).habits /\ "ldap" \notin Nature(r).flaws => Sizes(r) = {20}
    BY <2>5 DEF Sizes, Ordinary
  <2>7. Heard(a) /\ ~(h[1].size = 20 /\ a.size = 20) => Sound("ldap", u, h)
    BY <1>2, <1>3, <1>4, <1>6, <2>1, <2>5, <2>6, DifferenceTold DEF n
  <2> QED BY <1>6, <2>4, <2>7 DEF Follow
<1>10. Len(g) = 0 \/ Len(g) = 1 \/ Len(g) = 2
  <2>1. \A m \in Nat : m = 0 \/ m = 1 \/ m = 2 \/ m > 2
    OBVIOUS
  <2> QED BY ONLY <1>2, <1>5, <2>1, Zenon
<1> QED BY <1>7, <1>8, <1>9, <1>10

-----------------------------------------------------------------------------
(***************************************************************************)
(* Copies of files.                                                        *)
(***************************************************************************)
\* What a request for a copy is answered.
LEMMA CopiedIs ==
    ASSUME NEW r, r.input \in Copies, NEW a, Plausible(r, a), a.st = 200
    PROVE  \/ "leftover" \in Nature(r).flaws
           \/ /\ "catchall" \in Nature(r).habits
              /\ \E p \in Missing(r.url) : p.size = a.size /\ p.marks = a.marks
<1>1. ~Nothing(a) /\ ~Overload(a) /\ ~Refuses(r, a) /\ ~Serves(r, a)
  <2>1. ~Nothing(a) /\ ~Overload(a)
    BY DEF Nothing, Overload
  <2>2. ~Refuses(r, a)
    BY DEF Refuses
  <2>3. ~Serves(r, a)
    BY DEF Serves
  <2> QED BY <2>1, <2>2, <2>3
<1>2. [st |-> a.st, size |-> a.size, marks |-> a.marks] \in Files(r)
  BY <1>1 DEF Plausible, Copied
<1> DEFINE x == [st |-> a.st, size |-> a.size, marks |-> a.marks]
           n == Nature(r)
<1>3. x \in Files(r) /\ x.st = 200 /\ x.size = a.size /\ x.marks = a.marks
  BY <1>2
<1> HIDE DEF x
<1>4. CASE "leftover" \in n.flaws
  BY <1>4
<1>5. CASE "leftover" \notin n.flaws /\ "catchall" \in n.habits
  BY <1>3, <1>5 DEF Files
<1>6. CASE "leftover" \notin n.flaws /\ "catchall" \notin n.habits
  <2>1. x \in {NotFound}
    BY <1>3, <1>6 DEF Files, Missing, Nature
  <2> QED BY <1>3, <2>1 DEF NotFound
<1> QED BY <1>4, <1>5, <1>6

LEMMA BackupIsSound ==
    ASSUME NEW u, NEW g, NEW a, NEW h, Step(u, g, a, h), Stage = "backup"
    PROVE  \A us : Follow(u, h, us)
<1> DEFINE n == server.at[u.url]
           r == Turn(u, g).ask[1]
<1>1. /\ Turn(u, g) = Backup(u, g, me, notes) /\ Turn(u, h) = Backup(u, h, me, notes)
      /\ Turn(u, g).ask # <<>>
  BY TurnIs DEF Step
<1>2. /\ Len(g) \in Nat /\ Len(h) = Len(g) + 1 /\ h[Len(h)] = a
      /\ Plausible(r, a) /\ u.url \in Urls
  BY DEF Step
<1>3. \A us : Past(u, h, us)
  BY Keeps DEF Engines
<1>4. CASE u.hdr = "baseline"
  <2>3. Turn(u, h).say = {}
    <3>1. Backup(u, h, me, notes) = Skip \/ \E x : Backup(u, h, me, notes) = Ask(x)
      BY <1>4 DEF Backup
    <3> QED BY <1>1, <3>1, Forms
  <2> QED BY <1>3, <2>3 DEF Follow
<1>5. CASE u.hdr # "baseline"
  <2>1. r = Put(u.url, me, "bak") \/ r = Put(u.url, me, "swp")
    <3>1. \/ Backup(u, g, me, notes) = Skip \/ \E x : Backup(u, g, me, notes) = Report(x)
          \/ Backup(u, g, me, notes) = Ask(Put(u.url, me, "bak"))
          \/ Backup(u, g, me, notes) = Ask(Put(u.url, me, "swp"))
      BY <1>5 DEF Backup
    <3> QED BY <1>1, <3>1, Forms
  <2>2. r.url = u.url /\ r.input \in Copies
    BY <2>1, Parts DEF Copies
  <2> HIDE DEF r
  <2>3. \A k \in Turn(u, h).say :
          k = "backup" /\ a.st = 200 /\ [size |-> a.size, marks |-> a.marks] \notin notes
    <3> DEFINE copy == a.st = 200 /\ a.size > 0 /\ [size |-> a.size, marks |-> a.marks] \notin notes
    <3>1. \/ Backup(u, h, me, notes) = Skip \/ \E x : Backup(u, h, me, notes) = Ask(x)
          \/ Backup(u, h, me, notes) = Report({"backup"}) /\ copy
      BY <1>2, <1>5 DEF Backup
    <3> QED BY <1>1, <3>1, Forms
  <2>4. ASSUME a.st = 200, [size |-> a.size, marks |-> a.marks] \notin notes
        PROVE  Sound("backup", u, h)
    <3> DEFINE f == Finding("backup", u, h)
    <3>1. f.kind = "backup" /\ f.url = u.url /\ f.got = h
      BY Findings
    <3> HIDE DEF f
    <3>2. "leftover" \in n.flaws => Right(f)
      BY <3>1, RightIs
    <3>3. \/ "leftover" \in n.flaws
          \/ /\ "catchall" \in n.habits
             /\ \E p \in Missing(u.url) : p.size = a.size /\ p.marks = a.marks
      BY <1>2, <2>2, <2>4, CopiedIs DEF Nature
    <3>4. (\E p \in Missing(u.url) : p.size = a.size /\ p.marks = a.marks) =>
            \E p \in Missing(u.url) : [size |-> p.size, marks |-> p.marks] \notin notes
      BY <2>4
    <3>5. Right(f) \/ Misled(f)
      BY <3>1, <3>2, <3>3, <3>4, MisledIs
    <3> QED BY <1>5, <3>5 DEF Sound, f
  <2> QED BY <1>3, <1>5, <2>3, <2>4 DEF Follow
<1> QED BY <1>4, <1>5

-----------------------------------------------------------------------------
(***************************************************************************)
(* The API tests.                                                          *)
(***************************************************************************)
LEMMA WriteIs ==
    ASSUME NEW u, NEW who, NEW x
    PROVE  LET r == Write(u, who, x)
           IN  r.url = u.url /\ r.who = who /\ r.input = x /\ r.hdr = "none"
               /\ r.method \in {"PUT", "POST"}
BY DEF Write, Put, Get

LEMMA ApiIs ==
    ASSUME NEW u, NEW g, Stage = "api-authz"
    PROVE  LET as == BaseHeaders(me, Bearer)
           IN  /\ u.hdr = "fields" => Turn(u, g) = MassAssign(u, g, as)
               /\ u.hdr = "new user" => Turn(u, g) = Register(u, g, as, ListSeq)
               /\ u.hdr = "list" => Turn(u, g) = Listing(u, g, as)
               /\ u.hdr = "others" => Turn(u, g) = WriteOthers(u, g, as, Objects)
<1> DEFINE as == BaseHeaders(me, Bearer)
<1>1. Turn(u, g) = ApiAuthz(u, g)
  BY TurnIs
<1>2. u.hdr = "fields" => ApiAuthz(u, g) = MassAssign(u, g, as)
  BY DEF ApiAuthz
<1>3. u.hdr = "new user" => ApiAuthz(u, g) = Register(u, g, as, ListSeq)
  BY DEF ApiAuthz
<1>4. u.hdr = "list" => ApiAuthz(u, g) = Listing(u, g, as)
  BY DEF ApiAuthz
<1>5. u.hdr = "others" => ApiAuthz(u, g) = WriteOthers(u, g, as, Objects)
  BY DEF ApiAuthz
<1> QED BY <1>1, <1>2, <1>3, <1>4, <1>5

\* But for the registrations, these tests compare nothing.
LEMMA NoPast ==
    ASSUME NEW u, Stage = "api-authz", u.hdr # "new user"
    PROVE  \A g, us : Past(u, g, us)
BY DEF Past, Engines

LEMMA MassAssignIsSound ==
    ASSUME NEW u, NEW g, NEW a, NEW h, Step(u, g, a, h), Stage = "api-authz", u.hdr = "fields"
    PROVE  \A us : Follow(u, h, us)
<1> DEFINE as == BaseHeaders(me, Bearer)
           r == Write(u, as, "fields")
<1>1. /\ Turn(u, g) = MassAssign(u, g, as) /\ Turn(u, h) = MassAssign(u, h, as)
      /\ Turn(u, g).ask # <<>> /\ h # <<>>
  BY ApiIs DEF Step
<1>2. Turn(u, g) = Ask(r) /\ g = <<>>
  <2>1. g # <<>> => \E x : MassAssign(u, g, as) = Report(x)
    BY DEF MassAssign
  <2>2. g = <<>> => MassAssign(u, g, as) = Ask(r)
    BY DEF MassAssign
  <2> QED BY <1>1, <2>1, <2>2, Forms
<1>3. h[1] = a
  BY <1>2 DEF Step
<1>4. Plausible(r, a) /\ r.url = u.url /\ r.input \notin Copies
  BY <1>2, Forms, WriteIs DEF Step, Copies
<1> HIDE DEF r
<1>5. "echo" \in a.marks => "echoes" \in server.at[u.url].flaws
  BY <1>4, Signs
<1>6. Turn(u, h).ask = <<>> /\ \A k \in Turn(u, h).say : k = "mass-echo" /\ "echo" \in a.marks
  <2>1. Turn(u, h) = Report(If(Done2xx(h[1]) /\ "echo" \in h[1].marks, "mass-echo"))
    BY <1>1 DEF MassAssign
  <2> QED BY <1>3, <2>1, Forms DEF If
<1>7. "echo" \in a.marks => Sound("mass-echo", u, h)
  BY <1>5, Findings, RightIs DEF Sound
<1> QED BY <1>6, <1>7 DEF Follow

LEMMA ListingIsSound ==
    ASSUME NEW u, NEW h, Stage = "api-authz", u.hdr = "list"
    PROVE  \A us : Follow(u, h, us)
<1> DEFINE as == BaseHeaders(me, Bearer)
<1>1. Turn(u, h) = Listing(u, h, as)
  BY ApiIs
<1>2. Listing(u, h, as) = Skip \/ \E x : Listing(u, h, as) = Ask(x)
  BY DEF Listing
<1>3. Turn(u, h).say = {}
  BY <1>1, <1>2, Forms
<1> QED BY <1>3, NoPast DEF Follow

LEMMA WriteOthersIsSound ==
    ASSUME NEW u, NEW g, NEW a, NEW h, Step(u, g, a, h), Stage = "api-authz", u.hdr = "others",
           Edit(u.url)
    PROVE  \A us : Follow(u, h, us)
<1> DEFINE as == BaseHeaders(me, Bearer)
           r == Turn(u, g).ask[1]
           n == server.at[u.url]
           k == "bola-write"
<1>1. /\ Turn(u, g) = WriteOthers(u, g, as, Objects) /\ Turn(u, h) = WriteOthers(u, h, as, Objects)
      /\ Turn(u, g).ask # <<>>
  BY ApiIs DEF Step
<1>2. /\ Len(g) \in Nat /\ Len(h) = Len(g) + 1 /\ Len(h) \in Nat /\ h[Len(h)] = a
      /\ Plausible(r, a) /\ u.url \in Urls
  BY DEF Step
<1>3. \E x \in {"own", "theirs"} : r = Write(u, as, x)
  <2>1. \/ \E x : WriteOthers(u, g, as, Objects) = Report(x)
        \/ WriteOthers(u, g, as, Objects) = Skip
        \/ /\ Len(g) < Len(Objects)
           /\ WriteOthers(u, g, as, Objects) = Ask(Write(u, as, Objects[Len(g) + 1]))
    BY DEF WriteOthers
  <2>2. Len(g) < Len(Objects) /\ r = Write(u, as, Objects[Len(g) + 1])
    BY <1>1, <2>1, Forms
  <2>3. Len(g) + 1 \in 1 .. Len(Objects)
    <3>1. Len(Objects) \in Nat
      BY ListsAre
    <3> QED BY ONLY <1>2, <2>2, <3>1
  <2>4. Objects[Len(g) + 1] \in {"own", "theirs"}
    BY <2>3, ListsAre
  <2> QED BY <2>2, <2>4
<1>4. r.url = u.url /\ r.input \in {"own", "theirs"}
  BY <1>3, WriteIs
<1> HIDE DEF r
<1>5. \A c \in Turn(u, h).say : c = k /\ Done2xx(a)
  <2>1. \/ WriteOthers(u, h, as, Objects) = Skip \/ \E x : WriteOthers(u, h, as, Objects) = Ask(x)
        \/ WriteOthers(u, h, as, Objects) = Report({k}) /\ Done2xx(h[Len(h)])
    BY DEF WriteOthers
  <2> QED BY <1>1, <1>2, <2>1, Forms
<1>6. Done2xx(a) => \/ a.is = "refusal" \/ a.input = "own"
                    \/ n.guard = "open" \/ "object" \in n.flaws \/ "method" \in n.flaws
  <2> SUFFICES ASSUME Done2xx(a), a.is # "refusal"
               PROVE  \/ a.input = "own"
                      \/ n.guard = "open" \/ "object" \in n.flaws \/ "method" \in n.flaws
    OBVIOUS
  <2>1. r.input \notin Copies /\ ~Registers(r)
    BY <1>4 DEF Copies, Registers
  <2>2. a.st \in 1 .. 299
    BY DEF Done2xx
  <2>6. a.st # 0 /\ a.st # 403 /\ a.st # 404 /\ a.st # 409
    BY <2>2
  <2>7. ~Nothing(a) /\ ~Overload(a) /\ ~Refuses(r, a) /\ ~Copied(r, a)
    <3>1. ~Nothing(a) /\ ~Overload(a)
      BY <2>6 DEF Nothing, Overload
    <3>2. ~Refuses(r, a)
      BY DEF Refuses
    <3>3. ~Copied(r, a)
      BY <2>1 DEF Copied
    <3> QED BY <3>1, <3>2, <3>3
  <2>8. Serves(r, a)
    BY <1>2, <2>7 DEF Plausible
  <2>3. Page(r, a)
    BY <2>6, <2>8 DEF Serves
  <2>4. Facts[r.url].id
    BY <1>2, <1>4, FactsAssumption DEF Edit
  <2>5. a.input = r.input
    BY <1>2 DEF Plausible
  <2> QED BY <1>4, <2>3, <2>4, <2>5 DEF Page, Owns, Bypasses, Nature
<1>7. Done2xx(a) => Sound(k, u, h)
  <2> DEFINE f == Finding(k, u, h)
  <2>1. f.kind = k /\ f.url = u.url /\ f.got = h
    BY Findings
  <2> HIDE DEF f
  <2>2. a.is = "refusal" \/ a.input = "own" => Misled(f)
    BY <1>2, <2>1, MisledIs
  <2>3. n.guard = "open" \/ "object" \in n.flaws \/ "method" \in n.flaws => Right(f)
    BY <2>1, RightIs
  <2>4. Done2xx(a) => Right(f) \/ Misled(f)
    BY <1>6, <2>2, <2>3
  <2> QED BY <2>4 DEF Sound, f
<1> QED BY <1>5, <1>7, NoPast DEF Follow

\* A listing shows the administrator of this second, or is a cached one.
LEMMA PrivilegedIs ==
    ASSUME NEW r, r.url \in Urls, server \in Servers, r.input \notin Copies,
           NEW us, NEW a \in Answers(r, us), Plausible(r, a), "privileged" \in a.marks
    PROVE  \/ [n |-> Cardinality(found), priv |-> TRUE] \in users
           \/ "cached" \in server.at[r.url].habits
<1> DEFINE is == IF r.input \in Copies \/ Reads(r) THEN "page" ELSE "refusal"
           first == Registers(r) /\ Reads(r) /\ Taken(us)
           admin == [n |-> Cardinality(found), priv |-> TRUE] \in users
           n == server.at[r.url]
<1>1. a \notin {Lost(r), Blocked(r)}
  BY DEF Lost, Blocked, Seen
<1>2. PICK x \in IF first THEN {Conflict} ELSE Replies(r) : a = Seen(x, is, r)
  BY <1>1 DEF Answers
<1>3. "privileged" \in x.marks
  BY <1>2 DEF Seen
<1>4. ~first
  BY <1>2, <1>3 DEF Conflict
<1>5. Reads(r)
  <2>1. ~Refuses(r, a)
    <3>1. "privileged" \notin {} /\ "privileged" \notin {"form"}
      OBVIOUS
    <3>2. ~FromLogin(a.marks)
      BY DEF FromLogin
    <3> QED BY <3>1, <3>2 DEF Refuses, AtLogin
  <2>2. ~Nothing(a) /\ ~Overload(a) /\ ~Copied(r, a)
    BY DEF Nothing, Overload, Copied
  <2> QED BY <2>1, <2>2 DEF Plausible, Serves
<1>6. Owns(r) /\ r.method # "OPTIONS"
  BY <1>2, <1>3, <1>4, <1>5 DEF Replies, NotFound, If
<1>7. x.marks = IF Cacheable(r) /\ Entry(r) # Cold THEN Entry(r).marks
                ELSE IF r.method = "HEAD" THEN {} ELSE Marks(r)
  BY <1>2, <1>4, <1>5, <1>6 DEF Replies
<1>8. "privileged" \in Marks(r) => admin
  <2>1. "privileged" \notin Standing(r.url)
    BY DEF Standing, If, Engines
  <2> QED BY <2>1 DEF Marks, If, Tells
<1>9. Cacheable(r) => "cached" \in n.habits
  BY DEF Cacheable, Nature
<1> QED BY <1>3, <1>7, <1>8, <1>9

\* What a registration is answered when it was carried out.
LEMMA EnrolledIs ==
    ASSUME NEW r, Registers(r), r.url \in Urls, server \in Servers,
           NEW us, NEW a \in Answers(r, us), NEW next \in Registered(r, a, us)
    PROVE  \/ a.st = 0 \/ a.st >= 300 \/ a.is = "refusal"
           \/ /\ Succeeded(a)
              /\ [n |-> Cardinality(found), priv |-> TRUE] \in next => "elevates" \in Nature(r).flaws
<1> DEFINE is == IF r.input \in Copies \/ Reads(r) THEN "page" ELSE "refusal"
           x0 == [n |-> Cardinality(found), priv |-> TRUE]
<1>1. CASE a \in {Lost(r), Blocked(r)}
  BY <1>1 DEF Lost, Blocked, Seen
<1>2. CASE a \notin {Lost(r), Blocked(r)}
  <2>1. PICK x \in IF Registers(r) /\ Reads(r) /\ Taken(us) THEN {Conflict} ELSE Replies(r) :
          a = Seen(x, is, r)
    BY <1>2 DEF Answers
  <2>2. a.is = is /\ a.st = x.st
    BY <2>1 DEF Seen
  <2>3. r.input \notin Copies
    BY DEF Registers, Copies
  <2>4. CASE ~Reads(r)
    BY <2>2, <2>3, <2>4
  <2>5. CASE Reads(r) /\ Taken(us)
    <3>1. a.st = 409
      BY <2>1, <2>2, <2>5 DEF Conflict
    <3> QED BY <3>1
  <2>6. CASE Reads(r) /\ ~Taken(us)
    <3>1. x \in Replies(r)
      BY <2>1, <2>6
    <3>2. x.st = 404 \/ x.st = 200
      BY <2>3, <2>6, <3>1 DEF Replies, NotFound
    <3>3. a.is = "page"
      BY <2>2, <2>6
    <3>4. next = us \union {NewUser(r)}
      BY <2>6, <3>3 DEF Registered
    <3>5. x0 \notin us
      BY <2>6 DEF Taken
    <3>6. x0 \in next => x0 = NewUser(r)
      BY <3>4, <3>5
    <3>7. x0 = NewUser(r) => "elevates" \in Nature(r).flaws
      <4>1. NewUser(r).priv = ("elevates" \in Nature(r).flaws) /\ x0.priv = TRUE
        BY DEF NewUser
      <4> QED BY <4>1
    <3>8. a.st = 404 => a.st >= 300
      OBVIOUS
    <3>9. a.st = 200 => ~(a.st >= 300)
      OBVIOUS
    <3> QED BY <2>2, <3>2, <3>3, <3>6, <3>7, <3>8, <3>9 DEF Succeeded
  <2> QED BY <2>4, <2>5, <2>6
<1> QED BY <1>1, <1>2

\* The unit that registers a user, and its request.
AtSignup(u) == u.hdr = "new user"
Signup(u, as) == Write(u, as, "new user")

\* What the registration does, by the number of its answers.
LEMMA RegisterForms ==
    ASSUME NEW u, NEW g, NEW as, NEW lists, Len(g) \in Nat
    PROVE  LET n == Len(g)
               t == Register(u, g, as, lists)
           IN  /\ n = 0 => t = Ask(Signup(u, as))
               /\ n = 1 => t = Skip
                           \/ (Heard(g[1]) /\ n <= Len(lists) /\ t = Ask(Get(lists[n], as)))
               /\ n > 1 => \/ t = Skip
                           \/ t = Report({"mass-persisted"}) /\ Done2xx(g[n]) /\ "privileged" \in g[n].marks
                           \/ n <= Len(lists) /\ t = Ask(Get(lists[n], as))
<1> DEFINE n == Len(g)
           t == Register(u, g, as, lists)
<1>1. t = IF n = 0 THEN Ask(Signup(u, as))
          ELSE IF n = 1 /\ ~Heard(g[1]) THEN Skip
          ELSE IF n > 1 /\ Done2xx(g[n]) /\ "privileged" \in g[n].marks
          THEN Report({"mass-persisted"})
          ELSE IF n <= Len(lists) THEN Ask(Get(lists[n], as)) ELSE Skip
  BY Zenon DEF Register, Signup
<1>2. n \in Nat
  OBVIOUS
<1>3. n = 1 => n # 0 /\ ~(n > 1)
  <2> HIDE DEF n
  <2> QED OBVIOUS
<1>4. n > 1 => n # 0 /\ n # 1
  <2> HIDE DEF n
  <2> QED BY <1>2
<1> HIDE DEF n, t
<1>5. n = 0 => t = Ask(Signup(u, as))
  BY <1>1
<1>6. n = 1 => t = Skip \/ (Heard(g[1]) /\ n <= Len(lists) /\ t = Ask(Get(lists[n], as)))
  BY <1>1, <1>3
<1>7. n > 1 => \/ t = Skip
               \/ t = Report({"mass-persisted"}) /\ Done2xx(g[n]) /\ "privileged" \in g[n].marks
               \/ n <= Len(lists) /\ t = Ask(Get(lists[n], as))
  BY <1>1, <1>4
<1> QED BY <1>5, <1>6, <1>7 DEF n, t

\* What the server makes of a request: the users it knew then, its answer, and
\* the users it knows now.
Outcome(r, us, a, later) ==
    /\ us = users \/ Registers(r)
    /\ a \in Answers(r, us) /\ later \in Registered(r, a, us)

LEMMA RegisterIsSound ==
    ASSUME NEW u, NEW g, NEW a, NEW h, Step(u, g, a, h), Stage = "api-authz", AtSignup(u),
           Past(u, g, users), NEW us, NEW later, Outcome(Turn(u, g).ask[1], us, a, later)
    PROVE  /\ Follow(u, h, later)
           /\ Turn(u, h).ask # <<>> => Turn(u, h).say = {}
<1> DEFINE as == BaseHeaders(me, Bearer)
           r == Turn(u, g).ask[1]
           n == server.at[u.url]
           k == "mass-persisted"
<1>1. /\ Turn(u, g) = Register(u, g, as, ListSeq) /\ Turn(u, h) = Register(u, h, as, ListSeq)
      /\ Turn(u, g).ask # <<>>
  <2>1. Turn(u, g) = Register(u, g, as, ListSeq) /\ Turn(u, h) = Register(u, h, as, ListSeq)
    BY ApiIs, Zenon DEF AtSignup
  <2> QED BY <2>1 DEF Step
<1>2. /\ Len(g) \in Nat /\ Len(h) = Len(g) + 1 /\ Len(h) \in Nat /\ h[Len(h)] = a
      /\ \A i \in 1 .. Len(g) : h[i] = g[i]
      /\ server \in Servers /\ u.url \in Urls
  BY DEF Step
<1>3. Enrolled(n, users, found, g)
  BY Zenon DEF Past, AtSignup
<1>4. \A fs : Enrolled(n, fs, found, h) => Past(u, h, fs)
  BY DEF Past, Engines
<1>5. CASE Len(g) = 0
  <2>1. r = Signup(u, as)
    BY <1>1, <1>2, <1>5, RegisterForms, Forms
  <2>2. r.url = u.url /\ Registers(r)
    <3>1. Signup(u, as).url = u.url /\ Registers(Signup(u, as))
      <4>1. \A x : Write(u, as, x).url = u.url /\ Write(u, as, x).input = x
        BY WriteIs
      <4> QED BY <4>1, Zenon DEF Registers, Signup
    <3> QED BY <2>1, <3>1
  <2> HIDE DEF r
  <2>3. \/ a.st = 0 \/ a.st >= 300 \/ a.is = "refusal"
        \/ /\ Succeeded(a)
           /\ [n |-> Cardinality(found), priv |-> TRUE] \in later => "elevates" \in n.flaws
    <3>1. a \in Answers(r, us) /\ later \in Registered(r, a, us)
      BY DEF Outcome, r
    <3>2. \/ a.st = 0 \/ a.st >= 300 \/ a.is = "refusal"
          \/ /\ Succeeded(a)
             /\ [n |-> Cardinality(found), priv |-> TRUE] \in later => "elevates" \in Nature(r).flaws
      BY <1>2, <2>2, <3>1, EnrolledIs
    <3> QED BY <2>2, <3>2 DEF Nature
  <2>4. Len(h) = 1 /\ h[1] = a
    BY <1>2, <1>5
  <2>5. Enrolled(n, later, found, h)
    BY <2>3, <2>4 DEF Enrolled
  <2>6. Register(u, h, as, ListSeq) = Skip \/ \E x : Register(u, h, as, ListSeq) = Ask(x)
    BY <1>2, <2>4, RegisterForms
  <2>7. Turn(u, h).say = {}
    BY <1>1, <2>6, Forms
  <2> QED BY <1>4, <2>5, <2>7 DEF Follow
<1>6. CASE Len(g) # 0
  <2>0. Len(g) = 1 \/ Len(g) > 1
    <3>1. \A m \in Nat : m # 0 => m = 1 \/ m > 1
      OBVIOUS
    <3> QED BY ONLY <1>2, <1>6, <3>1, Zenon
  <2>1. /\ Len(g) <= Len(ListSeq) /\ r = Get(ListSeq[Len(g)], as)
        /\ Len(g) = 1 => Heard(g[1])
    <3>1. \/ Register(u, g, as, ListSeq) = Skip \/ \E x : Register(u, g, as, ListSeq) = Report(x)
          \/ /\ Len(g) <= Len(ListSeq) /\ (Len(g) = 1 => Heard(g[1]))
             /\ Register(u, g, as, ListSeq) = Ask(Get(ListSeq[Len(g)], as))
      <4> DEFINE t == Register(u, g, as, ListSeq)
                 get == Ask(Get(ListSeq[Len(g)], as))
      <4>0. /\ Len(g) = 1 => t = Skip \/ (Heard(g[1]) /\ Len(g) <= Len(ListSeq) /\ t = get)
            /\ Len(g) > 1 => \/ t = Skip \/ \E x : t = Report(x)
                             \/ Len(g) <= Len(ListSeq) /\ t = get
        <5>1. Len(g) \in Nat
          BY <1>2
        <5> QED BY ONLY <5>1, RegisterForms
      <4> HIDE DEF t, get
      <4>1. CASE Len(g) = 1
        BY <4>0, <4>1 DEF t, get
      <4>2. CASE Len(g) > 1
        <5>1. Len(g) # 1
          <6>1. \A m \in Nat : m > 1 => m # 1
            OBVIOUS
          <6> QED BY ONLY <1>2, <4>2, <6>1, Zenon
        <5> QED BY <4>0, <4>2, <5>1 DEF t, get
      <4> QED BY <2>0, <4>1, <4>2
    <3> QED BY <1>1, <3>1, Forms
  <2>2. Len(g) \in 1 .. Len(ListSeq) /\ 1 \in 1 .. Len(g)
    <3>1. Len(ListSeq) \in Nat
      BY ListsAre
    <3> QED BY ONLY <1>2, <1>6, <2>1, <3>1
  <2>3. ListSeq[Len(g)] \in Urls /\ List(ListSeq[Len(g)])
    BY <2>2, ListsAre
  <2>4. r.url = ListSeq[Len(g)] /\ r.input = "own"
    BY <2>1, Parts
  <2>5. r.url \in Urls /\ List(r.url) /\ r.input \notin Copies /\ ~Registers(r)
    BY <2>3, <2>4 DEF Copies, Registers
  <2>15. Plausible(r, a)
    BY DEF Step
  <2> HIDE DEF r
  <2>6. /\ us = users \/ Registers(r)
        /\ a \in Answers(r, us) /\ later \in Registered(r, a, us)
    BY DEF Outcome, r
  <2>7. us = users /\ later = users
    BY <2>5, <2>6 DEF Registered
  <2>8. h[1] = g[1]
    BY <1>2, <2>2
  <2>9. Len(h) > 1 /\ Len(h) >= 2 /\ Len(h) >= 1
    <3>1. \A m \in Nat : m # 0 => m + 1 > 1 /\ m + 1 >= 2 /\ m + 1 >= 1
      OBVIOUS
    <3> QED BY ONLY <1>2, <1>6, <3>1, Zenon
  <2>10. g[1].st # 0
    <3>1. CASE Len(g) = 1
      BY <2>1, <3>1 DEF Heard
    <3>2. CASE Len(g) > 1
      <4>1. Len(g) >= 2
        BY <1>2, <3>2
      <4> QED BY <1>3, <4>1 DEF Enrolled
    <3> QED BY <2>0, <3>1, <3>2
  <2>11. \/ g[1].st >= 300 \/ g[1].is = "refusal"
         \/ /\ Succeeded(g[1])
            /\ [n |-> Cardinality(found), priv |-> TRUE] \in users => "elevates" \in n.flaws
    <3>1. Len(g) >= 1
      BY <2>2
    <3> QED BY <1>3, <2>10, <3>1 DEF Enrolled
  <2>12. Enrolled(n, later, found, h)
    BY <2>7, <2>8, <2>10, <2>11 DEF Enrolled
  <2>13. \/ Turn(u, h).say = {}
         \/ Turn(u, h).say = {k} /\ Turn(u, h).ask = <<>> /\ "privileged" \in a.marks
    <3>1. \/ Register(u, h, as, ListSeq) = Skip \/ \E x : Register(u, h, as, ListSeq) = Ask(x)
          \/ Register(u, h, as, ListSeq) = Report({k}) /\ "privileged" \in a.marks
      BY <1>2, <2>9, RegisterForms
    <3> QED BY <1>1, <3>1, Forms
  <2>14. "privileged" \in a.marks => Sound(k, u, h)
    <3> DEFINE f == Finding(k, u, h)
    <3>1. f.kind = k /\ f.url = u.url /\ f.got = h
      BY Findings
    <3> HIDE DEF f
    <3>2. "elevates" \in n.flaws => Right(f)
      BY <3>1, RightIs
    <3>3. h[1].st >= 300 \/ h[1].is = "refusal"
            \/ (\E v \in Urls : List(v) /\ "cached" \in server.at[v].habits) => Misled(f)
      BY <3>1, MisledIs
    <3>4. "privileged" \in a.marks =>
            \/ [n |-> Cardinality(found), priv |-> TRUE] \in users
            \/ "cached" \in server.at[r.url].habits
      BY <1>2, <2>5, <2>6, <2>15, PrivilegedIs
    <3>5. "privileged" \in a.marks => Right(f) \/ Misled(f)
      BY <2>5, <2>8, <2>11, <3>2, <3>3, <3>4
    <3> QED BY <3>5 DEF Sound, f
  <2> QED BY <1>4, <2>12, <2>13, <2>14 DEF Follow
<1> QED BY <1>5, <1>6

-----------------------------------------------------------------------------
(***************************************************************************)
(* All the stages together.                                                *)
(***************************************************************************)
\* What a stage may rely on of its units.
ApiTest(u) == u.hdr \in {"fields", "new user", "list", "others"}
Fits(u) ==
    /\ u.url \in Urls
    /\ Stage = "gate" => u = Plain(Home) /\ unit = 1 /\ Len(Units[Stage]) = 1
    /\ Stage = "api-authz" => ApiTest(u) /\ (u.hdr = "others" => Edit(u.url))
    /\ Stage = "matrix" => Facts[u.url].id
    /\ Stage = "cache-poison" => NotAuth(u.url)
    /\ Stage = "backup" => ((u.hdr = "baseline") <=> (unit = 1))

LEMMA ApiTests ==
    ASSUME NEW u, ApiTest(u)
    PROVE  u.hdr = "fields" \/ AtSignup(u) \/ u.hdr = "list" \/ u.hdr = "others"
BY Zenon DEF ApiTest, AtSignup

LEMMA CurrentFits ==
    ASSUME InStage, stage \in 1 .. Len(Stages) + 1, unit \in Nat \ {0}
    PROVE  Fits(Current) /\ Stage \in ToSet(Stages)
<1>1. stage \in 1 .. Len(Stages)
  BY StageNames DEF InStage, Over
<1>2. Stage \in ToSet(Stages)
  BY <1>1, StageNames DEF Stage, ToSet, Stages
<1>3. Units[Stage] \in Seq(UnitsOver(Urls, Headed)) /\ Len(Units[Stage]) \in Nat
  <2>1. Units[Stage] \in Seq(UnitsOver(Urls, Headed))
    BY <1>2, UnitsAre, Zenon
  <2> QED BY ONLY <2>1
<1>4. unit \in 1 .. Len(Units[Stage])
  BY <1>3 DEF InStage
<1>5. Current.url \in Urls
  <2>1. Current \in UnitsOver(Urls, Headed)
    BY <1>3, <1>4 DEF Current
  <2> QED BY <2>1, UnitsOverAre
<1>6. ASSUME Stage = "gate"
      PROVE  Current = Plain(Home) /\ unit = 1 /\ Len(Units[Stage]) = 1
  <2>1. Units["gate"] = <<Plain(Home)>>
    BY StageNames DEF Units
  <2>2. Len(Units[Stage]) = 1 /\ Units[Stage][1] = Plain(Home)
    BY <1>6, <2>1
  <2> QED BY <1>4, <2>2 DEF Current
<1>7. ASSUME Stage = "api-authz"
      PROVE  ApiTest(Current) /\ (Current.hdr = "others" => Edit(Current.url))
  <2>1. \A k \in 1 .. Len(Units["api-authz"]) :
          ApiTest(Units["api-authz"][k])
          /\ (Units["api-authz"][k].hdr = "others" => Edit(Units["api-authz"][k].url))
    BY UnitsAre, Zenon DEF ApiTest
  <2> QED BY <1>4, <1>7, <2>1 DEF Current
<1>8. Stage = "matrix" => Facts[Current.url].id
  BY <1>4, UnitsAre DEF Current
<1>9. Stage = "backup" => ((Current.hdr = "baseline") <=> (unit = 1))
  BY <1>4, UnitsAre DEF Current
<1>10. Stage = "cache-poison" => NotAuth(Current.url)
  BY <1>4, UnitsAre DEF Current
<1> QED BY <1>2, <1>5, <1>6, <1>7, <1>8, <1>9, <1>10 DEF Fits

\* Who is registered matters to the registrations only.
LEMMA PastFor ==
    ASSUME Stage # "api-authz", NEW u, NEW g, NEW us, Past(u, g, us), NEW later
    PROVE  Past(u, g, later)
BY DEF Past

\* Whatever the stage: what is said is so, or one of the named cases.
LEMMA StageIsSound ==
    ASSUME NEW u, NEW g, NEW a, NEW h, Step(u, g, a, h), Fits(u), Stage \in ToSet(Stages),
           Past(u, g, users), NEW us, NEW later, Outcome(Turn(u, g).ask[1], us, a, later)
    PROVE  Follow(u, h, later)
<1>1. Stage # "api-authz" => Past(u, g, later)
  BY PastFor
<1>2. CASE Stage \in {"gate", "host-header", "cspp", "reflection", "cors", "cache-poison"}
  BY <1>2, GateIsSound, HostHeaderIsSound, CsppIsSound, ReflectionIsSound, CorsIsSound,
     CachePoisonIsSound
<1>3. CASE Stage \in {"hpp", "transformation", "api-exposure", "form-security"}
  BY <1>3, HppIsSound, TransformationIsSound, ApiExposureIsSound, FormSecurityIsSound
<1>4. CASE Stage \in {"authz", "jwt", "verb", "websocket"}
  BY <1>1, <1>4, AuthzIsSound, JwtIsSound, VerbIsSound, WebSocketIsSound
<1>5. CASE Stage \in {"xpath", "nosql", "ldap"}
  BY <1>1, <1>5, XPathIsSound, NoSqlIsSound, LdapIsSound
<1>6. CASE Stage = "matrix"
  BY <1>1, <1>6, MatrixIsSound DEF Fits
<1>7. CASE Stage = "backup"
  BY <1>7, BackupIsSound
<1>8. CASE Stage = "api-authz"
  <2>1. u.hdr = "fields" \/ AtSignup(u) \/ u.hdr = "list" \/ u.hdr = "others"
    BY <1>8, ApiTests DEF Fits
  <2>2. CASE u.hdr = "fields"
    BY <1>8, <2>2, MassAssignIsSound
  <2>3. CASE AtSignup(u)
    BY <1>8, <2>3, RegisterIsSound
  <2>4. CASE u.hdr = "list"
    BY <1>8, <2>4, ListingIsSound
  <2>5. CASE u.hdr = "others"
    BY <1>8, <2>5, WriteOthersIsSound DEF Fits
  <2> QED BY <2>1, <2>2, <2>3, <2>4, <2>5
<1> QED BY <1>2, <1>3, <1>4, <1>5, <1>6, <1>7, <1>8, StageNames

-----------------------------------------------------------------------------
(***************************************************************************)
(* The inductive invariant.                                                *)
(***************************************************************************)
Types ==
    /\ server \in Servers /\ me \in Sessions
    /\ me = Nobody \/ \E h \in server.honours : me[h] = "A"
    /\ stage \in 1 .. Len(Stages) + 1 /\ unit \in Nat \ {0}
    /\ Len(got) \in Nat /\ got = [i \in 1 .. Len(got) |-> got[i]]

\* What the caches hold is a page of the URL it is for, filled by a forged
\* request at most where a probe was sent to the login page; the entry of the
\* probe's own key is of this unit.
Led == "cached" \in server.login /\ \E v \in Urls : NotAuth(v) /\ LeadsToLogin(v)
Caches ==
    /\ shared = [k \in Keys |-> shared[k]]
    /\ \A u \in Urls : Kept(u, shared[u]) /\ shared[u].by # "cache-poison"
    /\ LoginKept(shared[Login]) /\ (shared[Login].by = "cache-poison" => Led)
    /\ got = <<>> => own = Cold
    /\ got # <<>> => Kept(Current.url, own)

\* When the gate asks, no page the cache holds is one of a session.
AtGate ==
    stage = 1 /\ unit = 1 =>
        /\ got = <<>> /\ found = {}
        /\ \A u \in Urls : "in" \notin shared[u].marks

\* Copies are reported after the baseline.
AfterBaseline == \A f \in found : f.kind = "backup" => Stage = "backup" /\ unit > 1

\* What the unit has heard so far.
Heeded == got # <<>> => InStage /\ Past(Current, got, users)

SInv == Types /\ Caches /\ AtGate /\ AfterBaseline /\ Heeded /\ ReportedIsSo

LEMMA Initially ==
    ASSUME Init
    PROVE  SInv
<1>1. Types
  <2>1. got = <<>> /\ stage = 1 /\ unit = 1 /\ server \in Servers /\ me \in Sessions
        /\ (me = Nobody \/ \E h \in server.honours : me[h] = "A")
    BY DEF Init
  <2>2. Len(got) \in Nat /\ got = [i \in 1 .. Len(got) |-> got[i]]
    BY <2>1
  <2>3. stage \in 1 .. Len(Stages) + 1 /\ unit \in Nat \ {0}
    BY <2>1, StageNames
  <2> QED BY <2>1, <2>2, <2>3 DEF Types
<1>2. Caches
  <2>1. shared = [k \in Keys |-> Cold] /\ own = Cold /\ got = <<>>
    BY DEF Init
  <2>2. Cold.by # "cache-poison"
    BY DEF Cold
  <2> QED BY <2>1, <2>2 DEF Caches, Kept, LoginKept, Keys
<1>3. AtGate
  BY DEF Init, AtGate, Cold, Keys
<1>4. AfterBaseline /\ Heeded /\ ReportedIsSo
  BY DEF Init, AfterBaseline, Heeded, ReportedIsSo
<1> QED BY <1>1, <1>2, <1>3, <1>4 DEF SInv

-----------------------------------------------------------------------------
(***************************************************************************)
(* One request.                                                            *)
(***************************************************************************)
\* The request r of unit u is answered by a: h is what the unit has heard then.
Exchange(u, r, a, h, us) ==
    /\ InStage /\ u = Current /\ h = Append(got, a)
    /\ Turn(u, got).ask # <<>> /\ r = Turn(u, got).ask[1]
    /\ Outcome(r, us, a, users')
    /\ Concludes(r, a, Turn(u, h))

LEMMA RequestIs ==
    ASSUME Request
    PROVE  \E u, r, a, h, us : Exchange(u, r, a, h, us)
<1> DEFINE u == Current
           r == Turn(u, got).ask[1]
<1>1. /\ InStage /\ Turn(u, got).ask # <<>>
      /\ \E us \in IF Registers(r) THEN {users, {}} ELSE {users} : \E a \in Answers(r, us) :
           users' \in Registered(r, a, us) /\ Concludes(r, a, Turn(u, Append(got, a)))
  BY Zenon DEF Request
<1> HIDE DEF u, r
<1>2. PICK us \in IF Registers(r) THEN {users, {}} ELSE {users} : \E a \in Answers(r, us) :
        users' \in Registered(r, a, us) /\ Concludes(r, a, Turn(u, Append(got, a)))
  BY <1>1
<1>3. PICK a \in Answers(r, us) :
        users' \in Registered(r, a, us) /\ Concludes(r, a, Turn(u, Append(got, a)))
  BY <1>2
<1>4. us = users \/ Registers(r)
  BY <1>2
<1>5. Outcome(r, us, a, users')
  BY <1>3, <1>4, Zenon DEF Outcome
<1>6. Exchange(u, r, a, Append(got, a), us)
  BY <1>1, <1>3, <1>5, Zenon DEF Exchange, u, r
<1> QED BY <1>6

\* The answers heard, with one more.
LEMMA AppendIs ==
    ASSUME NEW s, Len(s) \in Nat, s = [i \in 1 .. Len(s) |-> s[i]], NEW a
    PROVE  LET t == Append(s, a)
           IN  /\ s = <<>> <=> Len(s) = 0
               /\ Len(t) = Len(s) + 1 /\ t # <<>> /\ t[Len(s) + 1] = a
               /\ Len(t) \in Nat /\ t = [i \in 1 .. Len(t) |-> t[i]]
               /\ \A i \in 1 .. Len(s) : t[i] = s[i]
<1> DEFINE S == {s[i] : i \in 1 .. Len(s)} \union {a}
           t == Append(s, a)
<1>1. s \in Seq(S) /\ a \in S
  <2>1. \A i \in 1 .. Len(s) : s[i] \in S
    OBVIOUS
  <2> HIDE DEF S
  <2>2. s \in Seq(S)
    BY <2>1
  <2> QED BY <2>2 DEF S
<1> HIDE DEF S
<1>2. s = <<>> <=> Len(s) = 0
  BY <1>1
<1>3. Len(t) = Len(s) + 1 /\ t # <<>> /\ t[Len(s) + 1] = a /\ \A i \in 1 .. Len(s) : t[i] = s[i]
  BY <1>1
<1>4. t \in Seq(S)
  BY <1>1
<1> HIDE DEF t
<1>5. Len(t) \in Nat /\ t = [i \in 1 .. Len(t) |-> t[i]]
  BY <1>4
<1> QED BY <1>2, <1>3, <1>5 DEF t

\* The answer is plausible, and what the stage makes of it is as above.
LEMMA Exchanged ==
    ASSUME SInv, NEW u, NEW r, NEW a, NEW h, NEW us, Exchange(u, r, a, h, us)
    PROVE  /\ Step(u, got, a, h) /\ Plausible(r, a)
           /\ Fits(u) /\ Stage \in ToSet(Stages) /\ stage \in 1 .. Len(Stages)
           /\ r.url \in Urls
           /\ Stage = "cache-poison" => r.busted = TRUE /\ r.url = u.url
           /\ Stage # "cache-poison" => r.busted = FALSE
           /\ Past(u, got, users) /\ Follow(u, h, users')
           /\ Len(h) \in Nat /\ h = [i \in 1 .. Len(h) |-> h[i]] /\ h # <<>>
           /\ AsksFor(Turn(u, h), u)
<1>1. /\ InStage /\ u = Current /\ h = Append(got, a)
      /\ Turn(u, got).ask # <<>> /\ r = Turn(u, got).ask[1]
      /\ Outcome(r, us, a, users')
  BY DEF Exchange
<1>2. /\ server \in Servers /\ me \in Sessions
      /\ stage \in 1 .. Len(Stages) + 1 /\ unit \in Nat \ {0}
      /\ Len(got) \in Nat /\ got = [i \in 1 .. Len(got) |-> got[i]]
  BY DEF SInv, Types
<1>3. Fits(u) /\ Stage \in ToSet(Stages) /\ stage \in 1 .. Len(Stages)
  <2>1. stage \in 1 .. Len(Stages)
    BY <1>1, <1>2, StageNames DEF InStage, Over
  <2> QED BY <1>1, <1>2, <2>1, CurrentFits
<1>4. /\ got = <<>> <=> Len(got) = 0
      /\ Len(h) = Len(got) + 1 /\ h # <<>> /\ h[Len(got) + 1] = a
      /\ Len(h) \in Nat /\ h = [i \in 1 .. Len(h) |-> h[i]]
      /\ \A i \in 1 .. Len(got) : h[i] = got[i]
  BY <1>1, <1>2, AppendIs
<1>5. u.url \in Urls /\ (Stage = "api-authz" => ApiTest(u))
  BY <1>3 DEF Fits
<1>6. \A g : Len(g) \in Nat => AsksFor(Turn(u, g), u)
  <2>1. Stage = "api-authz" => u.hdr \in {"fields", "new user", "list", "others"}
    BY <1>5, Zenon DEF ApiTest
  <2> QED BY <1>3, <1>5, <2>1, TurnAsks, Zenon
<1>7. /\ r.url \in Urls
      /\ Stage = "cache-poison" => r.busted = TRUE /\ r.url = u.url
      /\ Stage # "cache-poison" => r.busted = FALSE
  <2>1. AsksFor(Turn(u, got), u)
    BY <1>2, <1>6
  <2> QED BY <1>1, <2>1 DEF AsksFor
<1>8. AsksFor(Turn(u, h), u)
  BY <1>4, <1>6
<1>9. Kept(r.url, Entry(r))
  <2>1. CASE r.busted = TRUE
    <3>1. Entry(r) = own /\ r.url = u.url
      BY <1>7, <2>1 DEF Entry
    <3>2. got = <<>> => own = Cold
      BY DEF SInv, Caches
    <3>3. got # <<>> => Kept(u.url, own)
      BY <1>1 DEF SInv, Caches
    <3> QED BY <3>1, <3>2, <3>3 DEF Kept
  <2>2. CASE r.busted = FALSE
    <3>1. Entry(r) = shared[r.url]
      BY <2>2 DEF Entry
    <3> QED BY <1>7, <3>1 DEF SInv, Caches
  <2> QED BY <1>7, <2>1, <2>2
<1>10. Plausible(r, a)
  <2>1. LoginKept(shared[Login])
    BY DEF SInv, Caches
  <2> QED BY <1>1, <1>2, <1>7, <1>9, <2>1, AnswerIs DEF Outcome
<1>11. Step(u, got, a, h)
  BY <1>1, <1>2, <1>4, <1>5, <1>10 DEF Step
<1>12. Past(u, got, users)
  <2>1. CASE got # <<>>
    BY <1>1, <2>1 DEF SInv, Heeded
  <2>2. CASE got = <<>>
    <3>1. Len(got) = 0
      BY <1>4, <2>2
    <3>2. ~(Len(got) >= 1) /\ ~(Len(got) >= 2) /\ ~(Len(got) >= 3)
      BY <3>1
    <3>3. Oracle(server.at[u.url], server.weak, got)
      <4>1. Len(Forgeries(server.weak)) \in Nat
        BY ForgeriesAre
      <4>2. Len(got) <= 1 + Len(Forgeries(server.weak))
        BY <3>1, <4>1
      <4> QED BY <3>2, <4>2 DEF Oracle
    <3>4. /\ Weighed(got) /\ Protected(server.at[u.url], server.honours, NoAuth(me), alive, got)
          /\ Baseline(server.at[u.url], got) /\ Enrolled(server.at[u.url], users, found, got)
      BY <3>2 DEF Weighed, Protected, Baseline, Enrolled
    <3>5. Shaken(server.at[u.url], got)
      BY <3>1 DEF Shaken
    <3> QED BY <3>3, <3>4, <3>5 DEF Past
  <2> QED BY <2>1, <2>2
<1>13. Follow(u, h, users')
  BY <1>1, <1>3, <1>11, <1>12, StageIsSound
<1> QED BY <1>3, <1>4, <1>7, <1>8, <1>10, <1>11, <1>12, <1>13

\* What changes then.
LEMMA Effects ==
    ASSUME NEW u, NEW r, NEW a, NEW h, NEW us, Exchange(u, r, a, h, us)
    PROVE  /\ shared' = IF Fills(r, a) /\ ~r.busted
                        THEN [shared EXCEPT ![r.url] = Filled(r, a)]
                        ELSE IF FillsLogin(r, a)
                        THEN [shared EXCEPT ![Login] = Filled(r, a)] ELSE shared
           /\ Turn(u, h).ask = <<>> => own' = Cold /\ got' = <<>>
           /\ Turn(u, h).ask # <<>> =>
                /\ got' = h
                /\ own' = IF Fills(r, a) /\ r.busted THEN Filled(r, a) ELSE own
           /\ \A f \in found' : f \in found \/ \E k \in Turn(u, h).say : f = Finding(k, u, h)
           /\ \A k \in Turn(u, h).say : Finding(k, u, h) \in found'
           /\ Turn(u, h).say = {} => found' = found
           /\ notes' = notes \union Noted(u, a, Turn(u, h).say)
           /\ unit' \in {Len(Units[Stage]) + 1, unit + 1, unit}
           /\ Turn(u, h).ask # <<>> /\ Turn(u, h).over = FALSE => unit' = unit
           /\ Turn(u, h).ask = <<>> => unit' \in {Len(Units[Stage]) + 1, unit + 1}
           /\ UNCHANGED <<server, me, alive, stage>>
<1> DEFINE t == Turn(u, h)
<1>1. Concludes(r, a, t) /\ h = Append(got, a) /\ u = Current
  BY DEF Exchange
<1> HIDE DEF t
<1>2. /\ shared' = IF Fills(r, a) /\ ~r.busted
                   THEN [shared EXCEPT ![r.url] = Filled(r, a)]
                   ELSE IF FillsLogin(r, a)
                   THEN [shared EXCEPT ![Login] = Filled(r, a)] ELSE shared
      /\ notes' = notes \union Noted(u, a, t.say)
      /\ UNCHANGED <<server, me, alive, stage>>
  BY <1>1 DEF Concludes
<1>3. /\ t.ask = <<>> => own' = Cold /\ got' = <<>>
      /\ t.ask # <<>> =>
           /\ got' = h
           /\ own' = IF Fills(r, a) /\ r.busted THEN Filled(r, a) ELSE own
  BY <1>1 DEF Concludes
<1>5. /\ \A f \in found' : f \in found \/ \E k \in t.say : f = Finding(k, u, h)
      /\ \A k \in t.say : Finding(k, u, h) \in found'
      /\ t.say = {} => found' = found
  <2>1. found' = found \union {Finding(k, u, h) : k \in t.say}
    BY <1>1 DEF Concludes, Finding
  <2> QED BY <2>1
<1>6. /\ unit' \in {Len(Units[Stage]) + 1, unit + 1, unit}
      /\ t.ask = <<>> => unit' \in {Len(Units[Stage]) + 1, unit + 1}
      /\ t.ask # <<>> /\ t.over = FALSE => unit' = unit
  BY <1>1 DEF Concludes
<1> QED BY <1>2, <1>3, <1>5, <1>6 DEF t

\* A page that enters a cache is one of its URL.
LEMMA FilledIs ==
    ASSUME NEW r, NEW a, r.url \in Urls, Plausible(r, a), Fills(r, a)
    PROVE  Kept(r.url, Filled(r, a))
<1>1. r.method = "GET" /\ r.input = "own" /\ a.is = "page" /\ a.st = 200
  BY DEF Fills, Cacheable
<1>2. r.input \notin Copies
  BY <1>1 DEF Copies
<1>3. ~Nothing(a) /\ ~Overload(a)
  BY <1>1 DEF Nothing, Overload
<1>4. ~Refuses(r, a) /\ ~Copied(r, a)
  BY <1>1, <1>2 DEF Refuses, Copied
<1>5. Serves(r, a)
  BY <1>3, <1>4 DEF Plausible
<1>6. Page(r, a)
  BY <1>1, <1>5 DEF Serves
<1>7. Fair(Nature(r), a.marks) /\ Standing(r.url) \subseteq a.marks
  BY <1>1, <1>6 DEF Page
<1>8. Filled(r, a).marks = a.marks
  BY DEF Filled
<1> QED BY <1>7, <1>8 DEF Kept, Nature

\* What enters the cache of the login page is that page; a forged request
\* fills it only where a probe was sent there.
LEMMA FilledLoginIs ==
    ASSUME server \in Servers, NEW r, NEW a, r.url \in Urls, Plausible(r, a),
           FillsLogin(r, a), Stage = "cache-poison" => NotAuth(r.url)
    PROVE  /\ LoginKept(Filled(r, a))
           /\ Filled(r, a).by = "cache-poison" => Led
<1>1. a.is = "refusal" /\ Nature(r).refusal = "redirect" /\ Follows(r)
      /\ "cached" \in server.login
  BY DEF FillsLogin, Bounced
<1>2. Refuses(r, a)
  BY <1>1 DEF Plausible, Nothing, Overload, Serves, Copied
<1>3. FromLogin(a.marks) /\ ~Reads(r)
  BY <1>1, <1>2 DEF Refuses, AtLogin
<1>4. LeadsToLogin(r.url)
  <2>1. server.at[r.url].guard \in {"open", "locked"}
    BY DepthAssumption DEF Natures
  <2> QED BY <1>1, <1>3, <2>1 DEF LeadsToLogin, Reads, Nature
<1>5. Filled(r, a).marks = a.marks /\ Filled(r, a).by \in {"a user", Stage}
  BY DEF Filled
<1> QED BY <1>1, <1>3, <1>4, <1>5 DEF LoginKept, Led

LEMMA TypesStay ==
    ASSUME SInv, NEW u, NEW r, NEW a, NEW h, NEW us, Exchange(u, r, a, h, us)
    PROVE  Types'
<1>1. UNCHANGED <<server, me, stage>>
  BY Effects
<1>2. unit' \in Nat \ {0}
  <2>1. unit \in Nat \ {0}
    BY DEF SInv, Types
  <2>2. Len(Units[Stage]) \in Nat
    <3>1. Units[Stage] \in Seq(UnitsOver(Urls, Headed))
      BY Exchanged, UnitsAre, Zenon
    <3> QED BY ONLY <3>1
  <2>3. unit' \in {Len(Units[Stage]) + 1, unit + 1, unit}
    BY Effects
  <2> QED BY ONLY <2>1, <2>2, <2>3
<1>3. got' = <<>> \/ got' = h
  BY Effects
<1>4. Len(h) \in Nat /\ h = [i \in 1 .. Len(h) |-> h[i]]
  BY Exchanged
<1>5. Len(got') \in Nat /\ got' = [i \in 1 .. Len(got') |-> got'[i]]
  <2>1. CASE got' = <<>>
    BY <2>1
  <2>2. CASE got' = h
    BY <1>4, <2>2
  <2> QED BY <1>3, <2>1, <2>2
<1> QED BY <1>1, <1>2, <1>5 DEF SInv, Types

\* While the unit goes on, it stays the same one.
LEMMA GoesOn ==
    ASSUME SInv, NEW u, NEW r, NEW a, NEW h, NEW us, Exchange(u, r, a, h, us), got' # <<>>
    PROVE  /\ Turn(u, h).ask # <<>> /\ got' = h
           /\ u = Current /\ Current' = Current /\ InStage' /\ Stage' = Stage
           /\ own' = IF Fills(r, a) /\ r.busted THEN Filled(r, a) ELSE own
<1>1. Turn(u, h).ask # <<>>
  BY Effects
<1>2. Turn(u, h).over = FALSE
  <2>1. AsksFor(Turn(u, h), u)
    BY Exchanged
  <2> QED BY <1>1, <2>1 DEF AsksFor
<1>3. unit' = unit /\ stage' = stage /\ me' = me /\ server' = server
  BY <1>1, <1>2, Effects
<1>4. InStage /\ u = Current
  BY DEF Exchange
<1>5. Current' = Current /\ Stage' = Stage
  BY <1>3 DEF Current, Stage
<1>6. InStage'
  BY <1>3, <1>4 DEF InStage, Over, Runs, Stage
<1> QED BY <1>1, <1>4, <1>5, <1>6, Effects

LEMMA CachesStay ==
    ASSUME SInv, NEW u, NEW r, NEW a, NEW h, NEW us, Exchange(u, r, a, h, us)
    PROVE  Caches'
<1>1. server' = server
  BY Effects
<1>2. /\ shared = [k \in Keys |-> shared[k]]
      /\ \A v \in Urls : Kept(v, shared[v]) /\ shared[v].by # "cache-poison"
      /\ LoginKept(shared[Login]) /\ (shared[Login].by = "cache-poison" => Led)
      /\ got = <<>> => own = Cold
      /\ got # <<>> => Kept(Current.url, own)
  BY DEF SInv, Caches
<1>10. Login \notin Urls /\ \A k : k \in Keys <=> (k \in Urls \/ k = Login)
  BY DepthAssumption DEF Keys
<1>11. FillsLogin(r, a) => /\ LoginKept(Filled(r, a))
                           /\ Filled(r, a).by = "cache-poison" => Led
  <2>1. Stage = "cache-poison" => NotAuth(r.url)
    BY Exchanged DEF Fits
  <2> QED BY <2>1, Exchanged, FilledLoginIs DEF SInv, Types
<1>3. /\ Plausible(r, a) /\ r.url \in Urls
      /\ Stage = "cache-poison" => r.busted = TRUE /\ r.url = u.url
      /\ Stage # "cache-poison" => r.busted = FALSE
  BY Exchanged
<1>4. Fills(r, a) => Kept(r.url, Filled(r, a))
  BY <1>3, FilledIs
<1>5. /\ shared' = [k \in Keys |-> shared'[k]]
      /\ \A v \in Urls : Kept(v, shared'[v]) /\ shared'[v].by # "cache-poison"
      /\ LoginKept(shared'[Login]) /\ (shared'[Login].by = "cache-poison" => Led)
  <2>1. CASE Fills(r, a) /\ ~r.busted
    <3>1. shared' = [shared EXCEPT ![r.url] = Filled(r, a)]
      BY <2>1, Effects
    <3>2. shared' = [k \in Keys |-> IF k = r.url THEN Filled(r, a) ELSE shared[k]]
      BY <1>2, <3>1
    <3>3. Stage # "cache-poison"
      BY <1>3, <2>1
    <3>4. Filled(r, a).by # "cache-poison"
      BY <3>3 DEF Filled
    <3>5. \A k \in Keys : shared'[k] = IF k = r.url THEN Filled(r, a) ELSE shared[k]
      BY <3>2
    <3> QED BY <1>2, <1>3, <1>4, <1>10, <2>1, <3>2, <3>4, <3>5
  <2>2. CASE ~(Fills(r, a) /\ ~r.busted) /\ FillsLogin(r, a)
    <3>1. shared' = [shared EXCEPT ![Login] = Filled(r, a)]
      BY <2>2, Effects
    <3>2. shared' = [k \in Keys |-> IF k = Login THEN Filled(r, a) ELSE shared[k]]
      BY <1>2, <3>1
    <3>3. \A k \in Keys : shared'[k] = IF k = Login THEN Filled(r, a) ELSE shared[k]
      BY <3>2
    <3> QED BY <1>2, <1>10, <1>11, <2>2, <3>2, <3>3
  <2>3. CASE ~(Fills(r, a) /\ ~r.busted) /\ ~FillsLogin(r, a)
    <3>1. shared' = shared
      BY <2>3, Effects
    <3> QED BY <1>2, <3>1
  <2> QED BY <2>1, <2>2, <2>3
<1>6. got' = <<>> => own' = Cold
  <2>1. h # <<>>
    BY Exchanged, Zenon
  <2>2. Turn(u, h).ask # <<>> => got' = h
    BY Effects
  <2> QED BY <2>1, <2>2, Effects
<1>7. got' # <<>> => Kept(Current'.url, own')
  <2> SUFFICES ASSUME got' # <<>> PROVE Kept(Current'.url, own')
    OBVIOUS
  <2>1. /\ u = Current /\ Current' = Current
        /\ own' = IF Fills(r, a) /\ r.busted THEN Filled(r, a) ELSE own
    BY GoesOn
  <2>2. CASE Fills(r, a) /\ r.busted
    <3>1. r.url = u.url
      BY <1>3, <2>2
    <3> QED BY <1>4, <2>1, <2>2, <3>1
  <2>3. CASE ~(Fills(r, a) /\ r.busted)
    <3>1. own' = own
      BY <2>1, <2>3
    <3> QED BY <1>2, <2>1, <3>1 DEF Kept
  <2> QED BY <2>2, <2>3
<1>8. (\A v \in Urls : Kept(v, shared[v]))'
  BY <1>1, <1>5 DEF Kept, Standing
<1>9. got' # <<>> => (Kept(Current.url, own))'
  BY <1>1, <1>7 DEF Kept, Standing
<1>12. (LoginKept(shared[Login]) /\ (shared[Login].by = "cache-poison" => Led))'
  BY <1>1, <1>5 DEF LoginKept, FromLogin, Led, LeadsToLogin
<1> QED BY <1>5, <1>6, <1>8, <1>9, <1>12 DEF Caches

\* The gate is the first stage, and asks once.
LEMMA GateIs ==
    /\ \A i \in 1 .. Len(Stages) : Stages[i] = "gate" => i = 1
    /\ Stages[1] = "gate"
BY StageNames DEF Stages

LEMMA GateAsksOnce ==
    ASSUME NEW u, NEW h, Stage = "gate"
    PROVE  /\ h # <<>> => Turn(u, h).ask = <<>>
           /\ h = <<>> => Turn(u, h) = Ask(Get(u.url, me))
<1>1. Turn(u, h) = Gate(u, h, me, server.stored, server.marker)
  BY TurnIs
<1>2. h = <<>> => Gate(u, h, me, server.stored, server.marker) = Ask(Get(u.url, me))
  BY DEF Gate
<1>3. h # <<>> => \/ Gate(u, h, me, server.stored, server.marker) = Skip
                  \/ Gate(u, h, me, server.stored, server.marker) = ReportAndStop({"refused"})
  BY DEF Gate
<1> QED BY <1>1, <1>2, <1>3, Forms

LEMMA AtGateStays ==
    ASSUME SInv, NEW u, NEW r, NEW a, NEW h, NEW us, Exchange(u, r, a, h, us)
    PROVE  AtGate'
<1> SUFFICES ASSUME stage' = 1
             PROVE  unit' # 1
  BY DEF AtGate
<1>1. stage = 1
  BY Effects
<1>2. Stage = "gate"
  BY <1>1, GateIs DEF Stage
<1>3. unit = 1 /\ Len(Units[Stage]) = 1
  <2>1. Fits(u)
    BY Exchanged
  <2> QED BY <1>2, <2>1 DEF Fits
<1>4. Turn(u, h).ask = <<>>
  <2>1. h # <<>>
    BY Exchanged, Zenon
  <2> QED BY <1>2, <2>1, GateAsksOnce
<1>5. unit' \in {Len(Units[Stage]) + 1, unit + 1}
  BY <1>4, Effects
<1> QED BY <1>3, <1>5

\* What the backup stage notes, it notes of the baseline.
LEMMA NotedIs ==
    ASSUME Stage = "backup", NEW u, NEW a, NEW x
    PROVE  u.hdr # "baseline" => Noted(u, a, x) = {}
BY DEF Noted

\* A copy was told from the not-found page before, and is told from it still.
LEMMA NotesOfCopies ==
    ASSUME SInv, NEW u, NEW r, NEW a, NEW h, NEW us, Exchange(u, r, a, h, us),
           NEW f \in found', f.kind = "backup"
    PROVE  Stage = "backup" /\ unit > 1 /\ notes' = notes
<1>1. f \in found \/ \E k \in Turn(u, h).say : f = Finding(k, u, h)
  BY Effects
<1>2. Fits(u) /\ Follow(u, h, users')
  BY Exchanged
<1>3. unit \in Nat \ {0}
  BY DEF SInv, Types
<1>4. CASE f \in found
  <2>1. Stage = "backup" /\ unit > 1
    BY <1>4 DEF SInv, AfterBaseline
  <2>2. unit # 1
    BY <1>3, <2>1
  <2>3. u.hdr # "baseline"
    BY <1>2, <2>1, <2>2 DEF Fits
  <2>4. Noted(u, a, Turn(u, h).say) = {}
    BY <2>1, <2>3, NotedIs
  <2>5. notes' = notes \union Noted(u, a, Turn(u, h).say)
    BY Effects
  <2> QED BY <2>1, <2>4, <2>5
<1>5. CASE f \notin found
  <2>1. PICK k \in Turn(u, h).say : f = Finding(k, u, h)
    BY <1>1, <1>5
  <2>2. k = "backup"
    BY <2>1, Findings
  <2>3. Stage = "backup" /\ u.hdr # "baseline"
    BY <1>2, <2>1, <2>2 DEF Follow, Sound
  <2>4. unit # 1
    BY <1>2, <2>3 DEF Fits
  <2>5. unit > 1
    BY <1>3, <2>4
  <2>6. Noted(u, a, Turn(u, h).say) = {}
    BY <2>3, NotedIs
  <2>7. notes' = notes \union Noted(u, a, Turn(u, h).say)
    BY Effects
  <2> QED BY <2>3, <2>5, <2>6, <2>7
<1> QED BY <1>4, <1>5

LEMMA AfterBaselineStays ==
    ASSUME SInv, NEW u, NEW r, NEW a, NEW h, NEW us, Exchange(u, r, a, h, us)
    PROVE  AfterBaseline'
<1>1. Stage' = Stage
  BY Effects DEF Stage
<1>2. \A f \in found' : f.kind = "backup" => Stage' = "backup" /\ unit' > 1
  <2> SUFFICES ASSUME NEW f \in found', f.kind = "backup"
               PROVE  Stage' = "backup" /\ unit' > 1
    OBVIOUS
  <2>1. Stage = "backup" /\ unit > 1
    BY NotesOfCopies
  <2>2. unit' \in {Len(Units[Stage]) + 1, unit + 1, unit}
    BY Effects
  <2>3. unit \in Nat /\ Len(Units[Stage]) \in Nat /\ unit <= Len(Units[Stage])
    <3>1. Units[Stage] \in Seq(UnitsOver(Urls, Headed))
      BY Exchanged, UnitsAre, Zenon
    <3>2. Len(Units[Stage]) \in Nat
      BY ONLY <3>1
    <3>3. unit <= Len(Units[Stage])
      BY DEF Exchange, InStage
    <3> QED BY <3>2, <3>3 DEF SInv, Types
  <2>4. unit' > 1
    BY ONLY <2>1, <2>2, <2>3
  <2> QED BY <1>1, <2>1, <2>4
<1> QED BY <1>2 DEF AfterBaseline

LEMMA HeededStays ==
    ASSUME SInv, NEW u, NEW r, NEW a, NEW h, NEW us, Exchange(u, r, a, h, us)
    PROVE  Heeded'
<1> SUFFICES ASSUME got' # <<>>
             PROVE  InStage' /\ Past(Current, got, users)'
  BY DEF Heeded
<1>1. /\ Turn(u, h).ask # <<>> /\ got' = h
      /\ u = Current /\ Current' = Current /\ InStage' /\ Stage' = Stage
  BY GoesOn
<1>2. server' = server /\ me' = me /\ alive' = alive
  BY Effects
<1>3. Past(u, h, users')
  BY <1>1, Exchanged DEF Follow
<1>4. ASSUME Stage = "api-authz", AtSignup(u)
      PROVE  found' = found
  <2>1. Step(u, got, a, h) /\ Outcome(r, us, a, users') /\ r = Turn(u, got).ask[1]
    BY Exchanged DEF Exchange
  <2>2. Past(u, got, users)
    BY Exchanged
  <2>3. Turn(u, h).say = {}
    BY <1>1, <1>4, <2>1, <2>2, RegisterIsSound
  <2> QED BY <2>3, Effects
<1>5. Past(Current, got, users)'
  BY <1>1, <1>2, <1>3, <1>4 DEF Past, AtSignup
<1> QED BY <1>1, <1>5

\* What was so stays so: only what is noted of the baseline can change that.
LEMMA Judged ==
    ASSUME server' = server, NEW f, f.kind = "backup" => notes' = notes,
           Right(f) \/ Misled(f)
    PROVE  Right(f)' \/ Misled(f)'
<1>1. Right(f)' = Right(f)
  BY DEF Right
<1>2. Missing(f.url)' = Missing(f.url)
  BY DEF Missing
<1>3. Misled(f) => Misled(f)'
  BY <1>2 DEF Misled
<1> QED BY <1>1, <1>3

LEMMA ReportsStay ==
    ASSUME SInv, NEW u, NEW r, NEW a, NEW h, NEW us, Exchange(u, r, a, h, us)
    PROVE  ReportedIsSo'
<1> SUFFICES ASSUME NEW f \in found'
             PROVE  (Right(f) \/ Misled(f))'
  BY DEF ReportedIsSo
<1>1. f \in found \/ \E k \in Turn(u, h).say : f = Finding(k, u, h)
  BY Effects
<1>2. Right(f) \/ Misled(f)
  <2>1. CASE f \in found
    BY <2>1 DEF SInv, ReportedIsSo
  <2>2. CASE f \notin found
    <3>1. Follow(u, h, users')
      BY Exchanged
    <3> QED BY <1>1, <2>2, <3>1 DEF Follow, Sound
  <2> QED BY <2>1, <2>2
<1>3. f.kind = "backup" => notes' = notes
  BY NotesOfCopies
<1>4. server' = server
  BY Effects
<1> QED BY <1>2, <1>3, <1>4, Judged

LEMMA RequestStays ==
    ASSUME SInv, Request
    PROVE  SInv'
<1>1. PICK u, r, a, h, us : Exchange(u, r, a, h, us)
  BY RequestIs
<1>2. Types' /\ Caches' /\ AtGate'
  BY <1>1, TypesStay, CachesStay, AtGateStays
<1>3. AfterBaseline' /\ Heeded' /\ ReportedIsSo'
  BY <1>1, AfterBaselineStays, HeededStays, ReportsStay
<1> QED BY <1>2, <1>3 DEF SInv

\* The session ends, a user fills the cache, or nothing happens.
LEMMA OthersStay ==
    ASSUME SInv, SessionEnds \/ (\E k \in Keys : Visit(k)) \/ UNCHANGED vars
    PROVE  SInv'
<1> DEFINE entry(k) == [by |-> "a user",
                        marks |-> IF k = Login THEN {"form"} ELSE Standing(k)]
<1>1. /\ UNCHANGED <<server, me, own, stage, unit, got, notes, users, found, clear>>
      /\ alive' = alive \/ alive' = FALSE
      /\ \/ shared' = shared
         \/ \E k \in Keys : shared' = [shared EXCEPT ![k] = entry(k)]
  BY DEF SessionEnds, Visit, vars
<1> HIDE DEF entry
<1>2. Stage' = Stage /\ Current' = Current /\ InStage' = InStage
  BY <1>1 DEF Stage, Current, InStage, Over, Runs
<1>3. Types'
  BY <1>1 DEF SInv, Types
<1>4. /\ shared = [k \in Keys |-> shared[k]]
      /\ \A u \in Urls : Kept(u, shared[u]) /\ shared[u].by # "cache-poison"
      /\ LoginKept(shared[Login]) /\ (shared[Login].by = "cache-poison" => Led)
      /\ got = <<>> => own = Cold
      /\ got # <<>> => Kept(Current.url, own)
      /\ stage = 1 /\ unit = 1 => got = <<>> /\ found = {}
                                  /\ \A u \in Urls : "in" \notin shared[u].marks
  BY DEF SInv, Caches, AtGate
<1>11. Login \notin Urls /\ \A k : k \in Keys <=> (k \in Urls \/ k = Login)
  BY DepthAssumption DEF Keys
<1>5. /\ shared' = [k \in Keys |-> shared'[k]]
      /\ \A v \in Urls : Kept(v, shared'[v]) /\ shared'[v].by # "cache-poison"
      /\ LoginKept(shared'[Login]) /\ (shared'[Login].by = "cache-poison" => Led)
      /\ stage = 1 /\ unit = 1 => \A v \in Urls : "in" \notin shared'[v].marks
  <2>1. CASE shared' = shared
    BY <1>4, <2>1
  <2>2. CASE shared' # shared
    <3>1. PICK u \in Keys : shared' = [shared EXCEPT ![u] = entry(u)]
      BY <1>1, <2>2
    <3>2. /\ entry(u).by = "a user" /\ "in" \notin entry(u).marks
          /\ u = Login => LoginKept(entry(u))
          /\ u \in Urls => Kept(u, entry(u))
      <4>1. CASE u = Login
        <5>1. entry(u).by = "a user" /\ entry(u).marks = {"form"}
          BY <4>1 DEF entry
        <5> QED BY <1>11, <4>1, <5>1 DEF LoginKept, FromLogin
      <4>2. CASE u # Login
        <5>1. u \in Urls /\ entry(u).by = "a user" /\ entry(u).marks = Standing(u)
          BY <1>11, <4>2 DEF entry
        <5>2. Fair(server.at[u], Standing(u)) /\ "in" \notin Standing(u)
          BY <5>1, StandingIs DEF SInv, Types
        <5> QED BY <4>2, <5>1, <5>2 DEF Kept
      <4> QED BY <4>1, <4>2
    <3>5. shared' = [k \in Keys |-> IF k = u THEN entry(u) ELSE shared[k]]
      BY <1>4, <3>1
    <3>6. \A k \in Keys : shared'[k] = IF k = u THEN entry(u) ELSE shared[k]
      BY <3>5
    <3>7. \A v \in Urls : shared'[v] = IF v = u THEN entry(u) ELSE shared[v]
      BY <1>11, <3>6
    <3>8. shared'[Login] = IF Login = u THEN entry(u) ELSE shared[Login]
      BY <1>11, <3>6
    <3>9. \A v \in Urls : Kept(v, shared'[v]) /\ shared'[v].by # "cache-poison"
      BY <1>4, <3>2, <3>7
    <3>10. LoginKept(shared'[Login]) /\ (shared'[Login].by = "cache-poison" => Led)
      BY <1>4, <3>2, <3>8
    <3>11. stage = 1 /\ unit = 1 => \A v \in Urls : "in" \notin shared'[v].marks
      BY <1>4, <3>2, <3>7
    <3> QED BY <3>5, <3>9, <3>10, <3>11
  <2> QED BY <2>1, <2>2
<1>6. Caches'
  <2>1. (\A v \in Urls : Kept(v, shared[v]))'
    BY <1>1, <1>5 DEF Kept, Standing
  <2>2. got' # <<>> => (Kept(Current.url, own))'
    BY <1>1, <1>2, <1>4 DEF Kept, Standing
  <2>3. (LoginKept(shared[Login]) /\ (shared[Login].by = "cache-poison" => Led))'
    BY <1>1, <1>5 DEF LoginKept, FromLogin, Led, LeadsToLogin
  <2> QED BY <1>1, <1>4, <1>5, <2>1, <2>2, <2>3 DEF Caches
<1>7. AtGate'
  BY <1>1, <1>4, <1>5 DEF AtGate
<1>8. AfterBaseline'
  BY <1>1, <1>2 DEF SInv, AfterBaseline
<1>9. Heeded'
  <2>1. got # <<>> => InStage /\ Past(Current, got, users)
    BY DEF SInv, Heeded
  <2>2. ASSUME NEW n, NEW hs, NEW who, NEW g, Protected(n, hs, who, alive, g)
        PROVE  Protected(n, hs, who, alive', g)
    <3>1. CASE alive' = alive
      BY <2>2, <3>1, Zenon
    <3>2. CASE alive' = FALSE
      <4>1. Unread(hs, who, FALSE)
        BY DEF Unread
      <4>2. Unread(hs, who, alive')
        BY <3>2, <4>1, Zenon
      <4> QED BY <2>2, <4>2, Zenon DEF Protected
    <3> QED BY <1>1, <3>1, <3>2
  <2>3. Past(Current, got, users) => Past(Current, got, users)'
    BY <1>1, <1>2, <2>2 DEF Past
  <2> QED BY <1>1, <1>2, <2>1, <2>3 DEF Heeded
<1>10. ReportedIsSo'
  <2> SUFFICES ASSUME NEW f \in found PROVE (Right(f) \/ Misled(f))'
    BY <1>1 DEF ReportedIsSo
  <2>1. Right(f) \/ Misled(f)
    BY DEF SInv, ReportedIsSo
  <2> QED BY <1>1, <2>1, Judged
<1> QED BY <1>3, <1>6, <1>7, <1>8, <1>9, <1>10 DEF SInv

LEMMA NextStageStays ==
    ASSUME SInv, NextStage
    PROVE  SInv'
<1>1. /\ ~Over /\ ~InStage
      /\ stage' = (IF Refused THEN Len(Stages) ELSE stage) + 1 /\ unit' = 1
      /\ notes' = {} /\ found' = {}
      /\ UNCHANGED <<server, me, alive, shared, own, got>>
  BY DEF NextStage
<1>2. stage \in 1 .. 20 /\ stage' \in 2 .. 21
  <2>1. stage \in 1 .. 20
    <3>1. stage \in 1 .. 21 /\ ~(stage > 20)
      BY <1>1, StageNames DEF SInv, Types, Over
    <3> QED BY <3>1
  <2>2. stage' = 21 \/ stage' = stage + 1
    BY <1>1, StageNames
  <2> QED BY ONLY <2>1, <2>2
<1>3. got = <<>>
  BY <1>1 DEF SInv, Heeded
<1>4. Types'
  BY <1>1, <1>2, StageNames DEF SInv, Types
<1>5. Caches'
  <2>1. (\A v \in Urls : Kept(v, shared[v]))'
    BY <1>1 DEF SInv, Caches, Kept, Standing
  <2>2. (LoginKept(shared[Login]) /\ (shared[Login].by = "cache-poison" => Led))'
    BY <1>1 DEF SInv, Caches, LoginKept, FromLogin, Led, LeadsToLogin
  <2> QED BY <1>1, <1>3, <2>1, <2>2 DEF SInv, Caches
<1>6. AtGate' /\ AfterBaseline' /\ Heeded' /\ ReportedIsSo'
  BY <1>1, <1>2, <1>3 DEF AtGate, AfterBaseline, Heeded, ReportedIsSo
<1> QED BY <1>4, <1>5, <1>6 DEF SInv

LEMMA Inductive ==
    ASSUME SInv, [Next]_vars
    PROVE  SInv'
BY RequestStays, OthersStay, NextStageStays DEF Next

\* The invariant of the depth suite: the caches hold pages, what a unit has
\* heard fits the server, and what is reported is so.
THEOREM DepthInvariance == Spec => []SInv
<1>1. Init => SInv
  BY Initially
<1>2. SInv /\ [Next]_vars => SInv'
  BY Inductive
<1> QED BY <1>1, <1>2, PTL DEF Spec

-----------------------------------------------------------------------------
(***************************************************************************)
(* What follows.                                                           *)
(***************************************************************************)
\* Whatever the crawl, the server, the session and the answers lost on the way,
\* each finding of the gate, the API tests and the depth suite (engagement.py,
\* activetests.py and the modules beside it) has its cause in the server, or is
\* one of the cases Misled lists.
THEOREM FindingsAreSo == Spec => []ReportedIsSo
<1>1. SInv => ReportedIsSo
  BY DEF SInv
<1> QED BY <1>1, DepthInvariance, PTL

\* The cache-poisoning stage (run_cache_poisoning_checks) fills an entry that
\* other users are served at most of the login page, where a cache keeps it and
\* a probed URL redirects there.
THEOREM CacheOfOthersIsSpared == Spec => []OthersAreSpared
<1>1. SInv => OthersAreSpared
  BY DEF SInv, Caches, OthersAreSpared, Led, Keys
<1> QED BY <1>1, DepthInvariance, PTL

\* A page tells that it was answered to a session, but where it was cached.
LEMMA InIs ==
    ASSUME NEW r, r.url \in Urls, server \in Servers, r.input \notin Copies, ~Registers(r),
           r.method = "GET", r.busted = FALSE, "in" \notin shared[r.url].marks,
           LoginKept(shared[Login]), NEW us, NEW a \in Answers(r, us), a \notin {Lost(r), Blocked(r)}
    PROVE  /\ "in" \in a.marks => \E h \in server.honours : Valid(r, h)
           /\ Reads(r) /\ Owns(r) /\ (\E h \in server.honours : Valid(r, h)) =>
                "in" \in a.marks \/ "cached" \in server.at[r.url].habits
<1> DEFINE is == IF r.input \in Copies \/ Reads(r) THEN "page" ELSE "refusal"
           n == server.at[r.url]
           valid == \E h \in server.honours : Valid(r, h)
<1>0. n.refusal \in {"unauthorized", "redirect", "form"}
  BY DepthAssumption DEF Natures
<1>1. PICK x \in Replies(r) : a = Seen(x, is, r)
  BY DEF Answers
<1>2. a.marks = x.marks
  BY <1>1 DEF Seen
<1>3. CASE ~Reads(r)
  <2>1. x = Refusal(r)
    BY <1>1, <1>3 DEF Replies
  <2>2. CASE n.refusal = "redirect" /\ Follows(r)
    <3>1. x = LoginPage(r)
      BY <2>1, <2>2 DEF Refusal, Bounced, Nature
    <3>2. AtLogin(r, a.marks)
      BY <1>2, <3>1, LoginPageIs
    <3>3. "in" \notin a.marks
      BY <3>2 DEF AtLogin, FromLogin
    <3> QED BY <1>3, <3>3
  <2>3. CASE ~(n.refusal = "redirect" /\ Follows(r))
    <3>1. x = Refusals[n.refusal] \/ x = [Refusals.form EXCEPT !.size = 20]
      BY <2>1, <2>3 DEF Refusal, Bounced, Nature
    <3>2. x.marks \subseteq {"form"}
      BY <1>0, <3>1 DEF Refusals
    <3> QED BY <1>2, <1>3, <3>2
  <2> QED BY <2>2, <2>3
<1>4. CASE Reads(r) /\ ~Owns(r)
  <2>1. x = NotFound
    BY <1>1, <1>4 DEF Replies
  <2> QED BY <1>2, <1>4, <2>1 DEF NotFound
<1>5. CASE Reads(r) /\ Owns(r)
  <2>1. x.marks = IF Cacheable(r) /\ Entry(r) # Cold THEN Entry(r).marks ELSE Marks(r)
    BY <1>1, <1>5 DEF Replies
  <2>2. "in" \in Marks(r) <=> valid
    <3>1. "in" \notin Standing(r.url)
      BY StandingIs
    <3> QED BY <3>1 DEF Marks, If, Tells
  <2>3. Entry(r) = shared[r.url]
    BY DEF Entry
  <2>4. Cacheable(r) => "cached" \in n.habits
    BY DEF Cacheable, Nature
  <2> HIDE DEF valid
  <2>5. /\ "in" \in a.marks => valid
        /\ valid => "in" \in a.marks \/ "cached" \in n.habits
    BY <1>2, <2>1, <2>2, <2>3, <2>4
  <2> QED BY <2>5 DEF valid
<1> QED BY <1>3, <1>4, <1>5

\* What the gate may conclude from an answer.
LEMMA GateHears ==
    ASSUME server \in Servers, me \in Sessions, Stage = "gate", "in" \notin shared[Home].marks,
           LoginKept(shared[Login]), NEW r, r = Get(Home, me), NEW us, NEW a \in Answers(r, us), Plausible(r, a)
    PROVE  LET n == server.at[Home]
           IN  /\ Admitted(a, me, server.stored, server.marker) =>
                    alive \/ (~server.marker
                              /\ (TokenAuth(me, server.stored) \/ n.guard = "open" \/ n.refusal = "form"))
               /\ ~Admitted(a, me, server.stored, server.marker) /\ (\E h \in server.honours : me[h] = "A") =>
                    \/ ~alive \/ a.is \in {"lost", "block"}
                    \/ server.marker /\ "cached" \in n.habits
<1> DEFINE n == server.at[Home]
           missed == a.is = "lost" \/ a.is = "block"
<1>1. /\ r.url = Home /\ r.who = me /\ r.method = "GET" /\ r.input = "own" /\ r.busted = FALSE
      /\ r.url \in Urls
  BY DepthAssumption DEF Get
<1>2. r.input \notin Copies /\ ~Registers(r) /\ r.input \notin {"nextid", "theirs"}
  BY <1>1 DEF Copies, Registers
<1>3. OfA(r.who)
  BY <1>1, Identities
<1> HIDE DEF n, missed
<1>4. Reads(r) => n.guard = "open" \/ alive
  BY <1>1, <1>3, ReadsBy DEF n, Nature
<1>5. Reads(r) => Owns(r)
  BY <1>1, <1>2, <1>3, OwnsOwn
<1>6. \A h \in server.honours : Valid(r, h) => alive
  <2>1. server.honours \subseteq Headers
    BY DepthAssumption
  <2> QED BY <1>1, <1>3, <2>1 DEF Valid, OfA
<1>7. \A h \in server.honours : me[h] = "A" /\ alive => Valid(r, h) /\ Reads(r)
  BY <1>1 DEF Valid, Reads
<1>8. a \in {Lost(r), Blocked(r)} => missed /\ a.marks = {} /\ ~Served(a)
  BY DEF Lost, Blocked, Seen, Served, missed
<1>9. a \notin {Lost(r), Blocked(r)} =>
        /\ "in" \in a.marks => alive
        /\ (\E h \in server.honours : me[h] = "A") /\ alive =>
             "in" \in a.marks \/ "cached" \in n.habits
  BY <1>1, <1>2, <1>5, <1>6, <1>7, InIs DEF n
<1>10. "in" \in a.marks => alive
  BY <1>8, <1>9
<1>11. ~Reads(r) /\ n.refusal # "form" => "at login" \in a.marks \/ ~Served(a)
  <2>1. (~Serves(r, a) /\ ~Copied(r, a)) \/ Reads(r)
    BY <1>2 DEF Serves, Copied
  <2>2. Nothing(a) \/ Overload(a) => ~Served(a)
    BY DEF Nothing, Overload, Served
  <2>3. Follows(r)
    BY <1>1 DEF Follows
  <2>4. Refuses(r, a) /\ n.refusal # "form" => "at login" \in a.marks \/ ~Served(a)
    <3>0. n = Nature(r)
      BY <1>1 DEF n, Nature
    <3>1. Refuses(r, a) => \/ n.refusal = "form" \/ a.st = 401 \/ "at login" \in a.marks
      BY <2>3, <3>0 DEF Refuses, AtLogin
    <3>2. a.st = 401 => ~Served(a)
      BY DEF Served
    <3> QED BY <3>1, <3>2
  <2> QED BY <2>1, <2>2, <2>4 DEF Plausible
<1>12. Reads(r) /\ ~missed => "at login" \notin a.marks /\ Served(a)
  <2> SUFFICES ASSUME Reads(r), ~missed PROVE "at login" \notin a.marks /\ Served(a)
    OBVIOUS
  <2>1. ~Nothing(a) /\ ~Overload(a)
    BY DEF Nothing, Overload, missed
  <2>2. ~Refuses(r, a) /\ ~Copied(r, a)
    BY <1>2 DEF Refuses, Copied
  <2>3. Page(r, a)
    BY <1>2, <1>5, <2>1, <2>2 DEF Plausible, Serves
  <2>4. a.st = 200 /\ "at login" \notin a.marks
    BY <2>3 DEF Page, Fair
  <2>5. Served(a)
    <3>1. 200 \in 1 .. 399
      OBVIOUS
    <3> QED BY <2>4, <3>1, Zenon DEF Served
  <2> QED BY <2>4, <2>5
<1>13. Admitted(a, me, server.stored, server.marker) =>
         \/ server.marker /\ "in" \in a.marks
         \/ ~server.marker /\ "at login" \notin a.marks /\ (TokenAuth(me, server.stored) \/ Served(a))
  BY DEF Admitted
<1>14. ~Admitted(a, me, server.stored, server.marker) =>
         \/ server.marker /\ "in" \notin a.marks
         \/ "at login" \in a.marks \/ ~Served(a)
  BY DEF Admitted
<1>15. Admitted(a, me, server.stored, server.marker) =>
         alive \/ (~server.marker /\ (TokenAuth(me, server.stored) \/ n.guard = "open" \/ n.refusal = "form"))
  BY <1>4, <1>10, <1>11, <1>13
<1>16. ASSUME ~Admitted(a, me, server.stored, server.marker), \E h \in server.honours : me[h] = "A", alive, ~missed
       PROVE  server.marker /\ "cached" \in n.habits
  <2>1. Reads(r)
    BY <1>7, <1>16
  <2>2. server.marker /\ "in" \notin a.marks
    BY <1>12, <1>14, <1>16, <2>1
  <2> QED BY <1>8, <1>9, <1>16, <2>2
<1> QED BY <1>15, <1>16 DEF n, missed

LEMMA GateVerdictHolds ==
    ASSUME SInv, [Next]_vars
    PROVE  [GateVerdict]_vars
<1>1. CASE Request
  <2> SUFFICES ASSUME Stage = "gate", ~Over, PassedGate \/ TurnedAway PROVE GateVerdict
    BY DEF GateVerdict, PassedGate, TurnedAway
  <2>1. PICK u, r, a, h, us : Exchange(u, r, a, h, us)
    BY <1>1, RequestIs
  <2>2. /\ Step(u, got, a, h) /\ Plausible(r, a) /\ Fits(u) /\ stage \in 1 .. Len(Stages)
    BY <2>1, Exchanged
  <2>3. stage = 1 /\ unit = 1 /\ u = Plain(Home)
    BY <2>2, GateIs DEF Fits, Stage
  <2>4. got = <<>> /\ found = {} /\ "in" \notin shared[Home].marks
    BY <2>3, DepthAssumption DEF SInv, AtGate
  <2>5. u.url = Home
    BY <2>3 DEF Plain
  <2>6. r = Get(Home, me) /\ a \in Answers(r, us)
    BY <2>1, <2>4, <2>5, GateAsksOnce, Forms DEF Exchange, Outcome
  <2>7. h # <<>> /\ h[1] = a
    BY <2>2, <2>4 DEF Step
  <2>8. /\ server \in Servers /\ me \in Sessions /\ LoginKept(shared[Login])
        /\ me # Nobody /\ \E x \in server.honours : me[x] = "A"
    <3>1. me # Nobody
      BY <2>1 DEF Exchange, InStage, Runs
    <3> QED BY <3>1 DEF SInv, Types, Caches
  <2>9. Turn(u, h) = IF Admitted(a, me, server.stored, server.marker) THEN Skip ELSE ReportAndStop({"refused"})
    <3>1. Turn(u, h) = Gate(u, h, me, server.stored, server.marker)
      BY TurnIs
    <3> QED BY <2>7, <3>1 DEF Gate
  <2>10. Admitted(a, me, server.stored, server.marker) => found' = {}
    <3> SUFFICES ASSUME Admitted(a, me, server.stored, server.marker) PROVE found' = {}
      OBVIOUS
    <3>1. Turn(u, h).say = {}
      BY <2>9, Forms
    <3>2. found' = found
      BY <2>1, <3>1, Effects
    <3> QED BY <2>4, <3>2
  <2>11. ~Admitted(a, me, server.stored, server.marker) => found' # {}
    <3> SUFFICES ASSUME ~Admitted(a, me, server.stored, server.marker) PROVE found' # {}
      OBVIOUS
    <3>1. "refused" \in Turn(u, h).say
      BY <2>9, Forms
    <3>2. Finding("refused", u, h) \in found'
      BY <2>1, <3>1, Effects
    <3> QED BY <3>2
  <2>12. a.is \in {"lost", "block"} => ~clear'
    <3>1. Concludes(r, a, Turn(u, h))
      BY <2>1 DEF Exchange
    <3> QED BY <3>1, Zenon DEF Concludes
  <2>13. LET n == server.at[Home]
         IN  /\ Admitted(a, me, server.stored, server.marker) =>
                  alive \/ (~server.marker
                            /\ (TokenAuth(me, server.stored) \/ n.guard = "open" \/ n.refusal = "form"))
             /\ ~Admitted(a, me, server.stored, server.marker) =>
                  \/ ~alive \/ a.is \in {"lost", "block"}
                  \/ server.marker /\ "cached" \in n.habits
    BY <2>2, <2>4, <2>6, <2>8, GateHears
  <2>14. PassedGate => Admitted(a, me, server.stored, server.marker)
    BY <2>11 DEF PassedGate
  <2>15. TurnedAway => ~Admitted(a, me, server.stored, server.marker)
    BY <2>10 DEF TurnedAway
  <2> QED BY <2>12, <2>13, <2>14, <2>15 DEF GateVerdict
<1>2. CASE SessionEnds \/ (\E k \in Keys : Visit(k))
  <2>1. unit' = unit /\ found' = found
    BY <1>2 DEF SessionEnds, Visit
  <2>2. ~PassedGate /\ ~TurnedAway
    BY <2>1 DEF PassedGate, TurnedAway
  <2> QED BY <2>2 DEF GateVerdict
<1>3. CASE NextStage
  BY <1>3 DEF NextStage, GateVerdict, PassedGate, TurnedAway
<1> QED BY <1>1, <1>2, <1>3 DEF Next

\* The gate (is_session_valid and _preflight) lets a session pass only while
\* the server honours it, and refuses a live one only on a lost or blocked
\* answer, but for the cases its probe cannot tell.
THEOREM GateIsRight == Spec => GateKnowsTheSession
<1>1. SInv /\ [Next]_vars => [GateVerdict]_vars
  BY GateVerdictHolds
<1> QED BY <1>1, DepthInvariance, PTL DEF Spec, GateKnowsTheSession

-----------------------------------------------------------------------------
(***************************************************************************)
(* Nothing the tests were given hides: what a stage has to report, kind by *)
(* kind, as ExposureIsReported says it.                                    *)
(***************************************************************************)
\* A URL that answers A's session, with the same page each time.
Exposed(v) == Api(v) /\ Steady(v) /\ Acts(v)

\* The stages that take A's credentials off leave the custom header.
Uncustomed == me["custom"] = "none" \/ "custom" \notin server.honours

\* Among those that the stage considers.
EarlyPage(v) == Early(v, Crawled) /\ ~Facts[v].again
EarlyApi(v) == Early(v, Api)

\* What the stage owes: a finding of kind x of an exposed URL v.
Dues == {"bola-write", "exposed", "broken-auth", "broken-token-validation",
         "jwt-forged", "verb-bypass", "bola"}
Due(x, v) ==
    LET n == server.at[v]
    IN  \/ /\ Stage = "api-authz" /\ x = "bola-write" /\ Edit(v) /\ "object" \in n.flaws
           /\ (\E w \in Urls : List(w) /\ Acts(w)) /\ ~Displaced
        \/ /\ Stage = "api-exposure" /\ x = "exposed" /\ me["cookie"] = "none"
           /\ n.guard = "open" /\ "records" \in n.habits
           /\ EarlyPage(v)
        \/ Stage = "authz" /\ x = "broken-auth" /\ n.guard = "open" /\ EarlyApi(v)
        \/ /\ Stage = "authz" /\ x = "broken-token-validation" /\ n.guard = "locked"
           /\ "token" \in n.flaws /\ AuthHeader(me) \in server.honours /\ EarlyApi(v)
        \/ /\ Stage = "jwt" /\ x = "jwt-forged" /\ "token" \in n.flaws
           /\ "authorization" \in server.honours /\ Gated(v) /\ Uncustomed
           /\ \A w \in Urls \ {v} : Api(w) => ~Gated(w)
           /\ EarlyApi(v)
        \/ /\ Stage = "verb" /\ x = "verb-bypass" /\ Gated(v) /\ "method" \in n.flaws
           /\ Uncustomed /\ EarlyApi(v)
        \/ /\ Stage = "matrix" /\ x = "bola" /\ EarlyApi(v) /\ Facts[v].id
           /\ "object" \in n.flaws
           /\ \E h \in {"authorization", "cookie"} \intersect server.honours : Other[h] = "B"
Owes(x, u) ==
    Exposed(u.url) /\ Due(x, u.url) /\ (Stage = "api-authz" => u.hdr = "others")

\* A URL that needs no credentials is reported for that, and not asked for with
\* a bogus token any more.
Meets(k, x) == k = x \/ (k = "broken-auth" /\ x = "broken-token-validation")
Shown(x, v, fs) == \E f \in fs : Meets(f.kind, x) /\ f.url = v
Said(x, u, h) == \E k \in Turn(u, h).say : Meets(k, x)

\* What the answers to a unit have told, when none was lost or blocked and the
\* session lives.
Honest(g) == \A i \in 1 .. Len(g) : g[i].is \notin {"lost", "block"}
Full(a) == a.st = 200 /\ a.size = 20
Learned(u, g) ==
    Exposed(u.url) =>
        /\ Stage \in {"authz", "jwt", "verb", "matrix"} /\ Len(g) >= 1 => Full(g[1])
        /\ Stage = "authz" /\ Len(g) >= 2 => server.at[u.url].guard # "open"
        /\ Stage \in {"jwt", "verb"} /\ Gated(u.url) /\ Uncustomed /\ Len(g) >= 2 =>
             g[2].st = 401
        /\ Stage = "verb" /\ Gated(u.url) /\ Uncustomed /\ Len(g) >= 3 => g[3].st = 401

\* The stages that go on with a unit after they have reported of it.
GoingOn == {"authz", "jwt", "verb"}
Telling == IF Stage = "verb" THEN 4 ELSE 3
ToldOf(u, g) ==
    /\ Honest(g) /\ Learned(u, g)
    /\ Stage \in GoingOn /\ Len(g) >= Telling =>
         \A x \in Dues : Owes(x, u) => Shown(x, u.url, found)

\* One more answer: the stage goes on to ask, or has said what it owes; only
\* the token stage leaves units out.
Thorough == {"api-authz", "api-exposure", "authz", "verb", "matrix"}
Faithful(u, h) ==
    /\ Turn(u, h).ask # <<>> => Learned(u, h)
    /\ Stage \in Thorough => Turn(u, h).over = FALSE
    /\ \A x \in Dues :
         Owes(x, u) /\ (Turn(u, h).ask = <<>> \/ (Stage \in GoingOn /\ Len(h) >= Telling)) =>
            Said(x, u, h) \/ Shown(x, u.url, found)

\* A stage that is done and has shown all it owes keeps the promise.
LEMMA ExposureIs ==
    ASSUME StageDone => \A v \in Urls : Exposed(v) =>
             \A x \in Dues : Due(x, v) => Shown(x, v, found)
    PROVE  ExposureIsReported
<1> SUFFICES ASSUME StageDone, NEW v \in Urls, Api(v), Steady(v), Acts(v)
             PROVE  LET n == server.at[v]
                    IN  /\ Stage = "api-authz" /\ Edit(v) /\ "object" \in n.flaws
                             /\ (\E w \in Urls : List(w) /\ Acts(w))
                             => Reports("bola-write", v) \/ Displaced
                        /\ Stage = "api-exposure" /\ me["cookie"] = "none" /\ n.guard = "open"
                             /\ "records" \in n.habits /\ EarlyPage(v) => Reports("exposed", v)
                        /\ Stage = "authz" /\ n.guard = "open" /\ EarlyApi(v)
                             => Reports("broken-auth", v)
                        /\ Stage = "authz" /\ n.guard = "locked" /\ "token" \in n.flaws
                             /\ AuthHeader(me) \in server.honours /\ EarlyApi(v)
                             => Reports("broken-token-validation", v) \/ Reports("broken-auth", v)
                        /\ Stage = "jwt" /\ "token" \in n.flaws
                             /\ "authorization" \in server.honours /\ Gated(v) /\ Uncustomed
                             /\ (\A w \in Urls \ {v} : Api(w) => ~Gated(w)) /\ EarlyApi(v)
                             => Reports("jwt-forged", v)
                        /\ Stage = "verb" /\ EarlyApi(v) /\ Gated(v) /\ "method" \in n.flaws
                             /\ Uncustomed => Reports("verb-bypass", v)
                        /\ Stage = "matrix" /\ EarlyApi(v) /\ Facts[v].id
                             /\ "object" \in n.flaws
                             /\ (\E h \in {"authorization", "cookie"} \intersect server.honours :
                                    Other[h] = "B")
                             => Reports("bola", v)
  BY Zenon DEF ExposureIsReported, Uncustomed, EarlyPage, EarlyApi
<1>1. \A x \in Dues : Due(x, v) => Shown(x, v, found)
  BY DEF Exposed
<1>2. \A x \in Dues : Shown(x, v, found) =>
        Reports(x, v) \/ (x = "broken-token-validation" /\ Reports("broken-auth", v))
  BY DEF Shown, Meets, Reports
<1>3. /\ "bola-write" \in Dues /\ "exposed" \in Dues /\ "broken-auth" \in Dues
      /\ "broken-token-validation" \in Dues /\ "jwt-forged" \in Dues
      /\ "verb-bypass" \in Dues /\ "bola" \in Dues
  BY DEF Dues
<1>4. Due("bola-write", v) => Reports("bola-write", v)
  BY <1>1, <1>2, <1>3
<1>5. Due("exposed", v) => Reports("exposed", v)
  BY <1>1, <1>2, <1>3
<1>6. Due("broken-auth", v) => Reports("broken-auth", v)
  BY <1>1, <1>2, <1>3
<1>7. Due("broken-token-validation", v) =>
        Reports("broken-token-validation", v) \/ Reports("broken-auth", v)
  BY <1>1, <1>2, <1>3
<1>8. Due("jwt-forged", v) => Reports("jwt-forged", v)
  BY <1>1, <1>2, <1>3
<1>9. Due("verb-bypass", v) => Reports("verb-bypass", v)
  BY <1>1, <1>2, <1>3
<1>10. Due("bola", v) => Reports("bola", v)
  BY <1>1, <1>2, <1>3
<1>11. Stage = "api-authz" /\ Edit(v) /\ "object" \in server.at[v].flaws
         /\ (\E w \in Urls : List(w) /\ Acts(w))
         => Reports("bola-write", v) \/ Displaced
  BY <1>4 DEF Due
<1>12. Stage = "api-exposure" /\ me["cookie"] = "none" /\ server.at[v].guard = "open"
         /\ "records" \in server.at[v].habits /\ EarlyPage(v)
         => Reports("exposed", v)
  BY <1>5 DEF Due
<1>13. Stage = "authz" /\ server.at[v].guard = "open" /\ EarlyApi(v)
         => Reports("broken-auth", v)
  BY <1>6 DEF Due
<1>14. Stage = "authz" /\ server.at[v].guard = "locked" /\ "token" \in server.at[v].flaws
         /\ AuthHeader(me) \in server.honours /\ EarlyApi(v)
         => Reports("broken-token-validation", v) \/ Reports("broken-auth", v)
  BY <1>7 DEF Due
<1>15. Stage = "jwt" /\ "token" \in server.at[v].flaws /\ "authorization" \in server.honours
         /\ Gated(v) /\ Uncustomed /\ (\A w \in Urls \ {v} : Api(w) => ~Gated(w))
         /\ EarlyApi(v) => Reports("jwt-forged", v)
  BY <1>8 DEF Due
<1>16. Stage = "verb" /\ EarlyApi(v) /\ Gated(v) /\ "method" \in server.at[v].flaws
         /\ Uncustomed => Reports("verb-bypass", v)
  BY <1>9 DEF Due
<1>17. Stage = "matrix" /\ EarlyApi(v) /\ Facts[v].id /\ "object" \in server.at[v].flaws
         /\ (\E h \in {"authorization", "cookie"} \intersect server.honours : Other[h] = "B")
         => Reports("bola", v)
  BY <1>10 DEF Due
<1> QED BY <1>11, <1>12, <1>13, <1>14, <1>15, <1>16, <1>17, Zenon

-----------------------------------------------------------------------------
(***************************************************************************)
(* Answers that were neither lost nor blocked.                             *)
(***************************************************************************)
\* What may be read is shown ...
LEMMA PageGiven ==
    ASSUME NEW r, NEW a, Plausible(r, a), a.is \notin {"lost", "block"},
           r.input \notin Copies, ~Registers(r), Reads(r), Owns(r)
    PROVE  Page(r, a)
BY DEF Plausible, Nothing, Overload, Refuses, Serves, Copied

\* ... at its full size, where it does not change by itself ...
LEMMA FullGiven ==
    ASSUME NEW r, NEW a, Plausible(r, a), a.is \notin {"lost", "block"},
           r.input = "own", r.method = "GET", Reads(r), Owns(r), Steady(r.url)
    PROVE  Full(a)
<1>1. r.input \notin Copies /\ ~Registers(r)
  BY DEF Copies, Registers
<1>2. Page(r, a)
  BY <1>1, PageGiven
<1>3. Sizes(r) = {20}
  BY DEF Sizes, Steady, Nature
<1> QED BY <1>2, <1>3 DEF Page, Full

\* ... and what may not is refused.
LEMMA RefusalGiven ==
    ASSUME NEW r, NEW a, Plausible(r, a), a.is \notin {"lost", "block"},
           r.input \notin Copies, ~Reads(r), Nature(r).refusal = "unauthorized"
    PROVE  a.st = 401
<1>1. Refuses(r, a)
  BY DEF Plausible, Nothing, Overload, Serves, Copied
<1> QED BY <1>1, RefusalIs

\* A's own request for A's own page.
LEMMA OwnPage ==
    ASSUME server \in Servers, me \in Sessions, alive, NEW v \in Urls, Exposed(v),
           NEW a, Plausible(Get(v, me), a), a.is \notin {"lost", "block"}
    PROVE  Full(a)
<1> DEFINE r == Get(v, me)
<1>1. r.url = v /\ r.who = me /\ r.input = "own" /\ r.method = "GET"
  BY Parts
<1> HIDE DEF r
<1>2. Reads(r)
  BY <1>1 DEF Exposed, Acts, Reads, Valid, Nature
<1>3. Owns(r)
  <2>1. OfA(me)
    BY Identities
  <2>2. r.input \notin {"nextid", "theirs"}
    BY <1>1
  <2> QED BY <1>1, <1>2, <2>1, <2>2, OwnsOwn
<1> QED BY <1>1, <1>2, <1>3, FullGiven DEF Exposed, r

\* The same page without A's credentials, where the token is what counts.
LEMMA OwnRefusal ==
    ASSUME server \in Servers, me \in Sessions, NEW v \in Urls, Gated(v), Uncustomed,
           NEW r, r.url = v, r.who = NoAuth(me), r.input = "own", r.method = "GET",
           NEW a, Plausible(r, a), a.is \notin {"lost", "block"}
    PROVE  a.st = 401
<1>1. r.url = v /\ r.who = NoAuth(me) /\ r.input = "own" /\ r.method = "GET"
  OBVIOUS
<1>2. server.honours \subseteq Headers
  BY DepthAssumption
<1>3. \A h \in server.honours : NoAuth(me)[h] = "none"
  BY <1>2 DEF NoAuth, Without, Headers, Sessions, Uncustomed
<1>4. ~Reads(r)
  BY <1>1, <1>3 DEF Reads, Bypasses, Valid, Gated, Nature
<1>5. r.input \notin Copies
  BY <1>1 DEF Copies
<1> QED BY <1>1, <1>4, <1>5, RefusalGiven DEF Gated, Nature

\* Two such pages are the same to a stage that compares them.
LEMMA FullsAreSimilar ==
    ASSUME NEW a, NEW b, Full(a), Full(b)
    PROVE  Heard(a) /\ Served(a) /\ a.size > 0 /\ Similar(a, b)
BY DEF Full, Heard, Served, Similar, Abs

-----------------------------------------------------------------------------
(***************************************************************************)
(* Each stage says what it owes.                                           *)
(***************************************************************************)
\* The last answer, among those heard.
LEMMA LastHeard ==
    ASSUME NEW u, NEW g, NEW a, NEW h, Step(u, g, a, h), Honest(h)
    PROVE  /\ Len(g) \in Nat /\ Len(h) = Len(g) + 1 /\ h[Len(h)] = a /\ h # <<>>
           /\ \A i \in 1 .. Len(g) : h[i] = g[i]
           /\ a.is \notin {"lost", "block"} /\ Plausible(Turn(u, g).ask[1], a)
           /\ server \in Servers /\ me \in Sessions /\ u.url \in Urls
           /\ Turn(u, g).ask # <<>>
<1>1. /\ Len(g) \in Nat /\ Len(h) = Len(g) + 1 /\ h[Len(g) + 1] = a /\ h # <<>>
      /\ \A i \in 1 .. Len(g) : h[i] = g[i]
      /\ Plausible(Turn(u, g).ask[1], a) /\ Turn(u, g).ask # <<>>
      /\ server \in Servers /\ me \in Sessions /\ u.url \in Urls
  BY DEF Step
<1>2. Len(h) \in 1 .. Len(h)
  BY <1>1
<1>3. h[Len(h)] = a
  BY <1>1
<1>4. a.is \notin {"lost", "block"}
  BY <1>2, <1>3 DEF Honest
<1> QED BY <1>1, <1>3, <1>4

\* What is owed to each stage's units.
LEMMA DueIs ==
    ASSUME NEW x, NEW v, Due(x, v)
    PROVE  LET n == server.at[v]
           IN  /\ Stage \in {"api-authz", "api-exposure", "authz", "jwt", "verb", "matrix"}
               /\ Stage = "api-authz" =>
                    /\ x = "bola-write" /\ Edit(v) /\ "object" \in n.flaws
                    /\ (\E w \in Urls : List(w) /\ Acts(w)) /\ ~Displaced
               /\ Stage = "api-exposure" =>
                    /\ x = "exposed" /\ me["cookie"] = "none"
                    /\ n.guard = "open" /\ "records" \in n.habits
                    /\ EarlyPage(v)
               /\ Stage \in {"authz", "jwt", "verb", "matrix"} => EarlyApi(v)
               /\ Stage = "authz" =>
                    \/ x = "broken-auth" /\ n.guard = "open"
                    \/ /\ x = "broken-token-validation" /\ n.guard = "locked"
                       /\ "token" \in n.flaws /\ AuthHeader(me) \in server.honours
               /\ Stage = "jwt" =>
                    /\ x = "jwt-forged" /\ "token" \in n.flaws
                    /\ "authorization" \in server.honours /\ Gated(v) /\ Uncustomed
                    /\ \A w \in Urls \ {v} : Api(w) => ~Gated(w)
               /\ Stage = "verb" =>
                    x = "verb-bypass" /\ Gated(v) /\ "method" \in n.flaws /\ Uncustomed
               /\ Stage = "matrix" =>
                    /\ x = "bola" /\ Facts[v].id /\ "object" \in n.flaws
                    /\ \E h \in {"authorization", "cookie"} \intersect server.honours :
                         Other[h] = "B"
<1>1. Stage \in {"api-authz", "api-exposure", "authz", "jwt", "verb", "matrix"}
  BY DEF Due
<1>2. CASE Stage = "api-authz"
  BY <1>2 DEF Due
<1>3. CASE Stage = "api-exposure"
  BY <1>3 DEF Due
<1>4. CASE Stage = "authz"
  BY <1>4 DEF Due
<1>5. CASE Stage = "jwt"
  BY <1>5 DEF Due
<1>6. CASE Stage = "verb"
  BY <1>6 DEF Due
<1>7. CASE Stage = "matrix"
  BY <1>7 DEF Due
<1> QED BY <1>1, <1>2, <1>3, <1>4, <1>5, <1>6, <1>7

\* A turn is over only where it says so.
LEMMA Overs ==
    /\ Skip.over = FALSE
    /\ \A r : Ask(r).over = FALSE
    /\ \A x : Report(x).over = FALSE
    /\ \A x, r : ReportAndAsk(x, r).over = FALSE
BY DEF Skip, Ask, Report, ReportAndAsk

LEMMA ApiExposureIsFaithful ==
    ASSUME NEW u, NEW g, NEW a, NEW h, Step(u, g, a, h), Stage = "api-exposure", alive,
           ToldOf(u, g), Honest(h)
    PROVE  Faithful(u, h)
<1>1. /\ Turn(u, g) = ApiExposure(u, g, me) /\ Turn(u, h) = ApiExposure(u, h, me)
      /\ Turn(u, g).ask # <<>> /\ h # <<>>
  BY TurnIs DEF Step
<1>2. g = <<>> /\ Turn(u, g) = Ask(Get(u.url, CookieOnly(me)))
  <2>1. g # <<>> => \E x : ApiExposure(u, g, me) = Report(x)
    BY DEF ApiExposure
  <2>2. g = <<>> => ApiExposure(u, g, me) = Ask(Get(u.url, CookieOnly(me)))
    BY DEF ApiExposure
  <2> QED BY <1>1, <2>1, <2>2, Forms
<1>3. h[1] = a /\ a.is \notin {"lost", "block"}
  <2>1. Len(g) = 0
    BY <1>2 DEF Step
  <2>2. Len(h) = Len(g) + 1 /\ h[Len(h)] = a /\ a.is \notin {"lost", "block"}
    BY LastHeard
  <2>3. Len(h) = 1
    BY <2>1, <2>2
  <2> QED BY <2>2, <2>3
<1> DEFINE r == Get(u.url, CookieOnly(me))
<1>4. Plausible(r, a)
  BY <1>2, Forms DEF Step
<1>5. r.url = u.url /\ r.input = "own" /\ r.method = "GET"
  BY Parts
<1> HIDE DEF r
<1>6. ASSUME NEW x \in Dues, Owes(x, u)
      PROVE  Said(x, u, h)
  <2>1. /\ x = "exposed" /\ me["cookie"] = "none"
        /\ Nature(r).guard = "open" /\ "records" \in server.at[u.url].habits
    BY <1>5, <1>6, DueIs DEF Owes, Nature
  <2>2. Reads(r) /\ Owns(r) /\ r.input \notin Copies /\ ~Registers(r)
    BY <1>5, <2>1 DEF Reads, Owns, Copies, Registers
  <2>3. Page(r, a)
    BY <1>3, <1>4, <2>2, PageGiven
  <2>4. "records" \in Standing(u.url)
    BY <2>1 DEF Standing
  <2>5. a.st = 200 /\ "records" \in a.marks
    BY <1>5, <2>3, <2>4 DEF Page
  <2>6. Done2xx(h[1]) /\ {"records", "well-formed"} \intersect h[1].marks # {}
    BY <1>3, <2>5 DEF Done2xx
  <2>7. Turn(u, h) = Report({"exposed"})
    BY <1>1, <2>1, <2>6 DEF ApiExposure, If
  <2> QED BY <2>1, <2>7, Forms DEF Said, Meets
<1>7. Turn(u, h).over = FALSE /\ Turn(u, h).ask = <<>>
  <2>1. \E x : ApiExposure(u, h, me) = Report(x)
    BY <1>1 DEF ApiExposure
  <2> QED BY <1>1, <2>1, Forms, Overs
<1> QED BY <1>6, <1>7 DEF Faithful

LEMMA MatrixIsFaithful ==
    ASSUME NEW u, NEW g, NEW a, NEW h, Step(u, g, a, h), Stage = "matrix", alive,
           ToldOf(u, g), Honest(h)
    PROVE  Faithful(u, h)
<1>1. Turn(u, g) = Matrix(u, g, me, Other) /\ Turn(u, h) = Matrix(u, h, me, Other)
  BY TurnIs
<1>2. /\ Len(g) \in Nat /\ Len(h) = Len(g) + 1 /\ h[Len(h)] = a /\ h # <<>>
      /\ \A i \in 1 .. Len(g) : h[i] = g[i]
      /\ a.is \notin {"lost", "block"} /\ Plausible(Turn(u, g).ask[1], a)
      /\ server \in Servers /\ me \in Sessions /\ u.url \in Urls
      /\ Turn(u, g).ask # <<>>
  BY LastHeard
<1>3. Turn(u, h).over = FALSE
  BY <1>1, Overs DEF Matrix
<1>4. CASE Len(g) = 0
  <2>1. Turn(u, g).ask[1] = Get(u.url, me)
    BY <1>1, <1>4, Forms DEF Matrix
  <2>2. Len(h) = 1 /\ h[1] = a
    BY <1>2, <1>4
  <2>3. Exposed(u.url) => Full(h[1])
    BY <1>2, <2>1, <2>2, OwnPage
  <2>4. Learned(u, h)
    BY <2>2, <2>3 DEF Learned
  <2>5. Exposed(u.url) => Turn(u, h).ask # <<>>
    <3> SUFFICES ASSUME Exposed(u.url) PROVE Turn(u, h).ask # <<>>
      OBVIOUS
    <3>1. Served(h[1]) /\ h[1].size > 0
      BY <2>3, FullsAreSimilar
    <3>2. Turn(u, h) = Ask(Get(u.url, AsOther(me, Other)))
      BY <1>1, <2>2, <3>1 DEF Matrix
    <3> QED BY <3>2, Forms
  <2> QED BY <1>3, <2>2, <2>4, <2>5 DEF Faithful, Owes, GoingOn
<1>5. CASE Len(g) = 1
  <2> DEFINE r == Get(u.url, AsOther(me, Other))
  <2>1. Turn(u, g).ask[1] = r
    BY <1>1, <1>2, <1>5, Forms DEF Matrix
  <2>2. Len(h) = 2 /\ h[1] = g[1] /\ h[2] = a
    BY <1>2, <1>5
  <2>3. /\ Plausible(r, a) /\ r.url = u.url /\ r.who = AsOther(me, Other)
        /\ r.input = "own" /\ r.method = "GET"
    BY <1>2, <2>1, Parts
  <2> HIDE DEF r
  <2>4. \E x : Turn(u, h) = Report(x)
    <3>1. Len(h) # 0 /\ Len(h) # 1
      BY <2>2
    <3>2. \E x : Matrix(u, h, me, Other) = Report(x)
      BY <3>1 DEF Matrix
    <3> QED BY <1>1, <3>2
  <2>5. ASSUME NEW x \in Dues, Owes(x, u)
        PROVE  Said(x, u, h)
    <3>1. /\ x = "bola" /\ "object" \in Nature(r).flaws /\ Exposed(u.url)
          /\ \E k \in {"authorization", "cookie"} \intersect server.honours : Other[k] = "B"
      BY <2>3, <2>5, DueIs DEF Owes, Nature
    <3>2. Full(h[1])
      BY <1>5, <2>2, <3>1 DEF ToldOf, Learned
    <3>3. PICK k \in {"authorization", "cookie"} \intersect server.honours : Other[k] = "B"
      BY <3>1
    <3>4. AsOther(me, Other)[k] = "B"
      BY <3>3 DEF AsOther, NoAuth, Without, Headers
    <3>5. Reads(r) /\ Owns(r)
      BY <2>3, <3>1, <3>3, <3>4 DEF Reads, Valid, Owns
    <3>6. Full(a)
      BY <1>2, <2>3, <3>1, <3>5, FullGiven DEF Exposed
    <3>7. Served(h[2]) /\ h[2].size > 0 /\ Similar(h[2], h[1])
      BY <2>2, <3>2, <3>6, FullsAreSimilar
    <3>8. Turn(u, h) = Report({"bola"})
      BY <1>1, <2>2, <3>7 DEF Matrix, If
    <3> QED BY <3>1, <3>8, Forms DEF Said, Meets
  <2> QED BY <1>3, <2>4, <2>5, Forms DEF Faithful
<1>6. Len(g) = 0 \/ Len(g) = 1
  <2>1. Len(g) # 0 /\ Len(g) # 1 => \E x : Matrix(u, g, me, Other) = Report(x)
    BY DEF Matrix
  <2> QED BY <1>1, <1>2, <2>1, Forms
<1> QED BY <1>4, <1>5, <1>6

\* What run_authz does after each answer.
LEMMA AuthzForms ==
    ASSUME NEW u, NEW g, Len(g) \in Nat
    PROVE  LET Leaks(a) == Served(a) /\ Similar(a, g[1])
               t == Authz(u, g, me)
           IN  /\ Len(g) = 0 => t = Ask(Get(u.url, me))
               /\ Len(g) = 1 /\ Served(g[1]) => t = Ask(Get(u.url, Bare(me)))
               /\ Len(g) = 1 /\ ~Served(g[1]) => t = Skip
               /\ Len(g) = 2 /\ Leaks(g[2]) => t = Report({"broken-auth"})
               /\ Len(g) = 2 /\ ~Leaks(g[2]) =>
                    t = Ask(Get(u.url, With(Bare(me), AuthHeader(me), "bogus")))
               /\ Len(g) = 3 /\ Leaks(g[3]) =>
                    \/ t = Report({"broken-token-validation"})
                    \/ \E r : t = ReportAndAsk({"broken-token-validation"}, r)
               /\ Len(g) > 3 => \E x : t = Report(x)
<1>1. Len(g) = 0 => Authz(u, g, me) = Ask(Get(u.url, me))
  BY DEF Authz
<1>2. Len(g) = 1 => Authz(u, g, me) = IF Served(g[1]) THEN Ask(Get(u.url, Bare(me))) ELSE Skip
  BY DEF Authz
<1>3. Len(g) = 2 =>
        Authz(u, g, me) = IF Served(g[2]) /\ Similar(g[2], g[1]) THEN Report({"broken-auth"})
                          ELSE Ask(Get(u.url, With(Bare(me), AuthHeader(me), "bogus")))
  BY DEF Authz
<1>4. Len(g) = 3 =>
        LET bad == If(Served(g[3]) /\ Similar(g[3], g[1]), "broken-token-validation")
        IN  Authz(u, g, me) = IF u.id THEN ReportAndAsk(bad, Put(u.url, me, "nextid"))
                              ELSE Report(bad)
  BY DEF Authz
<1>5. Len(g) > 3 => \E x : Authz(u, g, me) = Report(x)
  <2>1. Len(g) > 3 => Len(g) # 0 /\ Len(g) # 1 /\ Len(g) # 2 /\ Len(g) # 3
    <3>1. \A m \in Nat : m > 3 => m # 0 /\ m # 1 /\ m # 2 /\ m # 3
      OBVIOUS
    <3> QED BY <3>1
  <2>2. Len(g) # 0 /\ Len(g) # 1 /\ Len(g) # 2 /\ Len(g) # 3 =>
          \E x : Authz(u, g, me) = Report(x)
    BY DEF Authz
  <2> QED BY <2>1, <2>2
<1>6. Len(g) = 3 /\ Served(g[3]) /\ Similar(g[3], g[1]) =>
        \/ Authz(u, g, me) = Report({"broken-token-validation"})
        \/ \E r : Authz(u, g, me) = ReportAndAsk({"broken-token-validation"}, r)
  BY <1>4 DEF If
<1> QED BY <1>1, <1>2, <1>3, <1>5, <1>6

\* A bogus token is good enough for a server that checks none.
LEMMA BogusReads ==
    ASSUME server \in Servers, NEW v \in Urls, "token" \in server.at[v].flaws,
           AuthHeader(me) \in server.honours, NEW r, r.url = v, r.input = "own",
           r.who = With(Bare(me), AuthHeader(me), "bogus")
    PROVE  Reads(r) /\ Owns(r)
<1>1. AuthHeader(me) \in Headers
  BY DEF AuthHeader, Headers
<1>2. r.who[AuthHeader(me)] = "bogus"
  BY <1>1 DEF With, Bare, Without
<1> QED BY <1>2 DEF Reads, Valid, Owns, Nature

LEMMA AuthzIsFaithful ==
    ASSUME NEW u, NEW g, NEW a, NEW h, Step(u, g, a, h), Stage = "authz", alive,
           ToldOf(u, g), Honest(h)
    PROVE  Faithful(u, h)
<1> DEFINE n == server.at[u.url]
           bogus == With(Bare(me), AuthHeader(me), "bogus")
<1>1. Turn(u, g) = Authz(u, g, me) /\ Turn(u, h) = Authz(u, h, me)
  BY TurnIs
<1>2. /\ Len(g) \in Nat /\ Len(h) = Len(g) + 1 /\ h[Len(h)] = a /\ h # <<>>
      /\ \A i \in 1 .. Len(g) : h[i] = g[i]
      /\ a.is \notin {"lost", "block"} /\ Plausible(Turn(u, g).ask[1], a)
      /\ server \in Servers /\ me \in Sessions /\ u.url \in Urls
      /\ Turn(u, g).ask # <<>>
  BY LastHeard
<1>3. Turn(u, h).over = FALSE
  BY <1>1, Overs DEF Authz
<1>4. Len(h) \in Nat
  BY <1>2
<1>5. ASSUME NEW x, Owes(x, u)
      PROVE  /\ Exposed(u.url)
             /\ \/ x = "broken-auth" /\ n.guard = "open"
                \/ /\ x = "broken-token-validation" /\ n.guard = "locked"
                   /\ "token" \in n.flaws /\ AuthHeader(me) \in server.honours
  BY <1>5, DueIs DEF Owes
<1> HIDE DEF n, bogus
<1>6. CASE Len(g) = 0
  <2>1. Turn(u, g).ask[1] = Get(u.url, me)
    BY <1>1, <1>6, AuthzForms, Forms
  <2>2. Len(h) = 1 /\ h[1] = a
    BY <1>2, <1>6
  <2>3. Exposed(u.url) => Full(h[1])
    BY <1>2, <2>1, <2>2, OwnPage
  <2>4. Learned(u, h)
    BY <2>2, <2>3 DEF Learned
  <2>5. Exposed(u.url) => Turn(u, h).ask # <<>>
    <3>1. Exposed(u.url) => Served(h[1])
      BY <2>3, FullsAreSimilar
    <3>2. Exposed(u.url) => Turn(u, h) = Ask(Get(u.url, Bare(me)))
      BY <1>1, <1>4, <2>2, <3>1, AuthzForms
    <3> QED BY <3>2, Forms
  <2> QED BY <1>3, <2>2, <2>4, <2>5 DEF Faithful, Telling, Owes
<1>7. CASE Len(g) = 1
  <2> DEFINE r == Get(u.url, Bare(me))
  <2>1. Turn(u, g).ask[1] = r
    BY <1>1, <1>2, <1>7, AuthzForms, Forms
  <2>2. Len(h) = 2 /\ h[1] = g[1] /\ h[2] = a
    BY <1>2, <1>7
  <2>3. Plausible(r, a) /\ r.url = u.url /\ r.input = "own" /\ r.method = "GET"
    BY <1>2, <2>1, Parts
  <2> HIDE DEF r
  <2>4. Exposed(u.url) => Full(h[1])
    BY <1>7, <2>2 DEF ToldOf, Learned
  <2>5. ASSUME Exposed(u.url), n.guard = "open"
        PROVE  Turn(u, h) = Report({"broken-auth"})
    <3>1. Reads(r) /\ Owns(r)
      BY <2>3, <2>5 DEF Reads, Owns, Nature, n
    <3>2. Full(a)
      BY <1>2, <2>3, <2>5, <3>1, FullGiven DEF Exposed
    <3>3. Served(h[2]) /\ Similar(h[2], h[1])
      BY <2>2, <2>4, <2>5, <3>2, FullsAreSimilar
    <3> QED BY <1>1, <1>4, <2>2, <3>3, AuthzForms
  <2>6. Turn(u, h).ask # <<>> => Learned(u, h)
    BY <2>2, <2>4, <2>5, Forms DEF Learned, n
  <2>7. \/ Turn(u, h) = Report({"broken-auth"})
        \/ Turn(u, h).ask # <<>>
    BY <1>1, <1>4, <2>2, AuthzForms, Forms
  <2>8. ASSUME NEW x, Owes(x, u), Turn(u, h) = Report({"broken-auth"})
        PROVE  Said(x, u, h)
    <3>1. "broken-auth" \in Turn(u, h).say
      BY <2>8, Forms
    <3>2. x = "broken-auth" \/ x = "broken-token-validation"
      BY <1>5, <2>8
    <3> QED BY <3>1, <3>2 DEF Said, Meets
  <2> QED BY <1>3, <2>2, <2>6, <2>7, <2>8 DEF Faithful, Telling
<1>8. CASE Len(g) = 2
  <2> DEFINE r == Get(u.url, bogus)
  <2>1. Turn(u, g).ask[1] = r
    BY <1>1, <1>2, <1>8, AuthzForms, Forms DEF bogus
  <2>2. Len(h) = 3 /\ h[1] = g[1] /\ h[3] = a
    BY <1>2, <1>8
  <2>3. Plausible(r, a) /\ r.url = u.url /\ r.who = bogus /\ r.input = "own" /\ r.method = "GET"
    BY <1>2, <2>1, Parts
  <2> HIDE DEF r
  <2>4. Exposed(u.url) => Full(h[1]) /\ n.guard # "open"
    BY <1>8, <2>2 DEF ToldOf, Learned, n
  <2>5. Learned(u, h)
    BY <2>2, <2>4 DEF Learned, n
  <2>6. ASSUME NEW x, Owes(x, u)
        PROVE  Said(x, u, h)
    <3>1. /\ x = "broken-token-validation" /\ "token" \in n.flaws
          /\ AuthHeader(me) \in server.honours /\ Exposed(u.url)
      BY <1>5, <2>4, <2>6
    <3>2. Reads(r) /\ Owns(r)
      BY <1>2, <2>3, <3>1, BogusReads DEF n, bogus
    <3>3. Full(a)
      BY <1>2, <2>3, <3>1, <3>2, FullGiven DEF Exposed
    <3>4. Served(h[3]) /\ Similar(h[3], h[1])
      BY <2>2, <2>4, <3>1, <3>3, FullsAreSimilar
    <3>5. \/ Turn(u, h) = Report({"broken-token-validation"})
          \/ \E y : Turn(u, h) = ReportAndAsk({"broken-token-validation"}, y)
      BY <1>1, <1>4, <2>2, <3>4, AuthzForms
    <3>6. Turn(u, h).say = {"broken-token-validation"}
      BY <3>5, Forms
    <3> QED BY <3>1, <3>6 DEF Said, Meets
  <2> QED BY <1>3, <2>5, <2>6 DEF Faithful, Telling
<1>9. CASE Len(g) > 2
  <2>1. Len(g) >= 3 /\ Len(h) > 3
    BY <1>2, <1>9
  <2>2. \A x \in Dues : Owes(x, u) => Shown(x, u.url, found)
    BY <2>1 DEF ToldOf, GoingOn, Telling
  <2>3. \E x : Turn(u, h) = Report(x)
    BY <1>1, <1>4, <2>1, AuthzForms
  <2> QED BY <1>3, <2>2, <2>3, Forms DEF Faithful, Telling
<1>10. Len(g) = 0 \/ Len(g) = 1 \/ Len(g) = 2 \/ Len(g) > 2
  <2>1. \A m \in Nat : m = 0 \/ m = 1 \/ m = 2 \/ m > 2
    OBVIOUS
  <2> QED BY <1>2, <2>1
<1> QED BY <1>6, <1>7, <1>8, <1>9, <1>10

\* run_verb_tampering goes on where the session was served and the bare request
\* was denied.
LEMMA VerbGoesOn ==
    ASSUME NEW u, NEW g, Len(g) \in Nat
    PROVE  LET t == Verb(u, g, me)
           IN  /\ Len(g) = 1 /\ Heard(g[1]) => t = Ask(Get(u.url, NoAuth(me)))
               /\ Len(g) = 2 /\ Heard(g[2]) /\ Served(g[1]) /\ Denied(g[2]) =>
                    t = Ask([Get(u.url, NoAuth(me)) EXCEPT !.method = "GET"])
               /\ t.over = FALSE
<1>1. Len(g) = 1 /\ Heard(g[1]) => Verb(u, g, me) = Ask(Get(u.url, NoAuth(me)))
  BY DEF Verb
<1>2. Len(g) = 2 /\ Heard(g[2]) /\ Served(g[1]) /\ Denied(g[2]) =>
        Verb(u, g, me) = Ask([Get(u.url, NoAuth(me)) EXCEPT !.method = "GET"])
  BY DEF Verb, Denied
<1>3. Verb(u, g, me).over = FALSE
  <2> DEFINE n == Len(g)
             t == Verb(u, g, me)
             shut == Denied(g[2])
             body == Served(g[3]) /\ g[3].size > 0
             Usual == \/ t = Skip
                      \/ \E r : t = Ask(r)
                      \/ \E x : t = Report(x)
                      \/ \E x, r : t = ReportAndAsk(x, r)
  <2>1. n = 0 => Usual
    BY VerbForms
  <2>2. n = 1 => Usual
    BY VerbForms
  <2>3. n = 2 => Usual
    BY VerbForms
  <2>4. n = 3 => Usual
    BY VerbForms
  <2>5. n = 4 => Usual
    BY VerbForms
  <2>6. n > 4 => Usual
    BY VerbForms
  <2>7. n = 0 \/ n = 1 \/ n = 2 \/ n = 3 \/ n = 4 \/ n > 4
    <3>1. \A m \in Nat : m = 0 \/ m = 1 \/ m = 2 \/ m = 3 \/ m = 4 \/ m > 4
      OBVIOUS
    <3> QED BY <3>1
  <2>8. Usual
    BY <2>1, <2>2, <2>3, <2>4, <2>5, <2>6, <2>7
  <2> QED BY <2>8, Overs
<1> QED BY <1>1, <1>2, <1>3

LEMMA VerbIsFaithful ==
    ASSUME NEW u, NEW g, NEW a, NEW h, Step(u, g, a, h), Stage = "verb", alive,
           ToldOf(u, g), Honest(h)
    PROVE  Faithful(u, h)
<1> DEFINE n == server.at[u.url]
           Of1 == Exposed(u.url) /\ Gated(u.url) /\ Uncustomed
<1>1. Turn(u, g) = Verb(u, g, me) /\ Turn(u, h) = Verb(u, h, me)
  BY TurnIs
<1>2. /\ Len(g) \in Nat /\ Len(h) = Len(g) + 1 /\ h[Len(h)] = a /\ h # <<>>
      /\ \A i \in 1 .. Len(g) : h[i] = g[i]
      /\ a.is \notin {"lost", "block"} /\ Plausible(Turn(u, g).ask[1], a)
      /\ server \in Servers /\ me \in Sessions /\ u.url \in Urls
      /\ Turn(u, g).ask # <<>>
  BY LastHeard
<1>3. Len(h) \in Nat
  BY <1>2
<1>4. Turn(u, h).over = FALSE
  BY <1>1, <1>3, VerbGoesOn
<1>5. ASSUME NEW x, Owes(x, u)
      PROVE  x = "verb-bypass" /\ Of1 /\ "method" \in n.flaws
  BY <1>5, DueIs DEF Owes
<1>11. Telling = 4
  BY DEF Telling
<1> HIDE DEF n
<1>6. CASE Len(g) = 0
  <2>1. Turn(u, g).ask[1] = Get(u.url, me)
    <3>1. Turn(u, g) = Ask(Get(u.url, me))
      BY <1>1, <1>2, <1>6, VerbForms
    <3> QED BY <3>1, Forms
  <2>2. Len(h) = 1 /\ h[1] = a
    BY <1>2, <1>6
  <2>3. Exposed(u.url) => Full(h[1])
    BY <1>2, <2>1, <2>2, OwnPage
  <2>4. Learned(u, h)
    BY <2>2, <2>3 DEF Learned
  <2>5. Exposed(u.url) => Turn(u, h).ask # <<>>
    <3>1. Exposed(u.url) => Heard(h[1])
      BY <2>3, FullsAreSimilar
    <3>2. Exposed(u.url) => Turn(u, h) = Ask(Get(u.url, NoAuth(me)))
      BY <1>1, <1>3, <2>2, <3>1, VerbGoesOn
    <3> QED BY <3>2, Forms
  <2> QED BY <1>4, <1>11, <2>2, <2>4, <2>5 DEF Faithful, Owes
<1>7. CASE Len(g) = 1
  <2> DEFINE r == Get(u.url, NoAuth(me))
  <2>1. Turn(u, g).ask[1] = r
    <3>1. Turn(u, g) = Skip \/ Turn(u, g) = Ask(r)
      BY <1>1, <1>2, <1>7, VerbForms
    <3> QED BY <1>2, <3>1, Forms
  <2>2. Len(h) = 2 /\ h[1] = g[1] /\ h[2] = a
    BY <1>2, <1>7
  <2>3. Of1 => a.st = 401
    <3>1. r.url = u.url /\ r.who = NoAuth(me) /\ r.input = "own" /\ r.method = "GET"
      BY Parts
    <3> HIDE DEF r
    <3> QED BY <1>2, <2>1, <3>1, OwnRefusal
  <2>4. Exposed(u.url) => Full(h[1])
    BY <1>7, <2>2 DEF ToldOf, Learned
  <2>5. Learned(u, h)
    BY <2>2, <2>3, <2>4 DEF Learned
  <2>6. Of1 => Turn(u, h).ask # <<>>
    <3>1. Of1 => Heard(h[2]) /\ Served(h[1]) /\ Denied(h[2])
      BY <2>2, <2>3, <2>4, FullsAreSimilar DEF Heard, Denied
    <3>2. Of1 => Turn(u, h) = Ask([Get(u.url, NoAuth(me)) EXCEPT !.method = "GET"])
      BY <1>1, <1>3, <2>2, <3>1, VerbGoesOn
    <3> QED BY <3>2, Forms
  <2> QED BY <1>4, <1>5, <1>11, <2>2, <2>5, <2>6 DEF Faithful
<1>8. CASE Len(g) = 2
  <2> DEFINE r == [Get(u.url, NoAuth(me)) EXCEPT !.method = "GET"]
  <2>1. Len(h) = 3 /\ h[1] = g[1] /\ h[2] = g[2] /\ h[3] = a
    BY <1>2, <1>8
  <2>2. Learned(u, g)
    BY DEF ToldOf
  <2>3. Of1 => Turn(u, g).ask[1] = r
    <3>1. Of1 => Denied(g[2])
      BY <1>8, <2>2 DEF Learned, Denied
    <3>2. Of1 => Turn(u, g) = Skip \/ Turn(u, g) = Ask(r)
      BY <1>1, <1>2, <1>8, <3>1, VerbForms
    <3> QED BY <1>2, <3>2, Forms
  <2>4. Of1 => a.st = 401
    <3>1. r.url = u.url /\ r.who = NoAuth(me) /\ r.input = "own" /\ r.method = "GET"
      BY Parts
    <3> HIDE DEF r
    <3> QED BY <1>2, <2>3, <3>1, OwnRefusal
  <2>5. Learned(u, h)
    BY <1>8, <2>1, <2>2, <2>4 DEF Learned
  <2>6. Of1 => Turn(u, h).ask # <<>>
    <3>1. Of1 => Denied(h[2]) /\ ~Served(h[3])
      BY <1>8, <2>1, <2>2, <2>4 DEF Learned, Denied, Served
    <3>2. Of1 => \E y : Turn(u, h) = Ask(y)
      BY <1>1, <1>3, <2>1, <3>1, VerbForms
    <3> QED BY <3>2, Forms
  <2> QED BY <1>4, <1>5, <1>11, <2>1, <2>5, <2>6 DEF Faithful
<1>12. CASE Len(g) = 3
  <2> DEFINE r == [Get(u.url, NoAuth(me)) EXCEPT !.method = "HEAD"]
  <2>1. Len(h) = 4 /\ h[1] = g[1] /\ h[2] = g[2] /\ h[3] = g[3] /\ h[4] = a
    BY <1>2, <1>12
  <2>2. Learned(u, g)
    BY DEF ToldOf
  <2>3. Learned(u, h)
    BY <1>12, <2>1, <2>2 DEF Learned
  <2>4. ASSUME NEW x, Owes(x, u)
        PROVE  Said(x, u, h)
    <3>1. x = "verb-bypass" /\ Of1 /\ "method" \in n.flaws
      BY <1>5, <2>4
    <3>2. Denied(g[2]) /\ ~Served(g[3])
      BY <1>12, <2>2, <3>1 DEF Learned, Denied, Served
    <3>3. Turn(u, g) = Ask(r)
      BY <1>1, <1>2, <1>12, <3>2, VerbForms
    <3>4. Turn(u, g).ask[1] = r
      BY <3>3, Forms
    <3>5. Plausible(r, a) /\ r.url = u.url /\ r.input = "own" /\ r.method = "HEAD"
      BY <1>2, <3>4, Parts
    <3> HIDE DEF r
    <3>6. Reads(r) /\ Owns(r) /\ r.input \notin Copies /\ ~Registers(r)
      BY <3>1, <3>5 DEF Reads, Owns, Bypasses, Nature, n, Copies, Registers
    <3>7. a.st = 200
      BY <1>2, <3>5, <3>6, PageGiven DEF Page
    <3>8. Served(h[4]) /\ Denied(h[2]) /\ ~Served(h[3])
      <4>1. 200 \in 1 .. 399
        OBVIOUS
      <4> QED BY <2>1, <3>2, <3>7, <4>1 DEF Served
    <3>9. \E y : Turn(u, h) = ReportAndAsk(If(Served(h[3]) \/ Served(h[4]), "verb-bypass"), y)
      BY <1>1, <1>3, <2>1, <3>8, VerbForms
    <3>10. Turn(u, h).say = {"verb-bypass"}
      <4>1. If(Served(h[3]) \/ Served(h[4]), "verb-bypass") = {"verb-bypass"}
        BY <3>8 DEF If
      <4> QED BY <3>9, <4>1, Forms
    <3> QED BY <3>1, <3>10 DEF Said, Meets
  <2> QED BY <1>4, <2>3, <2>4 DEF Faithful
<1>9. CASE Len(g) > 3
  <2>1. /\ Len(g) >= 4 /\ h[1] = g[1] /\ h[2] = g[2] /\ h[3] = g[3]
        /\ Len(h) >= 4
    BY <1>2, <1>9
  <2>2. \A x \in Dues : Owes(x, u) => Shown(x, u.url, found)
    BY <1>11, <2>1 DEF ToldOf, GoingOn
  <2>3. Learned(u, h)
    <3>1. Learned(u, g) /\ Len(g) >= 1 /\ Len(g) >= 2 /\ Len(g) >= 3
      BY <1>2, <2>1 DEF ToldOf
    <3> QED BY <2>1, <3>1 DEF Learned
  <2> QED BY <1>4, <2>2, <2>3 DEF Faithful
<1>10. Len(g) = 0 \/ Len(g) = 1 \/ Len(g) = 2 \/ Len(g) = 3 \/ Len(g) > 3
  <2>1. \A m \in Nat : m = 0 \/ m = 1 \/ m = 2 \/ m = 3 \/ m > 3
    OBVIOUS
  <2> QED BY <1>2, <2>1
<1> QED BY <1>6, <1>7, <1>8, <1>9, <1>10, <1>12

-----------------------------------------------------------------------------
\* The first forgery is the one without an algorithm.
LEMMA FirstForgery ==
    ASSUME NEW weak
    PROVE  Forgeries(weak)[1] = "alg-none"
<1>1. Forgeries(weak) \in {<<"alg-none", "stripped", "tampered", "kid">> \o <<"minted">>,
                           <<"alg-none", "stripped", "tampered", "kid">> \o <<>>}
  BY DEF Forgeries
<1> QED BY <1>1

\* run_jwt_attacks goes on where the session was served and the bare request
\* was denied.
LEMMA JwtGoesOn ==
    ASSUME NEW u, NEW g, NEW weak
    PROVE  LET t == Jwt(u, g, me, weak)
           IN  /\ Len(g) = 0 => t = Ask(Get(u.url, me))
               /\ Len(g) = 1 => t = IF g[1].st = 200 /\ g[1].size > 0
                                    THEN Ask(Get(u.url, NoAuth(me))) ELSE Skip
               /\ Len(g) = 2 => t = IF Denied(g[2])
                                    THEN Ask(Get(u.url, With(me, "authorization", "alg-none")))
                                    ELSE Skip
<1>1. Len(g) = 0 => Jwt(u, g, me, weak) = Ask(Get(u.url, me))
  BY DEF Jwt
<1>2. Len(g) = 1 => Jwt(u, g, me, weak) = IF g[1].st = 200 /\ g[1].size > 0
                                          THEN Ask(Get(u.url, NoAuth(me))) ELSE Skip
  BY DEF Jwt
<1>3. Len(g) = 2 =>
        Jwt(u, g, me, weak) = IF Denied(g[2])
                              THEN Ask(Get(u.url, With(me, "authorization", "alg-none")))
                              ELSE Skip
  <2>1. Len(g) = 2 =>
          Jwt(u, g, me, weak) =
            IF IsOracle(g)
            THEN Ask(Get(u.url, With(me, "authorization", Forgeries(weak)[1]))) ELSE Skip
    BY DEF Jwt
  <2> QED BY <2>1, FirstForgery DEF IsOracle, Denied
<1> QED BY <1>1, <1>2, <1>3

LEMMA JwtIsFaithful ==
    ASSUME NEW u, NEW g, NEW a, NEW h, Step(u, g, a, h), Stage = "jwt", alive,
           ToldOf(u, g), Honest(h)
    PROVE  Faithful(u, h)
<1> DEFINE n == server.at[u.url]
           weak == server.weak
           Of1 == Exposed(u.url) /\ Gated(u.url) /\ Uncustomed
           none == With(me, "authorization", "alg-none")
<1>1. Turn(u, g) = Jwt(u, g, me, weak) /\ Turn(u, h) = Jwt(u, h, me, weak)
  BY TurnIs
<1>2. /\ Len(g) \in Nat /\ Len(h) = Len(g) + 1 /\ h[Len(h)] = a /\ h # <<>>
      /\ \A i \in 1 .. Len(g) : h[i] = g[i]
      /\ a.is \notin {"lost", "block"} /\ Plausible(Turn(u, g).ask[1], a)
      /\ server \in Servers /\ me \in Sessions /\ u.url \in Urls
      /\ Turn(u, g).ask # <<>>
  BY LastHeard
<1>3. Stage \notin Thorough
  BY DEF Thorough
<1>4. Len(h) \in Nat
  BY <1>2
<1>5. ASSUME NEW x, Owes(x, u)
      PROVE  /\ x = "jwt-forged" /\ Of1 /\ "token" \in n.flaws
             /\ "authorization" \in server.honours
  BY <1>5, DueIs DEF Owes
<1> HIDE DEF n, weak
<1>6. CASE Len(g) = 0
  <2>1. Turn(u, g).ask[1] = Get(u.url, me)
    BY <1>1, <1>6, JwtGoesOn, Forms
  <2>2. Len(h) = 1 /\ h[1] = a
    BY <1>2, <1>6
  <2>3. Exposed(u.url) => Full(h[1])
    BY <1>2, <2>1, <2>2, OwnPage
  <2>4. Learned(u, h)
    BY <2>2, <2>3 DEF Learned
  <2>5. Exposed(u.url) => Turn(u, h).ask # <<>>
    <3>1. Exposed(u.url) => Turn(u, h) = Ask(Get(u.url, NoAuth(me)))
      BY <1>1, <2>2, <2>3, JwtGoesOn DEF Full
    <3> QED BY <3>1, Forms
  <2> QED BY <1>3, <2>2, <2>4, <2>5 DEF Faithful, Telling, Owes
<1>7. CASE Len(g) = 1
  <2> DEFINE r == Get(u.url, NoAuth(me))
  <2>1. Turn(u, g).ask[1] = r
    <3>1. Turn(u, g) = Skip \/ Turn(u, g) = Ask(r)
      BY <1>1, <1>7, JwtGoesOn
    <3> QED BY <1>2, <3>1, Forms
  <2>2. Len(h) = 2 /\ h[1] = g[1] /\ h[2] = a
    BY <1>2, <1>7
  <2>3. Of1 => a.st = 401
    <3>1. r.url = u.url /\ r.who = NoAuth(me) /\ r.input = "own" /\ r.method = "GET"
      BY Parts
    <3> HIDE DEF r
    <3> QED BY <1>2, <2>1, <3>1, OwnRefusal
  <2>4. Exposed(u.url) => Full(h[1])
    BY <1>7, <2>2 DEF ToldOf, Learned
  <2>5. Learned(u, h)
    BY <2>2, <2>3, <2>4 DEF Learned
  <2>6. Of1 => Turn(u, h).ask # <<>>
    <3>1. Of1 => Denied(h[2])
      BY <2>2, <2>3 DEF Denied
    <3>2. Of1 => Turn(u, h) = Ask(Get(u.url, none))
      BY <1>1, <2>2, <3>1, JwtGoesOn
    <3> QED BY <3>2, Forms
  <2> QED BY <1>5, <1>3, <2>2, <2>5, <2>6 DEF Faithful, Telling
<1>8. CASE Len(g) = 2
  <2> DEFINE r == Get(u.url, none)
  <2>1. Turn(u, g).ask[1] = r
    <3>1. Turn(u, g) = Skip \/ Turn(u, g) = Ask(r)
      BY <1>1, <1>8, JwtGoesOn
    <3> QED BY <1>2, <3>1, Forms
  <2>2. Len(h) = 3 /\ h[1] = g[1] /\ h[2] = g[2] /\ h[3] = a
    BY <1>2, <1>8
  <2>3. Learned(u, g)
    BY DEF ToldOf
  <2>4. Learned(u, h)
    BY <1>8, <2>2, <2>3 DEF Learned
  <2>5. Plausible(r, a) /\ r.url = u.url /\ r.who = none /\ r.input = "own" /\ r.method = "GET"
    BY <1>2, <2>1, Parts
  <2> HIDE DEF r
  <2>6. ASSUME NEW x, Owes(x, u)
        PROVE  Said(x, u, h)
    <3>1. /\ x = "jwt-forged" /\ Of1 /\ "token" \in n.flaws
          /\ "authorization" \in server.honours
      BY <1>5, <2>6
    <3>2. none["authorization"] = "alg-none"
      <4>1. me = [k \in Headers |-> me[k]] /\ "authorization" \in Headers
        BY <1>2 DEF Sessions, Headers
      <4> QED BY <4>1 DEF With
    <3>3. Reads(r) /\ Owns(r)
      BY <2>5, <3>1, <3>2 DEF Reads, Valid, Owns, Nature, n
    <3>4. Full(a) /\ Full(h[1])
      BY <1>2, <1>8, <2>2, <2>3, <2>5, <3>1, <3>3, FullGiven DEF Exposed, Learned
    <3>5. h[3].st = 200 /\ h[3].size > 0 /\ Similar(h[3], h[1])
      BY <2>2, <3>4, FullsAreSimilar DEF Full
    <3>6. Len(h) \in Nat /\ Len(h) > 2 /\ Len(h) - 2 = 1 /\ Len(h) = 3
      BY <2>2
    <3>7. Turn(u, h).say = {"jwt-forged"}
      <4> DEFINE last == If(h[3].st = 200 /\ h[3].size > 0 /\ Similar(h[3], h[1]), "jwt-forged")
      <4>1. Forgeries(weak)[1] # "minted"
        BY FirstForgery
      <4>2. Len(h) = 3 => Forgeries(weak)[Len(h) - 2] # "minted"
        BY <3>6, <4>1
      <4>3. LET l == IF Forgeries(weak)[Len(h) - 2] = "minted" THEN {"jwt-weak-secret"}
                     ELSE If(h[Len(h)].st = 200 /\ h[Len(h)].size > 0
                             /\ Similar(h[Len(h)], h[1]), "jwt-forged")
            IN  \/ Turn(u, h) = ReportAndStop(l)
                \/ \E y : Turn(u, h) = ReportAndAsk(l, y)
        <5>1. Len(h) \in Nat /\ Len(h) > 2
          BY <3>6
        <5> QED BY <1>1, <5>1, JwtLater
      <4>4. Turn(u, h) = ReportAndStop(last) \/ \E y : Turn(u, h) = ReportAndAsk(last, y)
        BY <3>6, <4>2, <4>3
      <4>5. last = {"jwt-forged"}
        BY <3>5 DEF If
      <4> QED BY <4>4, <4>5, Forms
    <3> QED BY <3>1, <3>7 DEF Said, Meets
  <2> QED BY <1>3, <2>4, <2>6 DEF Faithful, Telling
<1>9. CASE Len(g) > 2
  <2>1. Len(g) >= 3 /\ h[1] = g[1] /\ h[2] = g[2] /\ Len(h) >= 3
    BY <1>2, <1>9
  <2>2. \A x \in Dues : Owes(x, u) => Shown(x, u.url, found)
    BY <2>1 DEF ToldOf, GoingOn, Telling
  <2>3. Learned(u, h)
    <3>1. Learned(u, g) /\ Len(g) >= 1 /\ Len(g) >= 2
      BY <1>2, <2>1 DEF ToldOf
    <3> QED BY <2>1, <3>1 DEF Learned
  <2> QED BY <1>3, <2>2, <2>3 DEF Faithful, Telling
<1>10. Len(g) = 0 \/ Len(g) = 1 \/ Len(g) = 2 \/ Len(g) > 2
  <2>1. \A m \in Nat : m = 0 \/ m = 1 \/ m = 2 \/ m > 2
    OBVIOUS
  <2> QED BY <1>2, <2>1
<1> QED BY <1>6, <1>7, <1>8, <1>9, <1>10

-----------------------------------------------------------------------------
\* What the listings name is written to, A's own object first.
LEMMA ObjectsEnd ==
    ASSUME "theirs" \in notes
    PROVE  /\ Len(Objects) \in Nat /\ Len(Objects) >= 1
           /\ Objects[Len(Objects)] = "theirs"
<1> DEFINE both == <<"own", "theirs">>
           S == {i \in DOMAIN both : Noticed(both[i])}
           m == Cardinality(S)
<1>1. both \in Seq({"own", "theirs"}) /\ S \in SUBSET DOMAIN both /\ DOMAIN both = {1, 2}
      /\ both[2] = "theirs" /\ 2 \in S
  BY DEF Noticed
<1>2. Objects = Sublist(both, S)
  BY DEF Objects, Where
<1> HIDE DEF both, S
<1>3. /\ Len(Sublist(both, S)) = m /\ m \in Nat
      /\ \A n \in 1 .. m : Nth(S, n) \in S /\ Sublist(both, S)[n] = both[Nth(S, n)]
      /\ \A k, n \in 1 .. m : k < n => Nth(S, k) < Nth(S, n)
      /\ \A i \in S : \E n \in 1 .. m : Nth(S, n) = i
  BY <1>1, SublistIs
<1> HIDE DEF m
<1>4. PICK n \in 1 .. m : Nth(S, n) = 2
  BY <1>1, <1>3
<1>5. m >= 1 /\ m \in 1 .. m
  BY <1>3, <1>4
<1>6. n = m
  <2>1. SUFFICES ASSUME n # m PROVE FALSE
    OBVIOUS
  <2>2. n < m
    BY <1>3, <2>1
  <2>3. 2 < Nth(S, m)
    BY <1>3, <1>4, <1>5, <2>2
  <2>4. Nth(S, m) \in {1, 2}
    BY <1>1, <1>3, <1>5
  <2> QED BY <2>3, <2>4
<1> QED BY <1>1, <1>2, <1>3, <1>4, <1>5, <1>6

\* The bearer of the API tests opens what A's session opens, but where it took
\* its place.
LEMMA BearerReads ==
    ASSUME server \in Servers, me \in Sessions, alive, ~Displaced, NEW r, r.url \in Urls,
           Acts(r.url), r.who = BaseHeaders(me, Bearer)
    PROVE  Reads(r)
<1>1. CASE server.at[r.url].guard = "open"
  BY <1>1 DEF Reads, Nature
<1>2. CASE Bearer = "none"
  <2>1. r.who = me
    BY <1>2 DEF BaseHeaders
  <2> QED BY <2>1 DEF Acts, Reads, Valid, Nature
<1>3. CASE Bearer # "none"
  <2>1. PICK k \in server.honours : BaseHeaders(me, Bearer)[k] \in {"A", "fresh"}
    BY <1>3 DEF Displaced
  <2>2. r.who[k] \in {"A", "fresh"}
    BY <2>1
  <2>3. Valid(r, k)
    BY <2>2 DEF Valid
  <2> QED BY <2>3 DEF Reads
<1> QED BY <1>1, <1>2, <1>3

\* What a write to the objects does next.
LEMMA WriteOthersForms ==
    ASSUME NEW u, NEW g, NEW as
    PROVE  LET n == Len(g)
               t == WriteOthers(u, g, as, Objects)
           IN  /\ n > 0 /\ Done2xx(g[n]) => t = Report({"bola-write"})
               /\ \/ t = Report({"bola-write"})
                  \/ n < Len(Objects) /\ t = Ask(Write(u, as, Objects[n + 1]))
                  \/ ~(n < Len(Objects)) /\ t = Skip
               /\ t.over = FALSE
<1>1. Len(g) > 0 /\ Done2xx(g[Len(g)]) => WriteOthers(u, g, as, Objects) = Report({"bola-write"})
  BY DEF WriteOthers
<1>2. \/ WriteOthers(u, g, as, Objects) = Report({"bola-write"})
      \/ /\ Len(g) < Len(Objects)
         /\ WriteOthers(u, g, as, Objects) = Ask(Write(u, as, Objects[Len(g) + 1]))
      \/ ~(Len(g) < Len(Objects)) /\ WriteOthers(u, g, as, Objects) = Skip
  BY DEF WriteOthers
<1> QED BY <1>1, <1>2, Overs

LEMMA OthersIsFaithful ==
    ASSUME NEW u, NEW g, NEW a, NEW h, Step(u, g, a, h), Stage = "api-authz",
           u.hdr = "others", alive, Honest(h),
           (\E w \in Urls : List(w) /\ Acts(w)) /\ ~Displaced => "theirs" \in notes
    PROVE  Faithful(u, h)
<1> DEFINE as == BaseHeaders(me, Bearer)
           m == Len(Objects)
<1>1. Turn(u, g) = WriteOthers(u, g, as, Objects) /\ Turn(u, h) = WriteOthers(u, h, as, Objects)
  BY ApiIs
<1>2. /\ Len(g) \in Nat /\ Len(h) = Len(g) + 1 /\ h[Len(h)] = a
      /\ a.is \notin {"lost", "block"} /\ Plausible(Turn(u, g).ask[1], a)
      /\ server \in Servers /\ me \in Sessions /\ u.url \in Urls
      /\ Turn(u, g).ask # <<>>
  BY LastHeard
<1>3. Turn(u, h).over = FALSE
  BY <1>1, WriteOthersForms
<1>4. Learned(u, h) /\ Stage \notin GoingOn
  BY DEF Learned, GoingOn
<1>5. ASSUME NEW x \in Dues, Owes(x, u), Turn(u, h).ask = <<>>
      PROVE  Said(x, u, h)
  <2>1. /\ x = "bola-write" /\ Edit(u.url) /\ "object" \in server.at[u.url].flaws
        /\ "theirs" \in notes /\ ~Displaced /\ Acts(u.url)
    BY <1>5, DueIs DEF Owes, Exposed
  <2>2. m \in Nat /\ m >= 1 /\ Objects[m] = "theirs"
    BY <2>1, ObjectsEnd
  <2> HIDE DEF m
  <2>3. Len(g) < m /\ Turn(u, g).ask[1] = Write(u, as, Objects[Len(g) + 1])
    <3>1. \/ Turn(u, g) = Report({"bola-write"})
          \/ Len(g) < m /\ Turn(u, g) = Ask(Write(u, as, Objects[Len(g) + 1]))
          \/ Turn(u, g) = Skip
      BY <1>1, WriteOthersForms DEF m
    <3> QED BY <1>2, <3>1, Forms
  <2>4. Turn(u, h) = Report({"bola-write"}) \/ (~(Len(h) < m) /\ Turn(u, h) = Skip)
    <3>1. \/ Turn(u, h) = Report({"bola-write"})
          \/ Turn(u, h) = Ask(Write(u, as, Objects[Len(h) + 1]))
          \/ ~(Len(h) < m) /\ Turn(u, h) = Skip
      BY <1>1, WriteOthersForms DEF m
    <3> QED BY <1>5, <3>1, Forms
  <2>5. CASE Turn(u, h) = Report({"bola-write"})
    BY <2>1, <2>5, Forms DEF Said, Meets
  <2>6. CASE ~(Len(h) < m)
    <3> DEFINE r == Write(u, as, "theirs")
    <3>1. Len(g) + 1 = m
      BY <1>2, <2>2, <2>3, <2>6
    <3>2. Turn(u, g).ask[1] = r
      BY <2>2, <2>3, <3>1
    <3>3. r.url = u.url /\ r.who = as /\ r.input = "theirs"
      BY WriteIs
    <3>4. Plausible(r, a)
      BY <1>2, <3>2
    <3> HIDE DEF r
    <3>5. Reads(r)
      BY <1>2, <2>1, <3>3, BearerReads
    <3>6. Owns(r)
      BY <2>1, <3>3 DEF Owns, Nature
    <3>7. r.input \notin Copies /\ ~Registers(r)
      BY <3>3 DEF Copies, Registers
    <3>8. Page(r, a)
      BY <1>2, <3>4, <3>5, <3>6, <3>7, PageGiven
    <3>9. Len(h) > 0 /\ Done2xx(h[Len(h)])
      BY <1>2, <3>8 DEF Page, Done2xx
    <3>10. Turn(u, h) = Report({"bola-write"})
      BY <1>1, <3>9, WriteOthersForms
    <3> QED BY <2>5, <3>10
  <2> QED BY <2>4, <2>5, <2>6
<1> QED BY <1>3, <1>4, <1>5 DEF Faithful

\* The other API tests owe nothing, and go through all of their units.
LEMMA ApiTestsAreFaithful ==
    ASSUME NEW u, NEW g, NEW a, NEW h, Step(u, g, a, h), Stage = "api-authz",
           ApiTest(u), u.hdr # "others", Honest(h)
    PROVE  Faithful(u, h)
<1> DEFINE as == BaseHeaders(me, Bearer)
<1>1. \A x : ~Owes(x, u)
  BY DEF Owes
<1>2. Learned(u, h)
  BY DEF Learned
<1>3. CASE u.hdr = "fields"
  <2>1. Turn(u, h) = MassAssign(u, h, as)
    BY <1>3, ApiIs
  <2>2. (\E r : Turn(u, h) = Ask(r)) \/ \E x : Turn(u, h) = Report(x)
    BY <2>1 DEF MassAssign
  <2>3. Turn(u, h).over = FALSE
    BY <2>2, Overs
  <2> QED BY <1>1, <1>2, <2>3 DEF Faithful
<1>4. CASE AtSignup(u)
  <2>1. Turn(u, h) = Register(u, h, as, ListSeq)
    BY <1>4, ApiIs DEF AtSignup
  <2>2. Turn(u, h) = Skip \/ (\E r : Turn(u, h) = Ask(r)) \/ \E x : Turn(u, h) = Report(x)
    BY <2>1 DEF Register
  <2>3. Turn(u, h).over = FALSE
    BY <2>2, Overs
  <2> QED BY <1>1, <1>2, <2>3 DEF Faithful
<1>5. CASE u.hdr = "list"
  <2>1. Turn(u, h) = Listing(u, h, as)
    BY <1>5, ApiIs
  <2>2. Turn(u, h) = Skip \/ \E r : Turn(u, h) = Ask(r)
    BY <2>1 DEF Listing
  <2>3. Turn(u, h).over = FALSE
    BY <2>2, Overs
  <2> QED BY <1>1, <1>2, <2>3 DEF Faithful
<1> QED BY <1>3, <1>4, <1>5, ApiTests

\* A listing that A's session opens names somebody else's object.
LEMMA ListNames ==
    ASSUME NEW u, NEW g, NEW a, NEW h, Step(u, g, a, h), Stage = "api-authz",
           u.hdr = "list", alive, Honest(h), Acts(u.url), ~Displaced, NEW says
    PROVE  "theirs" \in Noted(u, a, says)
<1> DEFINE as == BaseHeaders(me, Bearer)
           r == Get(u.url, as)
<1>1. /\ a.is \notin {"lost", "block"} /\ Plausible(Turn(u, g).ask[1], a)
      /\ server \in Servers /\ me \in Sessions /\ u.url \in Urls
      /\ Turn(u, g).ask # <<>>
  BY LastHeard
<1>2. Turn(u, g).ask[1] = r
  <2>1. Turn(u, g) = Listing(u, g, as)
    BY ApiIs
  <2>2. Turn(u, g) = Skip \/ Turn(u, g) = Ask(r)
    BY <2>1 DEF Listing
  <2> QED BY <1>1, <2>2, Forms
<1>3. r.url = u.url /\ r.who = as /\ r.input = "own"
  BY Parts
<1> HIDE DEF r
<1>4. Reads(r)
  BY <1>1, <1>3, BearerReads
<1>5. a.is = "page"
  BY <1>1, <1>2, <1>4 DEF Plausible, Nothing, Overload, Refuses, Serves, Copied
<1> QED BY <1>5 DEF Noted

\* A stage that owes nothing.
LEMMA NothingDue ==
    ASSUME Stage \notin Thorough, Stage # "jwt", NEW u, NEW h
    PROVE  Faithful(u, h)
<1>1. \A x : ~Owes(x, u)
  BY DueIs DEF Owes, Thorough
<1>2. Learned(u, h)
  BY DEF Learned, Thorough
<1> QED BY <1>1, <1>2 DEF Faithful

\* Whatever the stage: it goes on to ask, or has said what it owes.
LEMMA StageIsFaithful ==
    ASSUME NEW u, NEW g, NEW a, NEW h, Step(u, g, a, h), Fits(u), alive,
           ToldOf(u, g), Honest(h),
           Stage = "api-authz" /\ u.hdr = "others" =>
             ((\E w \in Urls : List(w) /\ Acts(w)) /\ ~Displaced => "theirs" \in notes)
    PROVE  Faithful(u, h)
<1>1. CASE Stage = "api-authz"
  BY <1>1, OthersIsFaithful, ApiTestsAreFaithful DEF Fits
<1>2. CASE Stage = "api-exposure"
  BY <1>2, ApiExposureIsFaithful
<1>3. CASE Stage = "authz"
  BY <1>3, AuthzIsFaithful
<1>4. CASE Stage = "jwt"
  BY <1>4, JwtIsFaithful
<1>5. CASE Stage = "verb"
  BY <1>5, VerbIsFaithful
<1>6. CASE Stage = "matrix"
  BY <1>6, MatrixIsFaithful
<1>7. CASE Stage \notin Thorough /\ Stage # "jwt"
  BY <1>7, NothingDue
<1> QED BY <1>1, <1>2, <1>3, <1>4, <1>5, <1>6, <1>7 DEF Thorough

\* The token stage ends at a URL that refuses who comes without the token.
LEMMA JwtGates ==
    ASSUME NEW u, NEW g, NEW a, NEW h, Step(u, g, a, h), Stage = "jwt", Honest(g),
           NEW us, Past(u, g, us), Turn(u, h).over # FALSE
    PROVE  Gated(u.url)
<1> DEFINE weak == server.weak
<1>1. Turn(u, g) = Jwt(u, g, me, weak) /\ Turn(u, h) = Jwt(u, h, me, weak)
  BY TurnIs
<1>2. Len(g) \in Nat /\ Len(h) = Len(g) + 1 /\ Turn(u, g).ask # <<>>
  BY DEF Step
<1> HIDE DEF weak
<1>3. Len(h) # 1
  <2>1. Len(h) = 1 => Jwt(u, h, me, weak) = Skip \/ \E r : Jwt(u, h, me, weak) = Ask(r)
    BY JwtGoesOn
  <2> QED BY <1>1, <2>1, Overs
<1>4. Len(h) # 2
  <2>1. Len(h) = 2 => Jwt(u, h, me, weak) = Skip \/ \E r : Jwt(u, h, me, weak) = Ask(r)
    BY JwtGoesOn
  <2> QED BY <1>1, <2>1, Overs
<1>5. Len(g) >= 2
  BY <1>2, <1>3, <1>4
<1>6. Len(g) = 2 => Denied(g[2])
  <2>1. Len(g) = 2 /\ ~Denied(g[2]) => Jwt(u, g, me, weak) = Skip
    BY JwtGoesOn
  <2> QED BY <1>1, <1>2, <2>1, Forms
<1>7. Oracle(server.at[u.url], server.weak, g)
  BY DEF Past
<1>8. Denied(g[2])
  <2>1. Len(g) = 2 \/ Len(g) >= 3
    <3>1. \A m \in Nat : m >= 2 => m = 2 \/ m >= 3
      OBVIOUS
    <3> QED BY <1>2, <1>5, <3>1
  <2> QED BY <1>6, <1>7, <2>1 DEF Oracle
<1>9. g[2].is # "block"
  <2>1. 2 \in 1 .. Len(g)
    BY <1>2, <1>5
  <2> QED BY <2>1 DEF Honest
<1> QED BY <1>5, <1>7, <1>8, <1>9 DEF Oracle, Shut, Gated

-----------------------------------------------------------------------------
(***************************************************************************)
(* No URL a stage is for is left out of its units.                         *)
(***************************************************************************)
Lists(us, v) == \E k \in 1 .. Len(us) : us[k].url = v

LEMMA PlainHas ==
    ASSUME NEW S \in SUBSET DOMAIN UrlSeq, NEW i \in S
    PROVE  Lists(Of(S), UrlSeq[i])
<1> DEFINE sub == Sublist(UrlSeq, S)
           m == Cardinality(S)
           us == Of(S)
<1>1. /\ sub \in Seq(Urls) /\ Len(sub) = m /\ m \in Nat
      /\ \A n \in 1 .. m : Nth(S, n) \in S /\ sub[n] = UrlSeq[Nth(S, n)]
      /\ \A j \in S : \E n \in 1 .. m : Nth(S, n) = j
  BY SublistIs, DepthAssumption
<1>2. us = [k \in DOMAIN sub |-> Plain(sub[k])]
  BY DEF Of
<1> HIDE DEF sub, m, us
<1>3. DOMAIN sub = 1 .. m
  BY <1>1
<1>4. Len(us) = m /\ \A k \in 1 .. m : us[k] = Plain(sub[k])
  BY <1>1, <1>2, <1>3
<1>5. PICK n \in 1 .. m : Nth(S, n) = i
  BY <1>1
<1>6. us[n].url = UrlSeq[i]
  <2>1. sub[n] = UrlSeq[i] /\ us[n] = Plain(sub[n])
    BY <1>1, <1>4, <1>5
  <2>2. \A w : Plain(w).url = w
    BY DEF Plain
  <2> QED BY <2>1, <2>2
<1> QED BY <1>4, <1>6 DEF Lists, us

\* The API tests are given every operation, the other stages what is early.
LEMMA SelectionsCover ==
    ASSUME NEW v \in Urls
    PROVE  /\ List(v) => Lists(Of(Every(List)), v)
           /\ Edit(v) => Lists(Of(Every(Edit)), v)
           /\ EarlyApi(v) =>
                /\ First(Stage, Api) # {} /\ Lists(Of(First(Stage, Api)), v)
                /\ Facts[v].id => Lists(Of(WithId(Stage)), v)
           /\ EarlyPage(v) => Lists(Of(NewPaths(Stage)), v)
<1>1. List(v) => Lists(Of(Every(List)), v)
  <2> SUFFICES ASSUME List(v) PROVE Lists(Of(Every(List)), v)
    OBVIOUS
  <2>1. PICK i \in DOMAIN UrlSeq : UrlSeq[i] = v
    BY DEF Urls, ToSet
  <2>2. i \in Every(List)
    BY <2>1 DEF Every
  <2> QED BY <2>1, <2>2, SelectionsAre, PlainHas
<1>2. Edit(v) => Lists(Of(Every(Edit)), v)
  <2> SUFFICES ASSUME Edit(v) PROVE Lists(Of(Every(Edit)), v)
    OBVIOUS
  <2>1. PICK i \in DOMAIN UrlSeq : UrlSeq[i] = v
    BY DEF Urls, ToSet
  <2>2. i \in Every(Edit)
    BY <2>1 DEF Every
  <2> QED BY <2>1, <2>2, SelectionsAre, PlainHas
<1>3. ASSUME EarlyApi(v)
      PROVE  /\ First(Stage, Api) # {} /\ Lists(Of(First(Stage, Api)), v)
             /\ Facts[v].id => Lists(Of(WithId(Stage)), v)
  <2>1. PICK i \in First(Stage, Api) : UrlSeq[i] = v
    BY <1>3 DEF EarlyApi, Early
  <2>2. First(Stage, Api) # {} /\ Lists(Of(First(Stage, Api)), v)
    BY <2>1, SelectionsAre, PlainHas
  <2>3. Facts[v].id => i \in WithId(Stage)
    BY <2>1 DEF WithId
  <2>4. Facts[v].id => Lists(Of(WithId(Stage)), v)
    BY <2>1, <2>3, SelectionsAre, PlainHas
  <2> QED BY <2>2, <2>4
<1>4. ASSUME EarlyPage(v)
      PROVE  Lists(Of(NewPaths(Stage)), v)
  <2>1. PICK i \in First(Stage, Crawled) : UrlSeq[i] = v
    BY <1>4 DEF EarlyPage, Early
  <2>2. i \in NewPaths(Stage)
    BY <1>4, <2>1 DEF NewPaths, EarlyPage
  <2> QED BY <2>1, <2>2, SelectionsAre, PlainHas
<1> QED BY <1>1, <1>2, <1>3, <1>4

\* With one header, each unit keeps its URL.
LEMMA CrossedHas ==
    ASSUME NEW T, NEW G, NEW us \in Seq(UnitsOver(T, G)), NEW x, NEW v, Lists(us, v)
    PROVE  /\ Crossed(us, <<x>>) \in Seq(UnitsOver(T, {x}))
           /\ Lists(Crossed(us, <<x>>), v)
<1> DEFINE one == <<x>>
           cs == Crossed(us, one)
<1>1. one \in Seq({x}) /\ Len(one) = 1 /\ Len(one) \in {1, 2} /\ one[1] = x
  OBVIOUS
<1>2. cs \in Seq(UnitsOver(T, {x}))
  BY <1>1, CrossedList
<1>3. Len(us) \in Nat
  OBVIOUS
<1>4. PICK k \in 1 .. Len(us) : us[k].url = v
  BY DEF Lists
<1>5. us[k] \in UnitsOver(T, G)
  BY <1>3
<1>6. [us[k] EXCEPT !.hdr = x].url = v
  BY <1>4, <1>5 DEF UnitsOver
<1> HIDE DEF one
<1>7. cs = [j \in 1 .. Len(us) * Len(one) |->
              [us[((j - 1) \div Len(one)) + 1] EXCEPT !.hdr = one[((j - 1) % Len(one)) + 1]]]
  BY Zenon DEF Crossed
<1>8. Len(us) * Len(one) = Len(us)
  BY <1>1, <1>3
<1>9. ((k - 1) \div Len(one)) + 1 = k /\ ((k - 1) % Len(one)) + 1 = 1
  <2>1. k \in Nat /\ k >= 1
    BY <1>3
  <2> QED BY <1>1, <2>1
<1>10. Len(cs) = Len(us)
  BY <1>3, <1>7, <1>8
<1>11. cs[k] = [us[k] EXCEPT !.hdr = x]
  BY <1>1, <1>7, <1>8, <1>9
<1>12. Lists(cs, v)
  BY <1>6, <1>10, <1>11 DEF Lists
<1> QED BY <1>2, <1>12 DEF one

\* In two lists after another, the units of the first come first.
LEMMA OneAfterTheOther ==
    ASSUME NEW X, NEW us \in Seq(X), NEW ws \in Seq(X), NEW both, both = us \o ws
    PROVE  /\ both \in Seq(X) /\ Len(both) \in Nat /\ Len(us) \in Nat
           /\ \A k \in 1 .. Len(us) : k \in 1 .. Len(both) /\ both[k] = us[k]
           /\ \A k \in 1 .. Len(ws) :
                Len(us) + k \in 1 .. Len(both) /\ both[Len(us) + k] = ws[k]
           /\ \A k \in 1 .. Len(both) :
                \/ k \in 1 .. Len(us) /\ both[k] = us[k]
                \/ k > Len(us) /\ k - Len(us) \in 1 .. Len(ws) /\ both[k] = ws[k - Len(us)]
<1> DEFINE m == Len(us)
           n == Len(ws)
<1>1. m \in Nat /\ n \in Nat
  OBVIOUS
<1>2. /\ both \in Seq(X) /\ Len(both) = m + n
      /\ \A i \in 1 .. m + n : both[i] = IF i <= m THEN us[i] ELSE ws[i - m]
  BY ConcatProperties
<1> HIDE DEF m, n
<1>3. \A k \in 1 .. m : k \in 1 .. m + n /\ k <= m
  BY <1>1
<1>4. \A k \in 1 .. n : m + k \in 1 .. m + n /\ ~(m + k <= m) /\ (m + k) - m = k
  BY <1>1
<1>5. \A k \in 1 .. m + n : k \in 1 .. m \/ (k > m /\ ~(k <= m) /\ k - m \in 1 .. n)
  BY <1>1
<1>6. m + n \in Nat
  BY <1>1
<1>7. \A k \in 1 .. m : k \in 1 .. Len(both) /\ both[k] = us[k]
  BY <1>2, <1>3
<1>8. \A k \in 1 .. n : m + k \in 1 .. Len(both) /\ both[m + k] = ws[k]
  BY <1>2, <1>4
<1>9. \A k \in 1 .. Len(both) :
        \/ k \in 1 .. m /\ both[k] = us[k]
        \/ k > m /\ k - m \in 1 .. n /\ both[k] = ws[k - m]
  BY <1>2, <1>3, <1>5
<1> QED BY <1>1, <1>2, <1>6, <1>7, <1>8, <1>9 DEF m, n

\* Units that all have one header.
LEMMA WithHeader ==
    ASSUME NEW H, NEW x \in H, NEW s \in Seq(UnitsOver(Urls, {x}))
    PROVE  /\ s \in Seq(UnitsOver(Urls, H))
           /\ \A k \in 1 .. Len(s) : s[k].hdr = x
<1>1. \A w \in UnitsOver(Urls, {x}) : w.hdr = x /\ w \in UnitsOver(Urls, H)
  BY DEF UnitsOver
<1> DEFINE Y == UnitsOver(Urls, {x})
<1>2. s \in Seq(Y)
  OBVIOUS
<1> HIDE DEF Y
<1>3. \A k \in 1 .. Len(s) : s[k] \in Y
  BY <1>2
<1>4. Y \subseteq UnitsOver(Urls, H)
  BY <1>1 DEF Y
<1>5. s \in Seq(UnitsOver(Urls, H))
  BY <1>2, <1>4, SeqWider
<1> QED BY <1>1, <1>3, <1>5 DEF Y

\* The API tests: every listing is read before the first object is written to,
\* and every operation that writes to an object is tried.
LEMMA ApiUnits ==
    LET U == Units["api-authz"]
    IN  /\ \A v \in Urls : Edit(v) => \E k \in 1 .. Len(U) : U[k].url = v /\ U[k].hdr = "others"
        /\ \A v \in Urls : List(v) =>
             \E k \in 1 .. Len(U) :
               /\ U[k].url = v /\ U[k].hdr = "list"
               /\ \A j \in 1 .. Len(U) : U[j].hdr = "others" => k < j
<1> DEFINE F == UnitsOver(Urls, {"none"})
           X == UnitsOver(Urls, {"fields", "new user", "list", "others"})
           A == Crossed(Of(Every(Written)), <<"fields">>)
           B == Crossed(Of(Every(Make)), <<"new user">>)
           C == Crossed(Of(Every(List)), <<"list">>)
           D == Crossed(Of(Every(Edit)), <<"others">>)
<1>1. Units["api-authz"] = ((A \o B) \o C) \o D
  BY StageNames DEF Units
<1>2. /\ Of(Every(Written)) \in Seq(F) /\ Of(Every(Make)) \in Seq(F)
      /\ Of(Every(List)) \in Seq(F) /\ Of(Every(Edit)) \in Seq(F)
  BY SelectionsAre, PlainUnits
<1>4. \A x : <<x>> \in Seq({x}) /\ Len(<<x>>) \in {1, 2}
  OBVIOUS
<1>5. /\ A \in Seq(UnitsOver(Urls, {"fields"}))
      /\ B \in Seq(UnitsOver(Urls, {"new user"}))
      /\ C \in Seq(UnitsOver(Urls, {"list"}))
      /\ D \in Seq(UnitsOver(Urls, {"others"}))
  <2>1. A \in Seq(UnitsOver(Urls, {"fields"}))
    BY <1>2, <1>4, CrossedList
  <2>2. B \in Seq(UnitsOver(Urls, {"new user"}))
    BY <1>2, <1>4, CrossedList
  <2>3. C \in Seq(UnitsOver(Urls, {"list"}))
    BY <1>2, <1>4, CrossedList
  <2>4. D \in Seq(UnitsOver(Urls, {"others"}))
    BY <1>2, <1>4, CrossedList
  <2> QED BY <2>1, <2>2, <2>3, <2>4
<1>6. \A v \in Urls : (List(v) => Lists(C, v)) /\ (Edit(v) => Lists(D, v))
  BY <1>2, SelectionsCover, CrossedHas
<1> DEFINE H == {"fields", "new user", "list", "others"}
<1>7. "fields" \in H /\ "new user" \in H /\ "list" \in H /\ "others" \in H /\ X = UnitsOver(Urls, H)
  OBVIOUS
<1> HIDE DEF A, B, C, D, H, X
<1>8. A \in Seq(X) /\ \A k \in 1 .. Len(A) : A[k].hdr = "fields"
  BY <1>5, <1>7, WithHeader
<1>9. B \in Seq(X) /\ \A k \in 1 .. Len(B) : B[k].hdr = "new user"
  BY <1>5, <1>7, WithHeader
<1>10. C \in Seq(X) /\ \A k \in 1 .. Len(C) : C[k].hdr = "list"
  BY <1>5, <1>7, WithHeader
<1>11. D \in Seq(X) /\ \A k \in 1 .. Len(D) : D[k].hdr = "others"
  BY <1>5, <1>7, WithHeader
<1> DEFINE AB == A \o B
           P == AB \o C
           U == P \o D
<1>12. AB = A \o B /\ P = AB \o C /\ U = P \o D /\ Units["api-authz"] = U
  BY <1>1
<1> HIDE DEF AB, P, U
<1>13. /\ AB \in Seq(X)
       /\ \A k \in 1 .. Len(AB) : AB[k].hdr # "others"
  <2>1. A \in Seq(X) /\ B \in Seq(X) /\ AB = A \o B
    BY <1>8, <1>9, <1>12
  <2>2. AB \in Seq(X)
    BY <2>1, OneAfterTheOther
  <2>3. \A k \in 1 .. Len(AB) :
          \/ k \in 1 .. Len(A) /\ AB[k] = A[k]
          \/ k - Len(A) \in 1 .. Len(B) /\ AB[k] = B[k - Len(A)]
    BY <2>1, OneAfterTheOther
  <2> QED BY <1>8, <1>9, <2>2, <2>3
<1>14. /\ P \in Seq(X)
       /\ \A k \in 1 .. Len(C) : Len(AB) + k \in 1 .. Len(P) /\ P[Len(AB) + k] = C[k]
       /\ \A k \in 1 .. Len(P) : P[k].hdr # "others"
  <2>1. /\ P \in Seq(X)
        /\ \A k \in 1 .. Len(C) : Len(AB) + k \in 1 .. Len(P) /\ P[Len(AB) + k] = C[k]
        /\ \A k \in 1 .. Len(P) :
             \/ k \in 1 .. Len(AB) /\ P[k] = AB[k]
             \/ k - Len(AB) \in 1 .. Len(C) /\ P[k] = C[k - Len(AB)]
    BY <1>10, <1>12, <1>13, OneAfterTheOther
  <2> QED BY <1>10, <1>13, <2>1
<1>15. /\ Len(U) \in Nat /\ Len(P) \in Nat
       /\ \A k \in 1 .. Len(P) : k \in 1 .. Len(U) /\ U[k] = P[k]
       /\ \A k \in 1 .. Len(D) : Len(P) + k \in 1 .. Len(U) /\ U[Len(P) + k] = D[k]
       /\ \A k \in 1 .. Len(U) : (k \in 1 .. Len(P) /\ U[k] = P[k]) \/ k > Len(P)
  <2>1. D \in Seq(X) /\ P \in Seq(X) /\ U = P \o D
    BY <1>12, <1>14, <1>11
  <2>2. \A k \in 1 .. Len(U) : (k \in 1 .. Len(P) /\ U[k] = P[k]) \/ k > Len(P)
    BY <2>1, OneAfterTheOther
  <2>3. \A k \in 1 .. Len(D) : Len(P) + k \in 1 .. Len(U) /\ U[Len(P) + k] = D[k]
    BY <2>1, OneAfterTheOther
  <2>4. /\ Len(U) \in Nat /\ Len(P) \in Nat
        /\ \A k \in 1 .. Len(P) : k \in 1 .. Len(U) /\ U[k] = P[k]
    BY <2>1, OneAfterTheOther
  <2> QED BY <2>2, <2>3, <2>4
<1>16. ASSUME NEW v \in Urls, Edit(v)
       PROVE  \E k \in 1 .. Len(U) : U[k].url = v /\ U[k].hdr = "others"
  <2>1. PICK d \in 1 .. Len(D) : D[d].url = v
    BY <1>6, <1>16 DEF Lists
  <2>2. Len(P) + d \in 1 .. Len(U) /\ U[Len(P) + d] = D[d] /\ D[d].hdr = "others"
    BY <1>15, <1>11
  <2> QED BY <2>1, <2>2
<1>17. ASSUME NEW v \in Urls, List(v)
       PROVE  \E k \in 1 .. Len(U) :
                /\ U[k].url = v /\ U[k].hdr = "list"
                /\ \A j \in 1 .. Len(U) : U[j].hdr = "others" => k < j
  <2>1. PICK c \in 1 .. Len(C) : C[c].url = v
    BY <1>6, <1>17 DEF Lists
  <2> DEFINE k == Len(AB) + c
  <2>2. k \in 1 .. Len(P) /\ P[k] = C[c]
    BY <1>14
  <2> HIDE DEF k
  <2>3. k \in 1 .. Len(U) /\ U[k] = C[c] /\ C[c].hdr = "list"
    BY <1>10, <1>15, <2>2
  <2>4. ASSUME NEW j \in 1 .. Len(U), U[j].hdr = "others"
        PROVE  k < j
    <3>1. j > Len(P)
      BY <1>14, <1>15, <2>4
    <3> QED BY <1>15, <2>2, <3>1
  <2> QED BY <2>1, <2>3, <2>4
<1> QED BY <1>12, <1>16, <1>17

\* Every URL a stage has to report of has its unit.
LEMMA UnitsCover ==
    ASSUME NEW v \in Urls
    PROVE  /\ Stage = "api-exposure" /\ EarlyPage(v) =>
                Lists(Units[Stage], v)
           /\ Stage \in {"authz", "jwt", "verb"} /\ EarlyApi(v) => Lists(Units[Stage], v)
           /\ Stage = "matrix" /\ EarlyApi(v) /\ Facts[v].id => Lists(Units[Stage], v)
<1>1. /\ Stage = "api-exposure" => Units[Stage] = Of(NewPaths(Stage))
      /\ Stage \in {"authz", "verb"} => Units[Stage] = Of(First(Stage, Api))
      /\ Stage = "jwt" => Units[Stage] = Of(ApiOrAll(Stage))
      /\ Stage = "matrix" => Units[Stage] = Of(WithId(Stage))
  BY StageNames DEF Units
<1>2. EarlyApi(v) => ApiOrAll(Stage) = First(Stage, Api)
  BY SelectionsCover DEF ApiOrAll
<1> QED BY <1>1, <1>2, SelectionsCover

\* Where one of its URLs is an API's, the token stage asks for nothing else.
LEMMA JwtUnits ==
    ASSUME Stage = "jwt", NEW v \in Urls, EarlyApi(v), NEW k \in 1 .. Len(Units["jwt"])
    PROVE  Api(Units["jwt"][k].url)
<1> DEFINE T == {u \in Urls : Api(u)}
           S == First("jwt", Api)
<1>1. S # {} /\ S \in SUBSET DOMAIN UrlSeq
  BY SelectionsCover, SelectionsAre
<1>2. Units["jwt"] = Of(S)
  BY <1>1, StageNames DEF Units, ApiOrAll
<1>3. (\A i \in S : UrlSeq[i] \in T) /\ (\A u \in T : Api(u))
  BY DepthAssumption DEF First, Every
<1> HIDE DEF T, S
<1>4. Of(S) \in Seq(UnitsOver(T, {"none"}))
  BY <1>1, <1>3, PlainList
<1>5. Of(S)[k] \in UnitsOver(T, {"none"})
  BY <1>2, <1>4
<1> QED BY <1>2, <1>3, <1>5, UnitsOverAre

-----------------------------------------------------------------------------
(***************************************************************************)
(* The second inductive invariant: while a stage hears every answer with   *)
(* its session alive, it has shown what it owes to the units behind it,    *)
(* and has learned what it should of the one it is at.                     *)
(***************************************************************************)
Listening == clear /\ alive /\ ~Over /\ Runs(Stage)
Paid(u) ==
    /\ \A x \in Dues : Owes(x, u) => Shown(x, u.url, found)
    /\ Stage = "api-authz" /\ u.hdr = "list" /\ Acts(u.url) /\ ~Displaced => "theirs" \in notes

XInv ==
    Listening =>
        /\ \A k \in 1 .. Len(Units[Stage]) : k < unit => Paid(Units[Stage][k])
        /\ got # <<>> => ToldOf(Current, got)

\* What is owed is fixed by the server, the session and the stage; what has
\* been shown and noted stays.
LEMMA OwedStays ==
    ASSUME UNCHANGED <<server, me, stage>>, NEW x, NEW u
    PROVE  Owes(x, u)' = Owes(x, u)
<1>1. Stage' = Stage
  BY DEF Stage
<1>2. Exposed(u.url)' = Exposed(u.url)
  BY DEF Exposed, Steady, Acts
<1>3. Displaced' = Displaced
  BY DEF Displaced, Bearer, Stray
<1>4. \A w \in Urls : Acts(w)' = Acts(w)
  BY DEF Acts
<1>6. EarlyPage(u.url)' = EarlyPage(u.url) /\ EarlyApi(u.url)' = EarlyApi(u.url)
  BY <1>1 DEF EarlyPage, EarlyApi, Early, First, Every, Crawled, Api
<1>5. Due(x, u.url)' = Due(x, u.url)
  BY <1>1, <1>3, <1>4, <1>6 DEF Due, Gated, Uncustomed
<1> QED BY <1>1, <1>2, <1>5 DEF Owes

LEMMA PaidStays ==
    ASSUME UNCHANGED <<server, me, stage>>, found \subseteq found', notes \subseteq notes',
           NEW u, Paid(u)
    PROVE  Paid(u)'
<1>1. \A x \in Dues : Owes(x, u)' = Owes(x, u)
  BY OwedStays
<1>2. \A x : Shown(x, u.url, found) => Shown(x, u.url, found')
  BY DEF Shown
<1>3. Stage' = Stage /\ Displaced' = Displaced /\ Acts(u.url)' = Acts(u.url)
  BY DEF Stage, Displaced, Bearer, Stray, Acts
<1> QED BY <1>1, <1>2, <1>3 DEF Paid

\* More of what changes with an answer.
LEMMA Accounts ==
    ASSUME NEW u, NEW r, NEW a, NEW h, NEW us, Exchange(u, r, a, h, us)
    PROVE  /\ found \subseteq found' /\ notes \subseteq notes'
           /\ clear' = (clear /\ a.is \notin {"lost", "block"})
           /\ Turn(u, h).ask = <<>> /\ Turn(u, h).over = FALSE /\ Stage # "cors" =>
                unit' = unit + 1
<1> DEFINE t == Turn(u, h)
<1>1. Concludes(r, a, t)
  BY DEF Exchange
<1> HIDE DEF t
<1>2. /\ found \subseteq found' /\ notes \subseteq notes'
      /\ clear' = (clear /\ a.is \notin {"lost", "block"})
      /\ t.ask = <<>> /\ t.over = FALSE /\ Stage # "cors" => unit' = unit + 1
  BY <1>1 DEF Concludes
<1> QED BY <1>2 DEF t

\* The units of the stage, by their numbers.
LEMMA UnitNumbers ==
    ASSUME SInv, ~Over
    PROVE  /\ Stage \in ToSet(Stages) /\ Len(Units[Stage]) \in Nat /\ unit \in Nat \ {0}
           /\ InStage => unit \in 1 .. Len(Units[Stage])
<1>1. stage \in 1 .. Len(Stages) + 1 /\ unit \in Nat \ {0}
  BY DEF SInv, Types
<1>2. stage \in 1 .. Len(Stages)
  BY <1>1, StageNames DEF Over
<1>3. Stage \in ToSet(Stages)
  BY <1>2, StageNames DEF Stage, ToSet, Stages
<1>4. Len(Units[Stage]) \in Nat
  <2>1. Units[Stage] \in Seq(UnitsOver(Urls, Headed))
    BY <1>3, UnitsAre, Zenon
  <2> QED BY ONLY <2>1
<1>5. InStage => unit \in 1 .. Len(Units[Stage])
  BY <1>1, <1>4 DEF InStage
<1> QED BY <1>1, <1>3, <1>4, <1>5

\* Before the first object is written to, the listings have named it.
LEMMA ListingsFirst ==
    ASSUME SInv, XInv, Listening, InStage, Stage = "api-authz", Current.hdr = "others",
           \E w \in Urls : List(w) /\ Acts(w), ~Displaced
    PROVE  "theirs" \in notes
<1> DEFINE U == Units["api-authz"]
<1>1. unit \in 1 .. Len(U) /\ Current = U[unit]
  BY UnitNumbers DEF Current, InStage
<1>2. PICK w \in Urls : List(w) /\ Acts(w)
  OBVIOUS
<1>3. PICK k \in 1 .. Len(U) :
         /\ U[k].url = w /\ U[k].hdr = "list"
         /\ \A j \in 1 .. Len(U) : U[j].hdr = "others" => k < j
  BY <1>2, ApiUnits
<1>4. k < unit
  BY <1>1, <1>3
<1>5. Paid(U[k])
  BY <1>3, <1>4 DEF XInv
<1> QED BY <1>2, <1>3, <1>5 DEF Paid

\* What a unit that goes on, or one that is done, has come to.
LEMMA UnitIsFaithful ==
    ASSUME SInv, XInv, NEW u, NEW r, NEW a, NEW h, NEW us, Exchange(u, r, a, h, us), Listening'
    PROVE  /\ Listening /\ Honest(got) /\ Honest(h) /\ Faithful(u, h)
           /\ u.hdr = "list" /\ Stage = "api-authz" /\ Acts(u.url) /\ ~Displaced =>
                "theirs" \in notes'
<1>1. /\ Step(u, got, a, h) /\ Fits(u)
  BY Exchanged
<1>2. UNCHANGED <<server, me, alive, stage>> /\ notes' = notes \union Noted(u, a, Turn(u, h).say)
  BY Effects
<1>3. clear' = (clear /\ a.is \notin {"lost", "block"})
  BY Accounts
<1>4. Listening /\ a.is \notin {"lost", "block"}
  BY <1>2, <1>3 DEF Listening, Over, Runs, Stage
<1>5. InStage /\ u = Current
  BY DEF Exchange
<1>6. Len(got) \in Nat /\ (got = <<>> <=> Len(got) = 0) /\ Len(h) = Len(got) + 1
      /\ h[Len(got) + 1] = a /\ \A i \in 1 .. Len(got) : h[i] = got[i]
  BY <1>1 DEF Step
<1>7. ToldOf(u, got)
  <2>1. CASE got # <<>>
    BY <1>4, <1>5, <2>1 DEF XInv
  <2>2. CASE got = <<>>
    <3>1. Len(got) = 0
      BY <1>6, <2>2
    <3> QED BY <3>1 DEF ToldOf, Honest, Learned, Telling
  <2> QED BY <2>1, <2>2
<1>8. Honest(got)
  BY <1>7 DEF ToldOf
<1>9. Honest(h)
  <2>1. \A i \in 1 .. Len(h) : i \in 1 .. Len(got) \/ i = Len(got) + 1
    BY <1>6
  <2> QED BY <1>4, <1>6, <1>8, <2>1 DEF Honest
<1>10. Stage = "api-authz" /\ u.hdr = "others" =>
         ((\E w \in Urls : List(w) /\ Acts(w)) /\ ~Displaced => "theirs" \in notes)
  BY <1>4, <1>5, ListingsFirst
<1>11. alive
  BY <1>4 DEF Listening
<1>12. Faithful(u, h)
  BY <1>1, <1>7, <1>9, <1>10, <1>11, StageIsFaithful
<1>13. u.hdr = "list" /\ Stage = "api-authz" /\ Acts(u.url) /\ ~Displaced => "theirs" \in notes'
  BY <1>1, <1>2, <1>9, <1>11, ListNames
<1> QED BY <1>4, <1>8, <1>9, <1>12, <1>13

\* What it says is shown from then on.
LEMMA SaidIsShown ==
    ASSUME NEW u, NEW r, NEW a, NEW h, NEW us, Exchange(u, r, a, h, us), NEW x,
           Said(x, u, h) \/ Shown(x, u.url, found)
    PROVE  Shown(x, u.url, found')
<1>1. found \subseteq found' /\ \A k \in Turn(u, h).say : Finding(k, u, h) \in found'
  BY Effects, Accounts
<1>2. ASSUME NEW k \in Turn(u, h).say, Meets(k, x)
      PROVE  Shown(x, u.url, found')
  BY <1>1, <1>2, Findings DEF Shown
<1>3. Shown(x, u.url, found) => Shown(x, u.url, found')
  BY <1>1 DEF Shown
<1> QED BY <1>2, <1>3 DEF Said

\* A unit that is done is settled.
LEMMA DoneIsPaid ==
    ASSUME SInv, XInv, NEW u, NEW r, NEW a, NEW h, NEW us, Exchange(u, r, a, h, us), Listening',
           Turn(u, h).ask = <<>>
    PROVE  Paid(u)'
<1>1. UNCHANGED <<server, me, stage>>
  BY Effects
<1>2. ASSUME NEW x \in Dues, Owes(x, u)
      PROVE  Shown(x, u.url, found')
  <2>1. Faithful(u, h)
    BY UnitIsFaithful
  <2>2. Said(x, u, h) \/ Shown(x, u.url, found)
    BY <1>2, <2>1 DEF Faithful
  <2> QED BY <2>2, SaidIsShown
<1>3. \A x \in Dues : Owes(x, u)' = Owes(x, u)
  BY <1>1, OwedStays
<1>4. Stage' = Stage /\ Displaced' = Displaced /\ Acts(u.url)' = Acts(u.url)
  BY <1>1 DEF Stage, Displaced, Bearer, Stray, Acts
<1>5. Stage = "api-authz" /\ u.hdr = "list" /\ Acts(u.url) /\ ~Displaced => "theirs" \in notes'
  BY UnitIsFaithful
<1> QED BY <1>2, <1>3, <1>4, <1>5 DEF Paid

\* A stage that leaves units out owes them nothing.
LEMMA LeftOutIsPaid ==
    ASSUME SInv, XInv, NEW u, NEW r, NEW a, NEW h, NEW us, Exchange(u, r, a, h, us), Listening',
           Turn(u, h).ask = <<>>, Turn(u, h).over # FALSE \/ Stage = "cors",
           NEW k \in 1 .. Len(Units[Stage])
    PROVE  Paid(Units[Stage][k])'
<1>1. PICK w : w = Units[Stage][k]
  OBVIOUS
<1>2. UNCHANGED <<server, me, stage>> /\ Faithful(u, h)
  BY Effects, UnitIsFaithful
<1>3. Stage' = Stage
  BY <1>2 DEF Stage
<1>4. Stage \notin Thorough
  BY <1>2 DEF Faithful, Thorough
<1>5. \A x \in Dues : Owes(x, w)' = Owes(x, w)
  BY <1>2, OwedStays
<1>6. ASSUME NEW x \in Dues, Owes(x, w)
      PROVE  Shown(x, w.url, found')
  <2>1. Stage = "jwt"
    BY <1>4, <1>6, DueIs DEF Owes, Thorough
  <2>2. /\ EarlyApi(w.url)
        /\ \A v \in Urls \ {w.url} : Api(v) => ~Gated(v)
    BY <1>6, <2>1, DueIs DEF Owes
  <2>3. InStage /\ u = Current /\ Step(u, got, a, h) /\ Past(u, got, users) /\ Honest(got)
        /\ u.url \in Urls
    BY Exchanged, UnitIsFaithful DEF Exchange, Fits
  <2>4. Gated(u.url)
    <3>1. Turn(u, h).over # FALSE
      BY <2>1
    <3> QED BY <2>1, <2>3, <3>1, JwtGates
  <2>5. unit \in 1 .. Len(Units[Stage]) /\ Units[Stage] \in Seq(UnitsOver(Urls, Headed))
    <3>1. ~Over
      BY <2>3 DEF InStage
    <3>2. unit \in 1 .. Len(Units[Stage]) /\ Stage \in ToSet(Stages)
      BY <2>3, <3>1, UnitNumbers
    <3> QED BY <3>2, UnitsAre, Zenon
  <2>6. w.url \in Urls
    <3>1. w \in UnitsOver(Urls, Headed)
      BY <1>1, <2>5
    <3> QED BY <3>1, UnitsOverAre
  <2>7. Api(u.url)
    <3>1. u = Units["jwt"][unit] /\ unit \in 1 .. Len(Units["jwt"])
      BY <2>1, <2>3, <2>5 DEF Current
    <3> QED BY <2>1, <2>2, <2>6, <3>1, JwtUnits
  <2>8. u.url = w.url
    BY <2>2, <2>3, <2>4, <2>7
  <2>9. Owes(x, u)
    BY <1>6, <2>1, <2>8 DEF Owes
  <2>10. Said(x, u, h) \/ Shown(x, u.url, found)
    BY <1>2, <2>9 DEF Faithful
  <2> QED BY <2>8, <2>10, SaidIsShown
<1>7. Stage # "api-authz"
  BY <1>4 DEF Thorough
<1>8. Paid(w)'
  BY <1>3, <1>5, <1>6, <1>7 DEF Paid
<1> QED BY <1>3, <1>8, <1>1

LEMMA ExchangeKeepsCount ==
    ASSUME SInv, XInv, NEW u, NEW r, NEW a, NEW h, NEW us, Exchange(u, r, a, h, us)
    PROVE  XInv'
<1> SUFFICES ASSUME Listening'
             PROVE  /\ (\A k \in 1 .. Len(Units[Stage]) : k < unit => Paid(Units[Stage][k]))'
                    /\ got' # <<>> => ToldOf(Current, got)'
  BY DEF XInv
<1>1. /\ UNCHANGED <<server, me, stage>>
      /\ Turn(u, h).ask # <<>> /\ Turn(u, h).over = FALSE => unit' = unit
      /\ unit' \in {Len(Units[Stage]) + 1, unit + 1, unit}
      /\ found \subseteq found' /\ notes \subseteq notes'
      /\ Turn(u, h).ask = <<>> /\ Turn(u, h).over = FALSE /\ Stage # "cors" => unit' = unit + 1
  BY Effects, Accounts
<1>2. Listening /\ Honest(h) /\ Faithful(u, h)
  BY UnitIsFaithful
<1>3. Stage' = Stage
  BY <1>1 DEF Stage
<1>4. InStage /\ u = Current /\ u = Units[Stage][unit]
  BY DEF Exchange, Current
<1>5. unit \in 1 .. Len(Units[Stage]) /\ Len(Units[Stage]) \in Nat
  BY <1>4, UnitNumbers DEF InStage
<1>6. ASSUME NEW k \in 1 .. Len(Units[Stage]), k < unit
      PROVE  Paid(Units[Stage][k])'
  <2>1. PICK w : w = Units[Stage][k]
    OBVIOUS
  <2>2. Paid(w)
    BY <1>2, <1>6, <2>1 DEF XInv
  <2>3. Paid(w)'
    BY <1>1, <2>2, PaidStays
  <2> QED BY <1>3, <2>1, <2>3
<1>7. ASSUME NEW k \in 1 .. Len(Units[Stage]), k < unit'
      PROVE  Paid(Units[Stage][k])'
  <2>1. CASE Turn(u, h).ask # <<>>
    <3>1. Turn(u, h).over = FALSE
      <4>1. AsksFor(Turn(u, h), u)
        BY Exchanged
      <4> QED BY <2>1, <4>1 DEF AsksFor
    <3> QED BY <1>1, <1>6, <1>7, <2>1, <3>1
  <2>2. CASE Turn(u, h).ask = <<>> /\ Turn(u, h).over = FALSE /\ Stage # "cors"
    <3>1. k < unit \/ k = unit
      BY <1>1, <1>5, <1>7, <2>2
    <3>2. CASE k = unit
      <4>1. Paid(u)'
        BY <2>2, DoneIsPaid
      <4> QED BY <1>3, <1>4, <3>2, <4>1
    <3> QED BY <1>6, <3>1, <3>2
  <2>3. CASE Turn(u, h).ask = <<>> /\ (Turn(u, h).over # FALSE \/ Stage = "cors")
    BY <2>3, LeftOutIsPaid
  <2> QED BY <2>1, <2>2, <2>3
<1>8. ASSUME got' # <<>>
      PROVE  ToldOf(Current, got)'
  <2>1. Turn(u, h).ask # <<>> /\ got' = h /\ Current' = u
    BY <1>8, GoesOn
  <2>2. Learned(u, h)
    BY <1>2, <2>1 DEF Faithful
  <2>3. Learned(u, h)'
    BY <1>1, <1>3, <2>2 DEF Learned, Exposed, Steady, Acts, Gated, Uncustomed
  <2>4. ASSUME Stage \in GoingOn, Len(h) >= Telling, NEW x \in Dues, Owes(x, u)
        PROVE  Shown(x, u.url, found')
    <3>1. Said(x, u, h) \/ Shown(x, u.url, found)
      BY <1>2, <2>4 DEF Faithful
    <3> QED BY <3>1, SaidIsShown
  <2>5. \A x \in Dues : Owes(x, u)' = Owes(x, u)
    BY <1>1, OwedStays
  <2>6. ToldOf(u, h)'
    BY <1>2, <1>3, <2>3, <2>4, <2>5 DEF ToldOf, Honest, Telling
  <2> QED BY <2>1, <2>6 DEF ToldOf, Honest, Learned, Telling
<1> QED BY <1>3, <1>7, <1>8

\* The session ends, a user fills the cache, or nothing happens.
LEMMA OthersKeepCount ==
    ASSUME XInv, SessionEnds \/ (\E e \in Keys : Visit(e)) \/ UNCHANGED vars
    PROVE  XInv'
<1> SUFFICES ASSUME Listening'
             PROVE  XInv'
  BY DEF XInv
<1>1. UNCHANGED <<server, me, stage, unit, got, notes, found, clear>>
  BY DEF SessionEnds, Visit, vars
<1>2. alive'
  BY DEF Listening
<1>3. alive' = alive
  BY <1>2 DEF SessionEnds, Visit, vars
<1>4. Stage' = Stage /\ Current' = Current
  BY <1>1 DEF Stage, Current
<1>5. Listening
  BY <1>1, <1>3, <1>4 DEF Listening, Over, Runs
<1>6. ASSUME NEW k \in 1 .. Len(Units[Stage]), k < unit
      PROVE  Paid(Units[Stage][k])'
  <2>1. PICK w : w = Units[Stage][k]
    OBVIOUS
  <2>2. Paid(w)
    BY <1>5, <1>6, <2>1 DEF XInv
  <2>3. Paid(w)'
    BY <1>1, <2>2, PaidStays
  <2> QED BY <1>4, <2>1, <2>3
<1>7. ASSUME got # <<>>
      PROVE  ToldOf(Current, got)'
  <2> DEFINE u == Current
  <2>1. ToldOf(u, got)
    BY <1>5, <1>7 DEF XInv
  <2>2. \A x \in Dues : Owes(x, u)' = Owes(x, u)
    BY <1>1, <1>4, OwedStays
  <2> HIDE DEF u
  <2> QED BY <1>1, <1>4, <2>1, <2>2
          DEF ToldOf, Honest, Telling, Learned, Exposed, Steady, Acts, Gated, Uncustomed, u
<1> QED BY <1>1, <1>4, <1>6, <1>7 DEF XInv

LEMMA Counted ==
    ASSUME SInv, XInv, [Next]_vars
    PROVE  XInv'
<1>1. CASE Request
  BY <1>1, RequestIs, ExchangeKeepsCount
<1>2. CASE NextStage
  <2>1. unit' = 1 /\ got' = <<>>
    BY <1>2 DEF NextStage, SInv, Heeded
  <2>2. \A k \in 1 .. Len(Units[Stage'])  : ~(k < 1)
    OBVIOUS
  <2> QED BY <2>1, <2>2 DEF XInv
<1> QED BY <1>1, <1>2, OthersKeepCount DEF Next

\* While it hears every answer with its session alive, a stage of the API tests
\* or the depth suite has shown what it owes to the units behind it.
THEOREM ExposureInvariance == Spec => []XInv
<1>1. Init => XInv
  <2> SUFFICES ASSUME Init PROVE XInv
    OBVIOUS
  <2>1. unit = 1 /\ got = <<>>
    BY DEF Init
  <2>2. \A k \in 1 .. Len(Units[Stage]) : ~(k < 1)
    OBVIOUS
  <2> QED BY <2>1, <2>2 DEF XInv
<1>2. SInv /\ XInv /\ [Next]_vars => XInv'
  BY Counted
<1> QED BY <1>1, <1>2, DepthInvariance, PTL DEF Spec

\* Whatever the crawl, the server and the session: a stage of the API tests or
\* the depth suite that is done, heard every answer and kept its session has
\* reported the open APIs, the unchecked tokens and methods and the objects
\* shown to B among what it was given (engagement.py, activetests.py,
\* auth/authz.py, jwtattacks.py, apiexposure.py).
THEOREM NothingHides == Spec => []ExposureIsReported
<1>1. ASSUME SInv, XInv
      PROVE  ExposureIsReported
  <2> SUFFICES ASSUME StageDone, NEW v \in Urls, Exposed(v), NEW x \in Dues, Due(x, v)
               PROVE  Shown(x, v, found)
    BY ExposureIs
  <2>1. Listening /\ ~Over /\ unit > Len(Units[Stage])
    BY DEF StageDone, Listening
  <2>2. Len(Units[Stage]) \in Nat /\ unit \in Nat
    BY <1>1, <2>1, UnitNumbers
  <2>3. \A k \in 1 .. Len(Units[Stage]) : Paid(Units[Stage][k])
    <3>1. \A k \in 1 .. Len(Units[Stage]) : k < unit
      BY <2>1, <2>2
    <3> QED BY <1>1, <2>1, <3>1 DEF XInv
  <2>4. \E k \in 1 .. Len(Units[Stage]) :
          /\ Units[Stage][k].url = v
          /\ Stage = "api-authz" => Units[Stage][k].hdr = "others"
    <3>1. CASE Stage = "api-authz"
      BY <3>1, ApiUnits, DueIs
    <3>2. CASE Stage = "api-exposure"
      BY <3>2, UnitsCover, DueIs DEF Lists
    <3>3. CASE Stage \in {"authz", "jwt", "verb"}
      BY <3>3, UnitsCover, DueIs DEF Lists
    <3>4. CASE Stage = "matrix"
      BY <3>4, UnitsCover, DueIs DEF Lists
    <3> QED BY <3>1, <3>2, <3>3, <3>4, DueIs
  <2>5. PICK k \in 1 .. Len(Units[Stage]) :
          /\ Units[Stage][k].url = v
          /\ Stage = "api-authz" => Units[Stage][k].hdr = "others"
    BY <2>4
  <2>6. Owes(x, Units[Stage][k])
    BY <2>5 DEF Owes
  <2> QED BY <2>3, <2>5, <2>6 DEF Paid
<1> QED BY <1>1, DepthInvariance, ExposureInvariance, PTL
=============================================================================
