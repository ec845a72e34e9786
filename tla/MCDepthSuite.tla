---------------------------- MODULE MCDepthSuite ----------------------------
(* An API object, a page with a parameter, a hub and a file, and an open   *)
(* API beyond every cap; one deviation from a sound server at a time, and  *)
(* the pairs in which one hides behind another.                            *)
EXTENDS DepthSuite

CONSTANT Refusing      \* how a locked URL refuses

MCUrlSeq == <<"open", "object", "page", "late">>
No == [api |-> FALSE, id |-> FALSE, query |-> FALSE, auth |-> FALSE,
       file |-> FALSE, hub |-> FALSE, make |-> FALSE, list |-> FALSE,
       edit |-> FALSE, again |-> FALSE]
MCFacts == [open |-> [No EXCEPT !.api = TRUE, !.make = TRUE, !.list = TRUE, !.file = TRUE],
            object |-> [No EXCEPT !.api = TRUE, !.id = TRUE, !.hub = TRUE, !.edit = TRUE],
            page |-> [No EXCEPT !.query = TRUE, !.file = TRUE, !.make = TRUE],
            late |-> [No EXCEPT !.api = TRUE, !.id = TRUE, !.again = TRUE]]
MCCap == [s \in ToSet(Stages) |->
            CASE s = "api-exposure" -> 4
              [] s \in {"authz", "jwt", "verb", "cors", "matrix"} -> 2
              [] OTHER -> 3]

Nat0 == [guard |-> "open", refusal |-> "unauthorized", flaws |-> {}, habits |-> {}]

(* The object's flaws and its way of refusing, for the identity stages.    *)
Locked == [Nat0 EXCEPT !.guard = "locked", !.habits = {"hub", "advertises", "records"}]
ObjectNatures == {[Locked EXCEPT !.refusal = r] : r \in Refusing}
           \union {[Locked EXCEPT !.flaws = {f}] : f \in {"token", "method", "object"}}
           \union {[Locked EXCEPT !.guard = "open"]}
           \union {[Locked EXCEPT !.refusal = "form", !.habits = @ \union {"lookalike"}]}
Honours == {{"authorization"}, {"cookie"}, {"custom"}, {"authorization", "cookie"}}
Serves(open, object, page, h, weak, marker) ==
    [at |-> [open |-> open, object |-> object, page |-> page,
             late |-> [Nat0 EXCEPT !.flaws = {"object"}, !.habits = {"records"}]],
     login |-> {}, honours |-> h, weak |-> weak, marker |-> marker,
     leaks |-> FALSE, mints |-> FALSE, stored |-> FALSE, deep |-> TRUE]
Page(g, o) == [Nat0 EXCEPT !.guard = g, !.refusal = o.refusal]
Flawed(fs) == [Nat0 EXCEPT !.flaws = fs]
WithSession ==
    {Serves([Nat0 EXCEPT !.guard = g], o, Page(g, o), h, FALSE, mk) :
        g \in {"open", "locked"}, o \in ObjectNatures, h \in Honours, mk \in BOOLEAN}
    \union {Serves(Nat0, Locked, Nat0, {"authorization"}, TRUE, FALSE)}
    \union {Serves([Flawed(fs) EXCEPT !.habits = {"mine"}],
                   [Locked EXCEPT !.flaws = {"echoes"}],
                   Flawed({"elevates"} \ fs), {"authorization"}, FALSE, FALSE) :
                fs \in {{}, {"elevates"}}}
    \union {[Serves([Nat0 EXCEPT !.guard = "locked"], Locked, Page("locked", Locked), h,
                    FALSE, FALSE) EXCEPT !.stored = (h = {"cookie"}), !.deep = (h = {"cookie"})] :
                h \in {{"authorization"}, {"cookie"}}}
    \union {[Serves(Nat0, Locked, [Nat0 EXCEPT !.guard = "locked", !.refusal = "redirect"],
                    {"cookie"}, FALSE, FALSE) EXCEPT !.login = l] :
                l \in SUBSET {"host", "cached"}}
    \union {Serves([Flawed({"elevates"}) EXCEPT !.habits = hs], Locked,
                   [Nat0 EXCEPT !.guard = g, !.refusal = "form", !.habits = {"cached"}],
                   {"authorization"}, FALSE, TRUE) :
                g \in {"open", "locked"}, hs \in {{}, {"cached"}}}
    \union {[Serves([Nat0 EXCEPT !.guard = g], o, Page(g, o), h, FALSE, TRUE)
               EXCEPT !.leaks = l, !.mints = m] :
                g \in {"open", "locked"}, h \in Honours, l \in BOOLEAN, m \in BOOLEAN,
                o \in {[Locked EXCEPT !.flaws = {f}] : f \in {"object", "token"}}}

(* The page's flaws and habits, for the injection stages, which run        *)
(* without a session as well.                                              *)
Quiet == {{f} : f \in {"both", "link", "canary", "evaluated", "escaped", "origin", "null"}}
         \union {{"origin", "creds"}, {"star", "creds"}}
Pages == {<<{f}, {h}>> : f \in Engines, h \in {"moody", "errs", "blind", "advertises"}}
         \union {<<fs, {}>> : fs \in Quiet}
         \union {<<fs, {h}>> : fs \in {{}, {"host"}}, h \in {"cached", "errs", "moody"}}
         \union {<<{}, {"cached", "errs"}>>}
         \union {<<fs, hs>> : fs \in {{}, {"leftover"}},
                             hs \in {{}, {"catchall"}, {"catchall", "moody"}}}
         \union {<<{}, {h}>> : h \in {"records", "well-formed"}}
         \union {<<{"canary"}, {"form"}>>, <<{}, {"form", "tokened"}>>}
PageNatures == {[Nat0 EXCEPT !.flaws = p[1], !.habits = p[2]] : p \in Pages}
WithoutSession ==
    {Serves([n EXCEPT !.habits = @ \intersect {"catchall"}], Nat0, n, {}, FALSE, FALSE) :
        n \in PageNatures}
    \union {Serves([Nat0 EXCEPT !.habits = {"catchall", h}], Nat0,
                   [Nat0 EXCEPT !.habits = {"catchall"}], {}, FALSE, FALSE) :
                h \in {"catchall", "moody", "local"}}
    \union {[Serves(Nat0, Nat0, [Nat0 EXCEPT !.guard = "locked", !.refusal = "redirect"],
                    {"cookie"}, FALSE, FALSE) EXCEPT !.login = {"host", "cached"}]}

MCServers == WithSession \union WithoutSession

MCOther == [h \in Headers |-> IF h = "custom" THEN "none" ELSE "B"]
=============================================================================
