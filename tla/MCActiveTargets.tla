--------------------------- MODULE MCActiveTargets ---------------------------
(***************************************************************************)
(* A site with a path of each kind: a plain page, the login, a page that   *)
(* deletes, settings where the password changes (the start page), the      *)
(* password's own page, a script, and a partner's host some form posts to. *)
(* A crawl may find all of it, or the start page with or without its       *)
(* script.                                                                 *)
(***************************************************************************)
EXTENDS ActiveTargets

CONSTANTS profile, login, delete, settings, password, script, partner

Sent(path, method, params, query) ==
    [path |-> path, method |-> method, params |-> params, query |-> query]
Form(path, method, params) == Sent(path, method, params, {})
Link(path, params) == Sent(path, "GET", params, params)

SitePaths == {profile, login, delete, settings, password, script, partner}
SitePages == SitePaths \ {partner}
SiteCrawls == {SitePages, {settings, script}, {settings}}

SiteLinks == {Link(login, {"back"}), Link(delete, {"id"})}

SiteForms == [page \in SitePages |->
    CASE page = profile -> {Form(profile, "GET", {"id"}), Form(profile, "POST", {"id"})}
      [] page = script -> {}
      [] page = login -> {Form(login, "POST", {"user"})}
      [] page = delete -> {Form(delete, "POST", {"id"}), Sent(profile, "GET", {"back"}, {"id"})}
      [] page = settings -> {Form(settings, "POST", {"newpass"})}
      [] page = password -> {Form(password, "GET", {"newpass"}), Form(password, "POST", {"newpass"})}]

AbroadForms == [SiteForms EXCEPT ![profile] = @ \union {Form(partner, "POST", {"id"})}]

PostedForms == [SiteForms EXCEPT ![password] = {Form(password, "POST", {"newpass"})}]

SiteLogin == SiteForms[login]

SiteDocument == {Form(settings, "POST", {"newpass"}), Form(login, "POST", {"user"}),
                 Form(delete, "POST", {"id"}), Form(profile, "GET", {"back"})}

\* engagement and safe-deep, production-safe, passive-only, staging and aggressive
AllPolicies ==
    {[active |-> TRUE, fuzz |-> TRUE, spareActs |-> TRUE],
     [active |-> TRUE, fuzz |-> FALSE, spareActs |-> TRUE],
     [active |-> FALSE, fuzz |-> FALSE, spareActs |-> TRUE],
     [active |-> TRUE, fuzz |-> TRUE, spareActs |-> FALSE]}

=============================================================================
