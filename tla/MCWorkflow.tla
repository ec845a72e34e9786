----------------------------- MODULE MCWorkflow -----------------------------
(***************************************************************************)
(* A target, two more pages of its site (one of them in two spellings), a  *)
(* third-party page, a malformed URL and an empty one; two discovery tools, *)
(* one of them active, and two detection tools.                            *)
(***************************************************************************)
EXTENDS Workflow

CONSTANTS home, page, pageAgain, api, cdn, broken, blank, empty,
          katana, ferox, zap, nuclei

Site == {home, page, pageAgain, api, cdn, broken, blank}
Ours == Site \ {cdn}

\* pageAgain differs from page in a parameter's value only.
Canonical == [u \in Site |->
    CASE u = pageAgain -> page [] u = blank -> empty [] OTHER -> u]

Crawlers == <<katana, ferox>>
Scanners == <<nuclei, zap>>
=============================================================================
