---------------------------- MODULE MCEngagement ----------------------------
(***************************************************************************)
(* Small scans for TLC: a roster of three tools (one of them not active),  *)
(* one or two pages, up to five sqlmap targets, and the configurations the *)
(* named policies of d4st/safety.py produce.                               *)
(***************************************************************************)
EXTENDS Engagement

Everything == {"nuclei", "sqlmap", "zap", "dalfox", "graphw00f", "commix"}

MCRoster == << [name |-> "dalfox", active |-> TRUE],
               [name |-> "graphw00f", active |-> FALSE],
               [name |-> "commix", active |-> TRUE] >>

\* 'engagement' or 'safe-deep', every engine present, a captured session with
\* an API behind it, no keeper.
FullScan ==
    [ tools |-> TRUE, active |-> TRUE, fuzz |-> TRUE, level |-> 5, dom |-> TRUE,
      zap |-> TRUE, capture |-> TRUE, keeper |-> FALSE, session |-> TRUE,
      deep |-> TRUE, schema |-> TRUE, gets |-> TRUE, installed |-> Everything ]

ProductionSafe == [FullScan EXCEPT !.fuzz = FALSE, !.level = 2]
PassiveOnly == [FullScan EXCEPT !.active = FALSE, !.fuzz = FALSE, !.level = 1]

\* The policies, with and without what may be absent: the API, the session, an
\* engine, the optional passes.
HealthConfigs ==
    { FullScan, ProductionSafe, PassiveOnly,
      [FullScan EXCEPT !.tools = FALSE],
      [FullScan EXCEPT !.zap = FALSE, !.dom = FALSE, !.capture = FALSE],
      [FullScan EXCEPT !.deep = FALSE, !.schema = FALSE],
      [FullScan EXCEPT !.session = FALSE],
      [FullScan EXCEPT !.gets = FALSE],
      [FullScan EXCEPT !.level = 3, !.installed = {"sqlmap", "commix"}],
      [FullScan EXCEPT !.installed = {"nuclei", "zap"}] }

\* With a keeper, where the scan's cookie matters.
SessionConfigs ==
    { [FullScan EXCEPT !.keeper = TRUE, !.deep = FALSE, !.zap = FALSE],
      [PassiveOnly EXCEPT !.keeper = TRUE] }

AllConfigs == HealthConfigs \union SessionConfigs
=============================================================================
