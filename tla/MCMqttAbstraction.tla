------------------------- MODULE MCMqttAbstraction -------------------------
(* One process with two publishing threads, an EVerest topic with one      *)
(* handler, and an external topic seen through a wildcard filter.          *)
EXTENDS MqttAbstraction, TLC

CONSTANTS t1, t2, m1, m2, r1, x1, hVar, hExt, topicVar, topicExt, wild

MCTopics == {topicVar, topicExt}
MCFilters == {topicVar, topicExt, wild}
MCMessages == {m1, m2, x1}
MCFewMessages == {m1, r1, x1}
MCTopicOf ==
  [m \in Messages |-> IF m = x1 THEN topicExt ELSE topicVar]
MCAuthorOf ==
  [m \in Messages |-> IF m = r1 THEN Remote ELSE IF m = x1 THEN t2 ELSE t1]
MCParses == Messages \ {r1}
MCFilterOf == hVar :> topicVar @@ hExt :> wild

\* an external prefix that keeps the wildcard away from the EVerest topics
MCCovers == topicVar :> {topicVar} @@ topicExt :> {topicExt} @@ wild :> {topicExt}

\* no external prefix and a handler for "#"
MCCoversAll == topicVar :> {topicVar} @@ topicExt :> {topicExt} @@ wild :> MCTopics
=============================================================================
