----------------------------- MODULE MCJsModule -----------------------------
(* A module with a command, a variable to subscribe to, a command to call  *)
(* and an external topic; one that subscribes to errors; one whose         *)
(* requirement is a list; one without handler_setup; and what cannot boot. *)
EXTENDS JsModule, TLC

CONSTANTS c, v, e1, e2, r, a

Requirement(n, vars_, errors, callable) ==
  [connections |-> n, vars |-> vars_, errors |-> errors, callable |-> callable]
NoRequirement == [x \in {} |-> 0]

Caller ==
  [known |-> TRUE, cmds |-> {c}, requires |-> r :> Requirement(1, {v}, {}, TRUE),
   aliases |-> {}, raises |-> FALSE, setup |-> TRUE]
Errors == [Caller EXCEPT !.cmds = {}, !.requires = r :> Requirement(1, {}, {e1, e2}, FALSE)]
Outside == [Caller EXCEPT !.requires = NoRequirement, !.aliases = {a}, !.raises = TRUE]
Listed == [Caller EXCEPT !.requires = r :> Requirement(2, {v}, {}, TRUE)]
Unlisted == [Caller EXCEPT !.known = FALSE]
Bare(cs) == [Caller EXCEPT !.cmds = cs, !.requires = r :> Requirement(2, {}, {}, TRUE), !.setup = FALSE]

MCDescriptions == {Caller, Errors, Outside, Listed, Unlisted, Bare({c}), Bare({})}
MCErrorOrder == <<e1, e2>>
=============================================================================
