---------------------------- MODULE MCGovernance ----------------------------
(* One operator and one reader: the histories of each family of commands.   *)
EXTENDS Governance

MCMaxCommands ==
    [memory |-> 2, security |-> 3, capsules |-> 3, sandbox |-> 3, hibernation |-> 2, soul |-> 3,
     prompts |-> 3, chat |-> 2]

MCMaxKills ==
    [memory |-> 1, security |-> 1, capsules |-> 1, sandbox |-> 1, hibernation |-> 1, soul |-> 1,
     prompts |-> 0, chat |-> 1]

\* A document capsule whose evidence this workspace may have, and its tools.
MCPackages ==
    {[key |-> "key",
      capsule |-> [PassedDraft("1", {"write"}, Nothing) EXCEPT !.lifecycle = "published",
                                                               !.approval = "approved"]]}
=============================================================================
