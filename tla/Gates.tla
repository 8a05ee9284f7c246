------------------------------- MODULE Gates --------------------------------
(***************************************************************************)
(* The role gates of the screens: frontend/src/lib/enums.ts, "string       *)
(* literal mirrors" of what app/auth and the routes decide.                *)
(***************************************************************************)

CREATOR_ROLES          == {"ceo", "assistant_director", "junior_director"}
SCRIPT_LOCKER_ROLES    == {"ceo", "assistant_director", "junior_director"}
SCRIPT_UNLOCKER_ROLES  == {"ceo", "assistant_director"}
APPROVER_ROLES         == {"ceo", "assistant_director"}
CHANGE_REQUESTER_ROLES == {"ceo", "assistant_director", "junior_director"}

canMoveToStage(role, stage, isOwner) ==
    IF stage = "approved_published"
    THEN role = "ceo"
    ELSE \/ role \in {"ceo", "assistant_director"}
         \/ role = "junior_director" /\ isOwner

canEditProject(role, isOwner) ==
    \/ role \in {"ceo", "assistant_director"}
    \/ role \in {"junior_director", "editor"} /\ isOwner

=============================================================================
