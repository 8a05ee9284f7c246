------------------------------- MODULE Access -------------------------------
(***************************************************************************)
(* Who may do what to a project: the pure predicates of                    *)
(* app/auth/dependencies.py and the role gates of the routes.  One project *)
(* is modelled, so its owner and its creator are constants: no handler     *)
(* ever reassigns projects.owner_id.                                       *)
(***************************************************************************)

CONSTANTS
    Users,      \* accounts that can hold a session
    Role,       \* users.role, a function from Users to Roles
    Creator,    \* the user whose POST /projects made the project
    Owner       \* projects.owner_id

Roles == {"ceo", "assistant_director", "junior_director", "editor", "crew",
          "viewer"}

\* CreatorRoles, UnlockerRoles / AdminRoles and DirectorRoles of the routes.
AdminRoles    == {"ceo", "assistant_director"}
DirectorRoles == AdminRoles \cup {"junior_director"}

\* Only the two admin roles may hand a new project to somebody else.
ASSUME AccessAssumption ==
    /\ Role \in [Users -> Roles]
    /\ Creator \in Users /\ Role[Creator] \in DirectorRoles
    /\ Owner \in Users
    /\ Owner = Creator \/ Role[Creator] \in AdminRoles

Levels == {"view", "edit", "manage"}

CanAccess(u, level) ==
    \/ Role[u] = "ceo"
    \/ /\ level = "view"
       /\ Role[u] = "crew" => u = Owner
    \/ /\ level = "edit"
       /\ \/ Role[u] = "assistant_director"
          \/ Role[u] \in {"junior_director", "editor"} /\ u = Owner
    \/ /\ level = "manage"
       /\ \/ Role[u] = "assistant_director"
          \/ Role[u] = "junior_director" /\ u = Owner

\* Broken on purpose: publishing loses its reservation.
CanMoveToUnreserved(u, stage) ==
    \/ Role[u] \in AdminRoles
    \/ Role[u] = "junior_director" /\ u = Owner

CanMoveTo(u, stage) ==
    IF stage = "approved_published"
    THEN Role[u] = "ceo"
    ELSE \/ Role[u] \in AdminRoles
         \/ Role[u] = "junior_director" /\ u = Owner

=============================================================================
