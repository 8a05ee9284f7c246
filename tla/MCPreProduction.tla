--------------------------- MODULE MCPreProduction ---------------------------
(***************************************************************************)
(* Small productions for TLC.  Each .cfg picks the accounts and the rows;  *)
(* CastingSpec starts from a project the CEO has taken to casting, with    *)
(* the locations and the cast of the .cfg, nothing confirmed yet.          *)
(***************************************************************************)
EXTENDS PreProduction, TLC

CONSTANTS r1, r2, ceo, jd, l1, c1, c2, s1

Team == ceo :> "ceo" @@ jd :> "junior_director"

MCRole == [u \in Users |-> Team[u]]

Symmetry == Permutations({r1, r2}) \cup Permutations({c1, c2})

CastingInit ==
    /\ project = [FreshProject EXCEPT !.stage = "casting"]
    /\ trail = <<StageNote("project.created", Creator, NoStage, "idea"),
                 StageChanged(ceo, "idea", "casting"),
                 Note("location.created", ceo)>>
               \o [i \in 1 .. Cardinality(Cast) |-> Note("cast.created", ceo)]
    /\ req = [r \in Requests |-> Idle]
    /\ child = [c \in Locations \cup Cast |-> NewChild(c)]
    /\ told = [c \in DOMAIN child |-> child[c].state]
    /\ held = [r \in Requests |-> NoHold]

CastingSpec == CastingInit /\ [][PreNext]_<<storeVars, preVars>>

=============================================================================
